------------------------------ MODULE SettleProofs ------------------------------
(***************************************************************************)
(* Where an order ends: no finished order is left queued or running, a     *)
(* retry leaves its trace on the original, and the statuses follow         *)
(* OrderLifecycle as long as no order is delivered late or twice.          *)
(***************************************************************************)
EXTENDS ListProofs

(***************************************************************************)
(* How far process_job's caller is with an order: Mid, RUNNING is stored   *)
(* and the outcome is not; Over, the outcome was stored by a worker that   *)
(* has not died before its commit.                                         *)
(***************************************************************************)
MidPcs == {"endRead", "endWrite"}
EndPcs == {"recRead", "recWrite", "commit"}

Mid(o) == \E w \in Workers : wJob[w] = o /\ wPc[w] \in MidPcs

Over(o) ==
  \/ o \in CommittedOrders
  \/ \E w \in Workers : wJob[w] = o /\ wPc[w] \in EndPcs

(***************************************************************************)
(* The inductive invariant, on top of RecordInv and ListInv.  Each part    *)
(* holds until the faults that break it have happened.                     *)
(***************************************************************************)
Owning ==
  ~Evicted => \A w \in Workers : wPc[w] # "idle" => owner[wPart[w]] = w

Unretried == \A o \in Orders : apiPc[o] = "unused" => job[o].retryOf = NoOrder

NoneRejected ==
  ~Happened("publish") => \A o \in Orders : apiPc[o] \notin {"markRead", "markWrite"}

NoneLost == ~Happened("brokerLoss") => budget.lost = {}

\* markFailed made the order failed.  If it is in the topic nevertheless it may be
\* run; a worker that dies then leaves it running, to be delivered again unless
\* the broker has lost it.
RejectedFinal ==
  Kept /\ ~(Evicted /\ Happened("workerCrash")) =>
    \A o \in Orders :
      /\ apiPc[o] = "rejected" /\ ~Retried(o)
      /\ ~Happened("workerCrash") \/ ~InLog(o)
      => store[o].status \in Final \/ Mid(o)

\* An order whose outcome was stored shows it, or a worker is about to store it
\* again.  A worker that was evicted and dies in between would leave it running.
OverFinal ==
  Kept /\ ~(Evicted /\ Happened("workerCrash")) =>
    \A o \in Orders : Over(o) /\ ~Retried(o) => store[o].status \in Final \/ Mid(o)

\* A final status comes from a worker, and only such an order is retried.
FinalOver ==
  ~Redelivery =>
    \A o \in Orders : store[o].status \in Final \/ Retried(o) => Over(o)

RetriedFailed ==
  Quiet =>
    /\ \A o \in Orders : Retried(o) => store[o].status \in {"failed", "recovered"}
    /\ \A o \in Orders :
         apiPc[o] = "linkWrite" => apiSnap[o].status \in {"failed", "recovered"}

RetriedLinked ==
  Quiet =>
    \A r \in Orders :
      apiPc[r] = "accepted" /\ job[r].retryOf # NoOrder =>
        store[job[r].retryOf].recoveryJob # NoOrder

CompletedRecovered ==
  ~Redelivery =>
    \A o \in Orders :
      store[o].recoveryStatus = "completed" => store[o].status = "recovered"

UnfinishedShown ==
  Quiet =>
    \A o \in Orders :
      Exists(store[o]) /\ ~Over(o) =>
        store[o].status = IF Mid(o) THEN "running" ELSE "queued"

SettleInv ==
  /\ RecordInv /\ ListInv
  /\ Owning /\ Unretried /\ NoneLost
  /\ NoneRejected /\ RejectedFinal
  /\ OverFinal /\ FinalOver
  /\ RetriedFailed /\ RetriedLinked /\ CompletedRecovered /\ UnfinishedShown

(***************************************************************************)
(* What a step does to one worker, to one handler and to one record.       *)
(***************************************************************************)
LEMMA WorkerMoves ==
  ASSUME TypeInv, [Next]_vars, NEW v \in Workers
  PROVE  /\ wPc'[v] # "idle" =>
              \/ wPc[v] # "idle" /\ wJob'[v] = wJob[v]
              \/ \E p \in Partitions : Fetch(v, p)
         /\ wPc'[v] \in MidPcs => wPc[v] \in MidPcs \/ RunWrite(v)
         /\ wPc'[v] \in EndPcs => wPc[v] \in EndPcs \/ EndWrite(v)
         /\ wPc[v] \in MidPcs =>
              \/ wPc'[v] \in MidPcs \/ EndWrite(v) \/ WorkerCrash(v)
              \/ ~Exists(store[wJob[v]])
         /\ wPc[v] \in EndPcs =>
              wPc'[v] \in EndPcs \/ Commit(v) \/ CommitFails(v) \/ WorkerCrash(v)
<1> DEFINE Goal ==
         /\ wPc'[v] # "idle" =>
              \/ wPc[v] # "idle" /\ wJob'[v] = wJob[v]
              \/ \E p \in Partitions : Fetch(v, p)
         /\ wPc'[v] \in MidPcs => wPc[v] \in MidPcs \/ RunWrite(v)
         /\ wPc'[v] \in EndPcs => wPc[v] \in EndPcs \/ EndWrite(v)
         /\ wPc[v] \in MidPcs =>
              \/ wPc'[v] \in MidPcs \/ EndWrite(v) \/ WorkerCrash(v)
              \/ ~Exists(store[wJob[v]])
         /\ wPc[v] \in EndPcs =>
              wPc'[v] \in EndPcs \/ Commit(v) \/ CommitFails(v) \/ WorkerCrash(v)
<1> USE DEF MidPcs, EndPcs
<1>0. wPc \in [Workers -> WorkerPcs] /\ wJob \in [Workers -> Orders \cup {NoOrder}]
  BY DEF TypeInv, TypeOK
<1>1. ASSUME UNCHANGED <<wPc[v], wJob[v]>> PROVE Goal
  BY <1>1
<1>2. ASSUME NEW w \in Workers, WorkerStep(w) PROVE Goal
  <2>1. CASE w = v
    <3>1. CASE RunRead(v)
      BY <1>0, <2>1, <3>1 DEF RunRead, ReadInto, WorkerGoto, Die
    <3>2. CASE EndRead(v)
      BY <1>0, <2>1, <3>2 DEF EndRead, ReadInto, WorkerGoto, Die
    <3>3. CASE RecRead(v)
      BY <1>0, <2>1, <3>3 DEF RecRead, ReadInto, WorkerGoto
    <3>4. CASE RunWrite(v) \/ EndWrite(v) \/ RecWrite(v)
      BY <1>0, <2>1, <3>4 DEF RunWrite, EndWrite, RecWrite, WriteBack, WorkerGoto
    <3>5. CASE CheckExists(v) \/ SaveJob(v)
      BY <1>0, <2>1, <3>5 DEF CheckExists, SaveJob, WorkerGoto
    <3>6. ASSUME NEW p \in Partitions, Fetch(v, p) PROVE Goal
      BY <1>0, <3>6 DEF Fetch, WorkerGoto
    <3>7. CASE Commit(v)
      BY <1>0, <3>7 DEF Commit, WorkerGoto
    <3>8. CASE CommitFails(v) \/ DrainExit(v)
      BY <1>0, <3>8 DEF CommitFails, DrainExit, Die
    <3> QED BY <1>2, <2>1, <3>1, <3>2, <3>3, <3>4, <3>5, <3>6, <3>7, <3>8 DEF WorkerStep
  <2>2. CASE w # v
    <3>1. CASE RunRead(w) \/ EndRead(w) \/ RecRead(w)
      BY <1>0, <1>1, <2>2, <3>1 DEF RunRead, EndRead, RecRead, ReadInto, WorkerGoto, Die
    <3>2. CASE RunWrite(w) \/ EndWrite(w) \/ RecWrite(w)
      BY <1>0, <1>1, <2>2, <3>2 DEF RunWrite, EndWrite, RecWrite, WriteBack, WorkerGoto
    <3>3. CASE \/ CheckExists(w) \/ SaveJob(w) \/ Commit(w) \/ CommitFails(w) \/ DrainExit(w)
               \/ \E p \in Partitions : Fetch(w, p)
      BY <1>0, <1>1, <2>2, <3>3 DEF CheckExists, SaveJob, Commit, CommitFails, DrainExit,
         Fetch, WorkerGoto, Die
    <3> QED BY <1>2, <3>1, <3>2, <3>3 DEF WorkerStep
  <2> QED BY <2>1, <2>2
<1>3. ASSUME NEW w \in Workers, WorkerCrash(w) PROVE Goal
  BY <1>0, <1>1, <1>3 DEF WorkerCrash, Die
<1>4. ASSUME \/ \E o \in Orders : SendRefused(o) \/ ApiStep(o)
             \/ \E o \in Orders, lost \in BOOLEAN : PublishFailed(o, lost) \/ ApiCrash(o, lost)
             \/ \E w \in Workers : Sigterm(w)
             \/ \E w \in Workers, p \in Partitions : Evict(w, p) \/ Assign(w, p)
             \/ \E o \in Orders, p \in Partitions : BrokerAppend(o, p)
             \/ RedisLoss \/ BrokerLoss \/ Client \/ Waiting \/ UNCHANGED vars
      PROVE  Goal
  <2>1. UNCHANGED <<wPc, wJob>>
    BY <1>4 DEF SendRefused, PublishFailed, ApiCrash, Sigterm, Evict, Assign, BrokerAppend,
       RedisLoss, BrokerLoss, Client, PlaceOrder, RetryOrder, Waiting, vars, workers, ApiStep, SetRecord,
       PushRecent, TrimRecent, SendOrder, AckPublish, MarkFailedRead, MarkFailedWrite,
       LinkRead, LinkWrite
  <2> QED BY <1>1, <2>1
<1> HIDE DEF Goal
<1>5. Goal
  BY <1>2, <1>3, <1>4 DEF Next, Faults
<1> QED BY <1>5 DEF Goal

LEMMA ApiTurns ==
  ASSUME TypeInv, [Next]_vars, NEW x \in Orders
  PROVE  /\ apiPc'[x] = "unused" => apiPc[x] = "unused"
         /\ apiPc'[x] \in {"markRead", "markWrite"} =>
              apiPc[x] \in {"markRead", "markWrite"} \/ Happened("publish")'
         /\ apiPc'[x] = "rejected" =>
              \/ apiPc[x] = "rejected" \/ MarkFailedWrite(x)
              \/ apiPc[x] = "markRead" /\ ~Exists(store[x])
         /\ apiPc'[x] = "accepted" =>
              \/ apiPc[x] = "accepted" \/ LinkWrite(x)
              \/ job'[x].retryOf = NoOrder
              \/ apiPc[x] = "linkRead" /\ ~Exists(store[job[x].retryOf])
<1> DEFINE Goal ==
         /\ apiPc'[x] = "unused" => apiPc[x] = "unused"
         /\ apiPc'[x] \in {"markRead", "markWrite"} =>
              apiPc[x] \in {"markRead", "markWrite"} \/ Happened("publish")'
         /\ apiPc'[x] = "rejected" =>
              \/ apiPc[x] = "rejected" \/ MarkFailedWrite(x)
              \/ apiPc[x] = "markRead" /\ ~Exists(store[x])
         /\ apiPc'[x] = "accepted" =>
              \/ apiPc[x] = "accepted" \/ LinkWrite(x)
              \/ job'[x].retryOf = NoOrder
              \/ apiPc[x] = "linkRead" /\ ~Exists(store[job[x].retryOf])
<1>0. apiPc \in [Orders -> ApiPcs]
  BY DEF TypeInv, TypeOK
<1>1. ASSUME UNCHANGED apiPc PROVE Goal
  BY <1>1
<1>2. ASSUME NEW o \in Orders, ApiStep(o) PROVE Goal
  <2>1. CASE SetRecord(o) \/ PushRecent(o) \/ TrimRecent(o) \/ SendOrder(o)
    BY <1>0, <2>1 DEF SetRecord, PushRecent, TrimRecent, SendOrder, ApiGoto
  <2>2. CASE AckPublish(o)
    BY <1>0, <2>2 DEF AckPublish, ApiGoto
  <2>3. CASE MarkFailedRead(o)
    BY <1>0, <2>3 DEF MarkFailedRead, ApiGoto
  <2>4. CASE MarkFailedWrite(o)
    <3>1. \A y \in Orders : apiPc'[y] = IF y = o THEN "rejected" ELSE apiPc[y]
      BY <1>0, <2>4 DEF MarkFailedWrite, ApiGoto
    <3> QED BY <2>4, <3>1
  <2>5. CASE LinkRead(o)
    BY <1>0, <2>5 DEF LinkRead, ApiGoto
  <2>6. CASE LinkWrite(o)
    <3>1. \A y \in Orders : apiPc'[y] = IF y = o THEN "accepted" ELSE apiPc[y]
      BY <1>0, <2>6 DEF LinkWrite, ApiGoto
    <3> QED BY <2>6, <3>1
  <2> QED BY <1>2, <2>1, <2>2, <2>3, <2>4, <2>5, <2>6 DEF ApiStep
<1>3. ASSUME Client PROVE Goal
  <2>1. PICK o \in Orders : apiPc' = [apiPc EXCEPT ![o] = "set"]
    BY <1>3 DEF Client, PlaceOrder, RetryOrder, ApiGoto
  <2> QED BY <1>0, <2>1
<1>4. ASSUME NEW o \in Orders, SendRefused(o) \/ \E lost \in BOOLEAN : PublishFailed(o, lost)
      PROVE  Goal
  <2>1. apiPc' = [apiPc EXCEPT ![o] = "markRead"] /\ Happened("publish")'
    BY <1>4, HappenedSteps DEF SendRefused, PublishFailed, ApiGoto
  <2> QED BY <1>0, <2>1
<1>5. ASSUME NEW o \in Orders, NEW lost \in BOOLEAN, ApiCrash(o, lost) PROVE Goal
  BY <1>0, <1>5 DEF ApiCrash
<1>6. ASSUME NEW w \in Workers, WorkerStep(w) PROVE UNCHANGED apiPc
  BY <1>6 DEF WorkerStep, Fetch, CheckExists, SaveJob, RunRead, RunWrite, EndRead, EndWrite,
     RecRead, RecWrite, Commit, CommitFails, DrainExit, WriteBack, api
<1>7. ASSUME \/ \E w \in Workers : WorkerCrash(w) \/ Sigterm(w)
             \/ \E w \in Workers, p \in Partitions : Evict(w, p) \/ Assign(w, p)
             \/ \E o \in Orders, p \in Partitions : BrokerAppend(o, p)
             \/ RedisLoss \/ BrokerLoss \/ Waiting \/ UNCHANGED vars
      PROVE  UNCHANGED apiPc
  BY <1>7 DEF WorkerCrash, Sigterm, Evict, Assign, BrokerAppend, RedisLoss, BrokerLoss, Waiting,
     vars, api
<1> HIDE DEF Goal
<1>8. ASSUME Faults PROVE Goal
  BY <1>1, <1>4, <1>5, <1>7, <1>8 DEF Faults
<1>9. Goal
  BY <1>1, <1>2, <1>3, <1>6, <1>7, <1>8 DEF Next
<1> QED BY <1>9 DEF Goal

LEMMA Writes ==
  ASSUME TypeInv, [Next]_vars, NEW o \in Orders
  PROVE  \/ store'[o] = store[o]
         \/ RedisLoss /\ store'[o] = Absent
         \/ SetRecord(o) /\ store'[o] = NewRecord
         \/ MarkFailedWrite(o) /\ store'[o] = MarkedFailed(apiSnap[o])
         \/ \E x \in Orders :
              LinkWrite(x) /\ job[x].retryOf = o /\ store'[o] = Linked(apiSnap[x], x)
         \/ \E w \in Workers : SaveJob(w) /\ wJob[w] = o /\ store'[o] = NewRecord
         \/ \E w \in Workers :
              /\ RunWrite(w) /\ wJob[w] = o
              /\ store'[o] = Updated(wSnap[w], "running", FALSE, FALSE)
         \/ \E w \in Workers : EndWrite(w) /\ wJob[w] = o /\ store'[o] = Outcome(w)
         \/ \E w \in Workers :
              /\ RecWrite(w) /\ job[wJob[w]].retryOf = o
              /\ store'[o] = MarkedRecovered(wSnap[w], wJob[w])
<1> DEFINE Goal ==
         \/ store'[o] = store[o]
         \/ RedisLoss /\ store'[o] = Absent
         \/ SetRecord(o) /\ store'[o] = NewRecord
         \/ MarkFailedWrite(o) /\ store'[o] = MarkedFailed(apiSnap[o])
         \/ \E x \in Orders :
              LinkWrite(x) /\ job[x].retryOf = o /\ store'[o] = Linked(apiSnap[x], x)
         \/ \E w \in Workers : SaveJob(w) /\ wJob[w] = o /\ store'[o] = NewRecord
         \/ \E w \in Workers :
              /\ RunWrite(w) /\ wJob[w] = o
              /\ store'[o] = Updated(wSnap[w], "running", FALSE, FALSE)
         \/ \E w \in Workers : EndWrite(w) /\ wJob[w] = o /\ store'[o] = Outcome(w)
         \/ \E w \in Workers :
              /\ RecWrite(w) /\ job[wJob[w]].retryOf = o
              /\ store'[o] = MarkedRecovered(wSnap[w], wJob[w])
<1>0. store \in [Orders -> Records]
  BY DEF TypeInv, TypeOK
<1>1. ASSUME NEW x, NEW rec, store' = [store EXCEPT ![x] = rec]
      PROVE  store'[o] = IF x = o THEN rec ELSE store[o]
  BY <1>0, <1>1
<1>2. ASSUME NEW x \in Orders, ApiStep(x) PROVE Goal
  <2>1. CASE SetRecord(x)
    BY <1>1, <2>1 DEF SetRecord
  <2>2. CASE MarkFailedWrite(x)
    BY <1>1, <2>2 DEF MarkFailedWrite
  <2>3. CASE LinkWrite(x)
    <3>1. store'[o] = IF job[x].retryOf = o THEN Linked(apiSnap[x], x) ELSE store[o]
      BY <1>1, <2>3 DEF LinkWrite
    <3> QED BY <2>3, <3>1
  <2>4. CASE PushRecent(x) \/ TrimRecent(x) \/ SendOrder(x) \/ AckPublish(x)
               \/ MarkFailedRead(x) \/ LinkRead(x)
    BY <2>4 DEF PushRecent, TrimRecent, SendOrder, AckPublish, MarkFailedRead, LinkRead, redis
  <2> QED BY <1>2, <2>1, <2>2, <2>3, <2>4 DEF ApiStep
<1>3. ASSUME NEW w \in Workers, WorkerStep(w) PROVE Goal
  <2>1. CASE SaveJob(w)
    <3>1. store'[o] = IF wJob[w] = o THEN NewRecord ELSE store[o]
      BY <1>1, <2>1 DEF SaveJob
    <3> QED BY <2>1, <3>1
  <2>2. CASE RunWrite(w)
    <3>1. store'[o] = IF wJob[w] = o THEN Updated(wSnap[w], "running", FALSE, FALSE) ELSE store[o]
      BY <1>1, <2>2 DEF RunWrite, WriteBack
    <3> QED BY <2>2, <3>1
  <2>3. CASE EndWrite(w)
    <3>1. store'[o] = IF wJob[w] = o THEN Outcome(w) ELSE store[o]
      BY <1>1, <2>3 DEF EndWrite, WriteBack
    <3> QED BY <2>3, <3>1
  <2>4. CASE RecWrite(w)
    <3>1. store'[o] = IF job[wJob[w]].retryOf = o THEN MarkedRecovered(wSnap[w], wJob[w])
                                                  ELSE store[o]
      BY <1>1, <2>4 DEF RecWrite, WriteBack
    <3> QED BY <2>4, <3>1
  <2>5. CASE \/ \E p \in Partitions : Fetch(w, p)
             \/ CheckExists(w) \/ RunRead(w) \/ EndRead(w) \/ RecRead(w)
             \/ Commit(w) \/ CommitFails(w) \/ DrainExit(w)
    BY <2>5 DEF Fetch, CheckExists, RunRead, EndRead, RecRead, Commit, CommitFails, DrainExit,
       redis
  <2> QED BY <1>3, <2>1, <2>2, <2>3, <2>4, <2>5 DEF WorkerStep
<1>4. ASSUME RedisLoss PROVE Goal
  BY <1>4 DEF RedisLoss
<1>5. ASSUME \/ Client \/ BrokerLoss \/ Waiting \/ UNCHANGED vars
             \/ \E x \in Orders : SendRefused(x)
             \/ \E x \in Orders, lost \in BOOLEAN : PublishFailed(x, lost) \/ ApiCrash(x, lost)
             \/ \E w \in Workers : WorkerCrash(w) \/ Sigterm(w)
             \/ \E w \in Workers, p \in Partitions : Evict(w, p) \/ Assign(w, p)
             \/ \E x \in Orders, p \in Partitions : BrokerAppend(x, p)
      PROVE  UNCHANGED store
  BY <1>5 DEF SendRefused, PublishFailed, ApiCrash, WorkerCrash, Sigterm, Evict, Client,
     PlaceOrder, RetryOrder, BrokerAppend, BrokerLoss, Assign, Waiting, vars, redis
<1>6. ASSUME UNCHANGED store PROVE Goal
  BY <1>6
<1> HIDE DEF Goal
<1>7. ASSUME Faults PROVE Goal
  BY <1>4, <1>5, <1>6, <1>7 DEF Faults
<1>8. Goal
  BY <1>2, <1>3, <1>5, <1>6, <1>7 DEF Next
<1> QED BY <1>8 DEF Goal

(***************************************************************************)
(* Owners and retries.                                                     *)
(***************************************************************************)
LEMMA NextOwning ==
  ASSUME TypeInv, Owning, [Next]_vars
  PROVE  Owning'
<1> SUFFICES ASSUME ~Evicted', NEW w \in Workers, wPc'[w] # "idle"
             PROVE  owner'[wPart'[w]] = w
  BY DEF Owning
<1>0. /\ ~Evicted /\ ~BrokerLoss /\ \A v \in Workers, p \in Partitions : ~Evict(v, p)
      /\ \A v \in Workers : wPc[v] # "idle" => owner[wPart[v]] = v /\ wPart[v] \in Partitions
      /\ wPc \in [Workers -> WorkerPcs] /\ owner \in [Partitions -> Workers \cup {NoWorker}]
      /\ wPart \in [Workers -> Partitions \cup {NoPartition}]
  BY HappenedSteps DEF Evicted, Owning, TypeInv, TypeOK, Targets
<1>1. CASE UNCHANGED handling \/ \E o \in Orders, p \in Partitions : BrokerAppend(o, p)
  BY <1>0, <1>1 DEF handling, BrokerAppend, workers
<1>2. ASSUME NEW v \in Workers, NEW p \in Partitions, Fetch(v, p) PROVE owner'[wPart'[w]] = w
  BY <1>0, <1>2 DEF Fetch, WorkerGoto, kafka
<1>3. ASSUME NEW v \in Workers, NEW p \in Partitions, Assign(v, p) PROVE owner'[wPart'[w]] = w
  BY <1>0, <1>3, PipelineAssumption DEF Assign, workers
<1>4. ASSUME NEW v \in Workers, Commit(v) PROVE owner'[wPart'[w]] = w
  BY <1>0, <1>4 DEF Commit, WorkerGoto
<1>5. ASSUME NEW v \in Workers, Dies(v) PROVE owner'[wPart'[w]] = w
  BY <1>0, <1>5 DEF Dies, Die
<1>6. ASSUME NEW v \in Workers, NEW to \in WorkerPcs, Moves(v, to) PROVE owner'[wPart'[w]] = w
  BY <1>0, <1>6 DEF Moves
<1> QED BY <1>0, <1>1, <1>2, <1>3, <1>4, <1>5, <1>6, HandlingSteps

\* Without evictions and with its broker, a worker is the only one with its job, which is not committed.
LEMMA OnlyWorker ==
  ASSUME QueueInv, Owning, ~Evicted, NEW w \in Workers, wPc[w] # "idle"
  PROVE  /\ wJob[w] \notin CommittedOrders
         /\ \A v \in Workers : wPc[v] # "idle" /\ wJob[v] = wJob[w] => v = w
<1>0. /\ committed \in [Partitions -> Nat] /\ log \in [Partitions -> Seq(Orders)]
      /\ \A p \in Partitions : Len(log[p]) \in Nat /\ committed[p] <= Len(log[p])
  BY LenProperties DEF QueueInv, TypeInv, TypeOK, Handling
<1> DEFINE next(v) == committed[wPart[v]] + 1
<1>1. ASSUME NEW v \in Workers, wPc[v] # "idle"
      PROVE  /\ owner[wPart[v]] = v /\ wPart[v] \in Partitions
             /\ next(v) \in 1..Len(log[wPart[v]])
             /\ wJob[v] = log[wPart[v]][next(v)]
  <2>1. owner[wPart[v]] = v /\ wPart[v] \in Partitions
    BY <1>1 DEF Owning, QueueInv, TypeInv, Targets
  <2>2. committed[wPart[v]] < Len(log[wPart[v]]) /\ wJob[v] = log[wPart[v]][committed[wPart[v]] + 1]
    BY <1>1, <2>1 DEF QueueInv, Handling, Holds
  <2> QED BY <1>0, <2>1, <2>2
<1>p. PublishedOnce
  BY DEF QueueInv, Sending
<1>2. wJob[w] \notin CommittedOrders
  <2> SUFFICES ASSUME NEW q \in Partitions, NEW i \in 1..committed[q], log[q][i] = wJob[w]
               PROVE  FALSE
    BY DEF CommittedOrders
  <2>1. i \in 1..Len(log[q])
    BY <1>0
  <2>2. q = wPart[w] /\ i = next(w)
    BY <1>1, <1>p, <2>1 DEF PublishedOnce
  <2> QED BY <1>0, <1>1, <2>2
<1>3. ASSUME NEW v \in Workers, wPc[v] # "idle", wJob[v] = wJob[w] PROVE v = w
  <2>1. wPart[v] = wPart[w]
    <3> HIDE DEF next
    <3> QED BY <1>1, <1>3, <1>p DEF PublishedOnce
  <2> QED BY <1>1, <1>3, <2>1
<1> QED BY <1>2, <1>3

LEMMA NextUnretried ==
  ASSUME TypeInv, Unretried, [Next]_vars
  PROVE  Unretried'
<1> SUFFICES ASSUME NEW o \in Orders, apiPc'[o] = "unused" PROVE job'[o].retryOf = NoOrder
  BY DEF Unretried
<1>1. apiPc[o] = "unused"
  BY ApiTurns
<1>2. job'[o] = job[o]
  BY JobSteps DEF TypeInv, TypeOK
<1> QED BY <1>1, <1>2 DEF Unretried

\* A retried order stays retried, and only a failed one becomes so.
LEMMA RetriedSteps ==
  ASSUME TypeInv, Unretried, [Next]_vars, NEW o \in Orders
  PROVE  /\ Retried(o) => Retried(o)'
         /\ Retried(o)' => Retried(o) \/ (store[o].status = "failed" /\ UNCHANGED store)
<1>0. job \in [Orders -> Jobs] /\ apiPc \in [Orders -> ApiPcs]
  BY DEF TypeInv, TypeOK
<1>1. ASSUME NEW r \in Orders, job[r].retryOf = o PROVE job'[r].retryOf = o
  <2>1. apiPc[r] # "unused"
    BY <1>1, NoOrderAssumption DEF Unretried
  <2> QED BY <1>0, <1>1, <2>1, JobSteps
<1>2. ASSUME NEW r \in Orders, job'[r].retryOf = o, job[r].retryOf # o
      PROVE  store[o].status = "failed" /\ UNCHANGED store
  BY <1>2, JobSteps, RetrySteps
<1> QED BY <1>1, <1>2 DEF Retried

(***************************************************************************)
(* Over and Mid.                                                           *)
(***************************************************************************)
LEMMA OverLogged ==
  ASSUME QueueInv, NEW o \in Orders, Over(o) \/ Mid(o)
  PROVE  Logged(o)
<1>1. ASSUME o \in CommittedOrders PROVE Logged(o)
  <2>1. PICK p \in Partitions : \E i \in 1..committed[p] : log[p][i] = o
    BY <1>1 DEF CommittedOrders
  <2>2. PICK i \in 1..committed[p] : log[p][i] = o
    BY <2>1
  <2>3. committed[p] \in Nat /\ Len(log[p]) \in Nat /\ committed[p] <= Len(log[p])
    BY LenProperties DEF QueueInv, TypeInv, TypeOK, Handling
  <2>4. i \in 1..Len(log[p])
    BY <2>3
  <2> QED BY <2>2, <2>4 DEF InLog, Logged
<1>2. \A w \in Workers : wPc[w] \in MidPcs \cup EndPcs => Logged(wJob[w])
  BY DEF QueueInv, Handling, MidPcs, EndPcs
<1> QED BY <1>1, <1>2 DEF Over, Mid

\* In the same way no other worker has the job of a worker, and nobody is over it.
LEMMA NotOver ==
  ASSUME QueueInv, Owning, ~Evicted, NEW w \in Workers,
         wPc[w] # "idle", wPc[w] \notin EndPcs
  PROVE  ~Over(wJob[w])
BY OnlyWorker DEF Over, EndPcs

\* Only a stored outcome ends an order, and only evictions and crashes undo that.
LEMMA OverSteps ==
  ASSUME QueueInv, Owning, [Next]_vars, NEW o \in Orders
  PROVE  /\ Over(o)' => Over(o) \/ \E w \in Workers : EndWrite(w) /\ wJob[w] = o
         /\ ~Evicted' /\ ~Happened("workerCrash")' /\ Over(o) => Over(o)'
<1>0. TypeInv /\ \A w \in Workers : Commit(w) => wPc[w] = "commit"
  BY DEF QueueInv, Commit, WorkerGoto
<1>1. ASSUME Over(o)' PROVE Over(o) \/ \E w \in Workers : EndWrite(w) /\ wJob[w] = o
  <2>1. CASE o \in CommittedOrders'
    <3>1. o \in CommittedOrders \/ \E w \in Workers : Commit(w) /\ wJob[w] = o
      BY <2>1, CommittedSteps
    <3> QED BY <1>0, <3>1 DEF Over, EndPcs
  <2>2. ASSUME NEW w \in Workers, wJob'[w] = o, wPc'[w] \in EndPcs
        PROVE  Over(o) \/ (EndWrite(w) /\ wJob[w] = o)
    <3>1. wPc[w] \in EndPcs \/ EndWrite(w)
      BY <1>0, <2>2, WorkerMoves
    <3>2. wPc[w] # "idle"
      BY <3>1 DEF EndPcs, EndWrite, WriteBack, WorkerGoto
    <3>3. wJob[w] = o
      BY <1>0, <2>2, <3>2, WorkerMoves DEF EndPcs, Fetch, WorkerGoto
    <3> QED BY <3>1, <3>3 DEF Over
  <2> QED BY <1>1, <2>1, <2>2 DEF Over
<1>2. ASSUME ~Evicted', ~Happened("workerCrash")', Over(o) PROVE Over(o)'
  <2>0. ~Evicted /\ ~BrokerLoss /\ \A w \in Workers : ~WorkerCrash(w)
    BY <1>0, <1>2, HappenedSteps DEF Evicted
  <2>1. CASE o \in CommittedOrders
    BY <2>0, <2>1, CommittedSteps DEF Over
  <2>2. ASSUME NEW w \in Workers, wJob[w] = o, wPc[w] \in EndPcs PROVE Over(o)'
    <3>1. owner[wPart[w]] = w
      BY <2>0, <2>2 DEF Owning, EndPcs
    <3>2. wPc'[w] \in EndPcs \/ Commit(w)
      BY <1>0, <2>0, <2>2, <3>1, WorkerMoves DEF CommitFails
    <3>3. CASE Commit(w)
      BY <2>2, <3>3, CommittedSteps DEF Over
    <3>4. CASE wPc'[w] \in EndPcs
      <4>1. wJob'[w] = o
        BY <1>0, <2>2, <3>4, WorkerMoves DEF EndPcs, Fetch, WorkerGoto
      <4> QED BY <3>4, <4>1 DEF Over
    <3> QED BY <3>2, <3>3, <3>4
  <2> QED BY <1>2, <2>1, <2>2 DEF Over
<1> QED BY <1>1, <1>2

LEMMA MidSteps ==
  ASSUME TypeInv, [Next]_vars, NEW o \in Orders
  PROVE  /\ Mid(o)' => Mid(o) \/ \E w \in Workers : RunWrite(w) /\ wJob[w] = o
         /\ \A w \in Workers : RunWrite(w) /\ wJob[w] = o => Mid(o)'
         /\ \A w \in Workers : EndWrite(w) /\ wJob[w] = o => Over(o)'
         /\ Mid(o) =>
              \/ Mid(o)' \/ ~Exists(store[o])
              \/ \E w \in Workers : /\ EndWrite(w) \/ WorkerCrash(w)
                                    /\ wJob[w] = o /\ wPc[w] \in MidPcs
<1>0. wPc \in [Workers -> WorkerPcs]
  BY DEF TypeInv, TypeOK
<1>1. ASSUME NEW w \in Workers, wJob'[w] = o, wPc'[w] \in MidPcs
      PROVE  Mid(o) \/ (RunWrite(w) /\ wJob[w] = o)
  <2>1. wPc[w] \in MidPcs \/ RunWrite(w)
    BY <1>1, WorkerMoves
  <2>2. wPc[w] # "idle"
    BY <2>1 DEF MidPcs, RunWrite, WriteBack, WorkerGoto
  <2>3. wJob[w] = o
    BY <1>1, <2>2, WorkerMoves DEF MidPcs, Fetch, WorkerGoto
  <2> QED BY <2>1, <2>3 DEF Mid
<1>2. ASSUME NEW w \in Workers, RunWrite(w), wJob[w] = o PROVE Mid(o)'
  <2>1. wPc'[w] = "endRead" /\ wJob'[w] = o
    BY <1>0, <1>2 DEF RunWrite, WriteBack, WorkerGoto
  <2> QED BY <2>1 DEF Mid, MidPcs
<1>3. ASSUME NEW w \in Workers, EndWrite(w), wJob[w] = o PROVE Over(o)'
  <2>1. wPc'[w] \in {"recRead", "commit"} /\ wJob'[w] = o
    BY <1>0, <1>3 DEF EndWrite, WriteBack, WorkerGoto
  <2> QED BY <2>1 DEF Over, EndPcs
<1>4. ASSUME NEW w \in Workers, wJob[w] = o, wPc[w] \in MidPcs
      PROVE  Mid(o)' \/ EndWrite(w) \/ WorkerCrash(w) \/ ~Exists(store[o])
  <2>1. wPc'[w] \in MidPcs => wJob'[w] = o
    BY <1>4, WorkerMoves DEF MidPcs, Fetch, WorkerGoto
  <2> QED BY <1>4, <2>1, WorkerMoves DEF Mid
<1> QED BY <1>1, <1>2, <1>3, <1>4 DEF Mid

(***************************************************************************)
(* What a write shows.                                                     *)
(***************************************************************************)
LEMMA RecordFields ==
  /\ Absent.status = "absent" /\ Absent.recoveryStatus = "none"
  /\ NewRecord.status = "queued" /\ NewRecord.recoveryStatus = "none"
  /\ \A rec \in Records :
       /\ MarkedFailed(rec).status = "failed"
       /\ \A st \in Statuses : \A res, err \in BOOLEAN :
            /\ Updated(rec, st, res, err).status = st
            /\ Updated(rec, st, res, err).recoveryStatus = rec.recoveryStatus
       /\ \A j \in Orders :
            /\ Linked(rec, j).status = rec.status
            /\ Linked(rec, j).recoveryJob = j
            /\ Linked(rec, j).recoveryStatus = "resubmitted"
       /\ \A j \in Orders :
            /\ MarkedRecovered(rec, j).status = "recovered"
            /\ MarkedRecovered(rec, j).recoveryJob = j
BY DEF Records, Absent, NewRecord, MarkedFailed, Updated, Linked, MarkedRecovered

LEMMA OutcomeFields ==
  ASSUME NEW w \in Workers, wSnap[w] \in Records
  PROVE  /\ Outcome(w).status \in {"completed", "failed"}
         /\ Outcome(w).recoveryStatus = wSnap[w].recoveryStatus
<1>1. {"completed", "failed"} \subseteq Statuses
  BY DEF Statuses
<1>2. LET rec == Updated(wSnap[w], "failed", FALSE, TRUE) IN
      rec.status = "failed" /\ rec.recoveryStatus = wSnap[w].recoveryStatus
  BY ONLY <1>1, wSnap[w] \in Records, RecordFields
<1>3. LET rec == Updated(wSnap[w], "completed", TRUE, FALSE) IN
      rec.status = "completed" /\ rec.recoveryStatus = wSnap[w].recoveryStatus
  BY ONLY <1>1, wSnap[w] \in Records, RecordFields
<1> QED BY <1>2, <1>3 DEF Outcome

LEMMA WritesShow ==
  ASSUME TypeInv, [Next]_vars, NEW o \in Orders
  PROVE  LET rec == store'[o] IN
         \/ rec = store[o]
         \/ RedisLoss /\ rec = Absent
         \/ SetRecord(o) /\ rec = NewRecord
         \/ MarkFailedWrite(o) /\ rec.status = "failed"
         \/ \E x \in Orders :
              /\ LinkWrite(x) /\ apiPc[x] = "linkWrite" /\ job[x].retryOf = o
              /\ rec.status = apiSnap[x].status
              /\ rec.recoveryJob = x /\ rec.recoveryStatus = "resubmitted"
         \/ \E w \in Workers : SaveJob(w) /\ wPc[w] = "save" /\ rec = NewRecord
         \/ \E w \in Workers :
              /\ RunWrite(w) /\ wPc[w] = "runWrite" /\ wJob[w] = o
              /\ rec.status = "running" /\ rec.recoveryStatus = wSnap[w].recoveryStatus
         \/ \E w \in Workers :
              /\ EndWrite(w) /\ wPc[w] = "endWrite" /\ wJob[w] = o
              /\ rec.status \in {"completed", "failed"}
              /\ rec.recoveryStatus = wSnap[w].recoveryStatus
         \/ \E w \in Workers :
              /\ RecWrite(w) /\ wJob[w] \in Orders /\ job[wJob[w]].retryOf = o
              /\ rec.status = "recovered" /\ rec.recoveryJob = wJob[w]
<1>0. /\ apiSnap \in [Orders -> Records] /\ wSnap \in [Workers -> Records]
      /\ \A w \in Workers : wPc[w] # "idle" => wJob[w] \in Orders
  BY DEF TypeInv, TypeOK, Targets
<1>1. MarkFailedWrite(o) => MarkedFailed(apiSnap[o]).status = "failed"
  BY <1>0, RecordFields
<1>2. ASSUME NEW x \in Orders, LinkWrite(x)
      PROVE  /\ apiPc[x] = "linkWrite"
             /\ Linked(apiSnap[x], x).status = apiSnap[x].status
             /\ Linked(apiSnap[x], x).recoveryJob = x
             /\ Linked(apiSnap[x], x).recoveryStatus = "resubmitted"
  BY <1>0, <1>2, RecordFields DEF LinkWrite, ApiGoto
<1>3. ASSUME NEW w \in Workers, RunWrite(w)
      PROVE  LET rec == Updated(wSnap[w], "running", FALSE, FALSE) IN
             /\ wPc[w] = "runWrite" /\ rec.status = "running"
             /\ rec.recoveryStatus = wSnap[w].recoveryStatus
  <2>1. wPc[w] = "runWrite" /\ wSnap[w] \in Records /\ "running" \in Statuses
    BY <1>0, <1>3 DEF RunWrite, WriteBack, WorkerGoto, Statuses
  <2> QED BY ONLY <2>1, RecordFields
<1>4. ASSUME NEW w \in Workers, EndWrite(w)
      PROVE  /\ wPc[w] = "endWrite" /\ Outcome(w).status \in {"completed", "failed"}
             /\ Outcome(w).recoveryStatus = wSnap[w].recoveryStatus
  <2>1. wPc[w] = "endWrite"
    BY <1>4 DEF EndWrite, WriteBack, WorkerGoto
  <2> QED BY <1>0, <2>1, OutcomeFields
<1>5. ASSUME NEW w \in Workers, RecWrite(w)
      PROVE  /\ wJob[w] \in Orders
             /\ MarkedRecovered(wSnap[w], wJob[w]).status = "recovered"
             /\ MarkedRecovered(wSnap[w], wJob[w]).recoveryJob = wJob[w]
  <2>1. wJob[w] \in Orders /\ wSnap[w] \in Records
    BY <1>0, <1>5 DEF RecWrite, WriteBack, WorkerGoto
  <2> QED BY ONLY <2>1, RecordFields
<1>6. \A w \in Workers : SaveJob(w) => wPc[w] = "save"
  BY DEF SaveJob, WorkerGoto
<1>7. CASE \E x \in Orders :
             LinkWrite(x) /\ job[x].retryOf = o /\ store'[o] = Linked(apiSnap[x], x)
  BY <1>2, <1>7
<1>8. CASE \E w \in Workers :
             /\ RunWrite(w) /\ wJob[w] = o
             /\ store'[o] = Updated(wSnap[w], "running", FALSE, FALSE)
  BY <1>3, <1>8
<1>9. CASE \E w \in Workers : EndWrite(w) /\ wJob[w] = o /\ store'[o] = Outcome(w)
  BY <1>4, <1>9
<1>10. CASE \E w \in Workers :
              /\ RecWrite(w) /\ job[wJob[w]].retryOf = o
              /\ store'[o] = MarkedRecovered(wSnap[w], wJob[w])
  BY <1>5, <1>10
<1>11. CASE \/ store'[o] = store[o]
            \/ RedisLoss /\ store'[o] = Absent
            \/ SetRecord(o) /\ store'[o] = NewRecord
            \/ MarkFailedWrite(o) /\ store'[o] = MarkedFailed(apiSnap[o])
            \/ \E w \in Workers : SaveJob(w) /\ wJob[w] = o /\ store'[o] = NewRecord
  BY <1>1, <1>6, <1>11
<1> QED BY <1>7, <1>8, <1>9, <1>10, <1>11, Writes

\* Before a late or second delivery none has happened, and so for a loss of Redis.
LEMMA FaultFree ==
  ASSUME TypeInv, [Next]_vars
  PROVE  /\ ~Redelivery' => /\ ~Redelivery /\ ~Happened("publish")
                            /\ ~Evicted' /\ ~Evicted
                            /\ ~Happened("workerCrash")'
                            /\ \A w \in Workers : ~WorkerCrash(w)
         /\ Quiet' => Quiet /\ Kept' /\ Kept /\ ~Redelivery' /\ ~RedisLoss
BY HappenedSteps, KeptSteps DEF Redelivery, Evicted, Quiet, Kept

LEMMA SettleFacts ==
  ASSUME SettleInv, [Next]_vars
  PROVE  /\ TypeInv /\ QueueInv /\ Sending /\ Handling /\ RecordInv /\ ListInv
         /\ Kept => Stored
         /\ Kept' => Kept /\ Stored /\ ~RedisLoss
BY KeptSteps DEF SettleInv, RecordInv, QueueInv, ListInv

\* Without late or second deliveries, an order that is over is written by retries only.
LEMMA OverWrites ==
  ASSUME SettleInv, [Next]_vars, ~Redelivery', NEW o \in Orders, Over(o)
  PROVE  /\ \A w \in Workers : wJob[w] = o => ~RunWrite(w) /\ ~EndWrite(w)
         /\ ~MarkFailedWrite(o)
         /\ ~SetRecord(o)
<1>0. TypeInv /\ QueueInv /\ Owning /\ NoneRejected /\ ~Evicted /\ ~Happened("publish")
  BY SettleFacts, FaultFree DEF SettleInv
<1>1. ASSUME NEW w \in Workers, wJob[w] = o, RunWrite(w) \/ EndWrite(w) PROVE FALSE
  <2>1. wPc[w] \in {"runWrite", "endWrite"}
    BY <1>1 DEF RunWrite, EndWrite, WriteBack, WorkerGoto
  <2> QED BY <1>0, <1>1, <2>1, NotOver DEF EndPcs
<1>2. ~MarkFailedWrite(o)
  BY <1>0 DEF NoneRejected, MarkFailedWrite, ApiGoto
<1>3. ~SetRecord(o)
  <2>1. Logged(o)
    BY <1>0, OverLogged
  <2> QED BY <1>0, <2>1 DEF QueueInv, Sending, Unsent, SetRecord, ApiGoto
<1> QED BY <1>1, <1>2, <1>3

(***************************************************************************)
(* Every part of the invariant is kept.                                    *)
(***************************************************************************)
LEMMA NextNoneRejected ==
  ASSUME SettleInv, [Next]_vars
  PROVE  NoneRejected'
<1>1. TypeInv /\ NoneRejected /\ (Happened("publish") => Happened("publish")')
  BY SettleFacts, HappenedSteps DEF SettleInv
<1> QED BY <1>1, ApiTurns DEF NoneRejected

LEMMA NextNoneLost ==
  ASSUME SettleInv, [Next]_vars
  PROVE  NoneLost'
<1>1. TypeInv /\ NoneLost
  BY SettleFacts DEF SettleInv
<1> QED BY <1>1, LostSteps, HappenedSteps DEF NoneLost

LEMMA NextRejectedFinal ==
  ASSUME SettleInv, [Next]_vars
  PROVE  RejectedFinal'
<1> SUFFICES ASSUME Kept', ~(Evicted' /\ Happened("workerCrash")'), NEW o \in Orders,
                    apiPc'[o] = "rejected", ~Retried(o)',
                    ~Happened("workerCrash")' \/ ~InLog(o)'
             PROVE  store'[o].status \in Final \/ Mid(o)'
  BY DEF RejectedFinal
<1>0. /\ TypeInv /\ QueueInv /\ Handling /\ Kept /\ Stored /\ ~RedisLoss
      /\ Unretried /\ RejectedFinal /\ ~Retried(o)
      /\ ~(Evicted /\ Happened("workerCrash"))
  BY SettleFacts, RetriedSteps, HappenedSteps DEF SettleInv, Evicted
<1>1. apiPc[o] = "rejected" \/ MarkFailedWrite(o)
  BY <1>0, ApiTurns DEF Stored
<1>2. ~SetRecord(o)
  BY <1>1 DEF SetRecord, MarkFailedWrite, ApiGoto
<1>3. \/ store'[o] = store[o]
      \/ store'[o].status \in {"completed", "failed"}
      \/ \E w \in Workers : RunWrite(w) /\ wPc[w] = "runWrite" /\ wJob[w] = o
  BY <1>0, <1>2, WritesShow DEF Stored, Retried
<1>4. CASE MarkFailedWrite(o)
  <2>1. store'[o] = MarkedFailed(apiSnap[o])
    BY <1>0, <1>4 DEF MarkFailedWrite, TypeInv, TypeOK
  <2> QED BY <1>0, <2>1, RecordFields DEF Final, TypeInv, TypeOK
<1>5. CASE apiPc[o] = "rejected" /\ ~Happened("workerCrash")'
  <2>1. ~Happened("workerCrash") /\ \A w \in Workers : ~WorkerCrash(w)
    BY <1>0, <1>5, HappenedSteps
  <2>2. store[o].status \in Final \/ Mid(o)
    BY <1>0, <1>5, <2>1 DEF RejectedFinal
  <2>3. Exists(store[o])
    BY <1>0, <1>5 DEF Stored
  <2>4. Mid(o) => Mid(o)' \/ \E w \in Workers : EndWrite(w) /\ wJob[w] = o
    BY <1>0, <2>1, <2>3, MidSteps
  <2>5. ASSUME NEW w \in Workers, EndWrite(w), wJob[w] = o PROVE store'[o].status \in Final
    <3>1. store'[o] = Outcome(w)
      BY <1>0, <2>5 DEF EndWrite, WriteBack, TypeInv, TypeOK
    <3> QED BY <1>0, <3>1, OutcomeFields DEF Final, TypeInv, TypeOK
  <2> QED BY <1>0, <1>3, <2>2, <2>4, <2>5, MidSteps DEF Final
<1>6. CASE apiPc[o] = "rejected" /\ Happened("workerCrash")'
  <2>1. ~Evicted /\ budget'.lost = {} /\ ~InLog(o)'
    BY <1>6, <1>0, NextNoneLost, HappenedSteps DEF NoneLost, Evicted
  <2>2. ~Logged(o)
    BY <1>0, <2>1, LoggedStays DEF Logged
  <2>3. \A w \in Workers : wPc[w] # "idle" => wJob[w] # o
    BY <1>0, <2>2 DEF Handling
  <2>4. ~Mid(o)
    BY <2>3 DEF Mid, MidPcs
  <2>5. store[o].status \in Final
    BY <1>0, <1>6, <2>1, <2>2, <2>4 DEF RejectedFinal, Logged
  <2> QED BY <1>3, <2>3, <2>5 DEF Final
<1> QED BY <1>1, <1>4, <1>5, <1>6

LEMMA NextOverFinal ==
  ASSUME SettleInv, [Next]_vars
  PROVE  OverFinal'
<1> SUFFICES ASSUME Kept', ~(Evicted' /\ Happened("workerCrash")'),
                    NEW o \in Orders, Over(o)', ~Retried(o)'
             PROVE  store'[o].status \in Final \/ Mid(o)'
  BY DEF OverFinal
<1>0. /\ TypeInv /\ QueueInv /\ Kept /\ Stored /\ ~RedisLoss
      /\ Owning /\ Unretried /\ OverFinal
      /\ ~(Evicted /\ Happened("workerCrash"))
      /\ \A w \in Workers : WorkerCrash(w) => ~Evicted
  BY SettleFacts, HappenedSteps DEF SettleInv, Evicted
<1>1. ~Retried(o)
  BY <1>0, RetriedSteps
<1>w. \/ store'[o] = store[o] \/ SetRecord(o) \/ store'[o].status = "failed"
      \/ \E w \in Workers : RunWrite(w) /\ wJob[w] = o
      \/ store'[o].status = "completed"
  BY <1>0, <1>1, WritesShow DEF Stored, Retried
<1>e. ASSUME NEW w \in Workers, EndWrite(w), wJob[w] = o PROVE store'[o].status \in Final
  <2>1. store'[o] = Outcome(w)
    BY <1>0, <1>e DEF EndWrite, WriteBack, TypeInv, TypeOK
  <2> QED BY <1>0, <2>1, OutcomeFields DEF Final, TypeInv, TypeOK
<1>2. CASE ~Over(o)
  BY <1>0, <1>2, <1>e, OverSteps
<1>3. CASE Over(o) /\ Mid(o)
  <2>1. Exists(store[o])
    BY <1>0, <1>3, OverLogged DEF Stored
  <2>2. ASSUME NEW w \in Workers, WorkerCrash(w), wJob[w] = o, wPc[w] \in MidPcs PROVE FALSE
    <3>1. wPc[w] # "idle" /\ wPc[w] \notin EndPcs
      BY <2>2 DEF MidPcs, EndPcs
    <3> QED BY <1>0, <1>3, <2>2, <3>1, NotOver
  <2> QED BY <1>0, <1>3, <1>e, <2>1, <2>2, MidSteps
<1>4. CASE Over(o) /\ ~Mid(o)
  <2>1. store[o].status \in Final
    BY <1>0, <1>1, <1>4 DEF OverFinal
  <2>2. ~SetRecord(o)
    <3>1. Logged(o)
      BY <1>0, <1>4, OverLogged
    <3> QED BY <1>0, <3>1 DEF QueueInv, Sending, Unsent, SetRecord, ApiGoto
  <2> QED BY <1>0, <1>w, <2>1, <2>2, MidSteps DEF Final
<1> QED BY <1>2, <1>3, <1>4

LEMMA NextFinalOver ==
  ASSUME SettleInv, [Next]_vars
  PROVE  FinalOver'
<1> SUFFICES ASSUME ~Redelivery', NEW o \in Orders, store'[o].status \in Final \/ Retried(o)'
             PROVE  Over(o)'
  BY DEF FinalOver
<1>0. /\ TypeInv /\ QueueInv /\ Owning /\ Unretried /\ NoneRejected /\ FinalOver
      /\ ~Redelivery /\ ~Happened("publish")
      /\ ~Evicted' /\ ~Happened("workerCrash")'
  BY SettleFacts, FaultFree DEF SettleInv
<1>1. CASE store[o].status \in Final \/ Retried(o)
  BY <1>0, <1>1, OverSteps DEF FinalOver
<1>2. CASE store[o].status \notin Final /\ ~Retried(o)
  <2>1. store'[o].status \in Final
    BY <1>0, <1>2, RetriedSteps DEF Final
  <2>2. ~MarkFailedWrite(o)
    BY <1>0 DEF NoneRejected, MarkFailedWrite, ApiGoto
  <2>3. \E w \in Workers : EndWrite(w) /\ wJob[w] = o
    BY <1>0, <1>2, <2>1, <2>2, RecordFields, WritesShow DEF Final, Retried
  <2> QED BY <1>0, <2>3, MidSteps
<1> QED BY <1>1, <1>2

\* What is written to a retried order before any late or second delivery.
LEMMA RetriedWrites ==
  ASSUME SettleInv, [Next]_vars, Quiet', NEW o \in Orders, Retried(o)
  PROVE  \/ store'[o] = store[o]
         \/ \E x \in Orders :
              /\ apiPc[x] = "linkWrite" /\ store'[o].status = apiSnap[x].status
              /\ store'[o].recoveryJob \in Orders
         \/ store'[o].status = "recovered" /\ store'[o].recoveryJob \in Orders
<1>1. /\ TypeInv /\ Stored /\ ~Redelivery' /\ ~Redelivery /\ ~RedisLoss /\ FinalOver
  BY SettleFacts, FaultFree DEF SettleInv
<1>2. Over(o)
  BY <1>1 DEF FinalOver
<1>3. /\ \A w \in Workers : wJob[w] = o => ~RunWrite(w) /\ ~EndWrite(w)
      /\ ~MarkFailedWrite(o) /\ ~SetRecord(o)
  BY <1>1, <1>2, OverWrites
<1> QED BY <1>1, <1>3, WritesShow DEF Stored

LEMMA NextRetriedFailed ==
  ASSUME SettleInv, [Next]_vars
  PROVE  RetriedFailed'
<1> SUFFICES ASSUME Quiet' PROVE RetriedFailed'
  BY DEF RetriedFailed
<1>0. TypeInv /\ Unretried /\ RetriedFailed /\ Quiet
  BY SettleFacts, FaultFree DEF SettleInv
<1>1. ASSUME NEW o \in Orders, Retried(o)' PROVE store'[o].status \in {"failed", "recovered"}
  <2>1. CASE Retried(o)
    BY <1>0, <2>1, RetriedWrites DEF RetriedFailed
  <2>2. CASE ~Retried(o)
    BY <1>0, <1>1, <2>2, RetriedSteps
  <2> QED BY <2>1, <2>2
<1>2. ASSUME NEW x \in Orders, apiPc'[x] = "linkWrite"
      PROVE  apiSnap'[x].status \in {"failed", "recovered"}
  <2>1. CASE apiPc[x] = "linkRead" /\ apiSnap'[x] = store[job[x].retryOf]
    <3>1. job[x].retryOf \in Orders /\ Retried(job[x].retryOf)
      BY <1>0, <2>1 DEF TypeInv, TypeOK, Targets, Jobs, Retried
    <3> QED BY <1>0, <2>1, <3>1 DEF RetriedFailed
  <2>2. CASE apiPc[x] = "linkWrite" /\ apiSnap'[x] = apiSnap[x]
    BY <1>0, <2>2 DEF RetriedFailed
  <2> QED BY <1>0, <1>2, <2>1, <2>2, CopySteps
<1> QED BY <1>1, <1>2 DEF RetriedFailed

LEMMA NextRetriedLinked ==
  ASSUME SettleInv, [Next]_vars
  PROVE  RetriedLinked'
<1> SUFFICES ASSUME Quiet', NEW r \in Orders, apiPc'[r] = "accepted", job'[r].retryOf # NoOrder
             PROVE  store'[job'[r].retryOf].recoveryJob # NoOrder
  BY DEF RetriedLinked
<1>0. /\ TypeInv /\ QueueInv /\ Sending /\ Stored /\ RetriedLinked /\ Quiet
      /\ job \in [Orders -> Jobs] /\ store \in [Orders -> Records] /\ NoOrder \notin Orders
  BY SettleFacts, FaultFree, NoOrderAssumption DEF SettleInv, TypeInv, TypeOK
<1>1. CASE apiPc[r] = "accepted"
  <2>1. job'[r] = job[r]
    BY <1>0, <1>1, JobStays DEF Sending, Acked
  <2>2. job[r].retryOf \in Orders /\ Retried(job[r].retryOf)
    BY <1>0, <2>1 DEF Jobs, Retried
  <2>3. store[job[r].retryOf].recoveryJob # NoOrder
    BY <1>0, <1>1, <2>1 DEF RetriedLinked
  <2> QED BY <1>0, <2>1, <2>2, <2>3, RetriedWrites
<1>2. CASE LinkWrite(r)
  <2>1. job'[r] = job[r] /\ job[r].retryOf \in Orders
    BY <1>0, <1>2 DEF LinkWrite, ApiGoto, TypeInv, Targets, Jobs
  <2>2. store'[job[r].retryOf] = Linked(apiSnap[r], r) /\ apiSnap[r] \in Records
    BY <1>0, <1>2, <2>1 DEF LinkWrite, TypeInv, TypeOK
  <2> QED BY <1>0, <2>1, <2>2, RecordFields
<1>3. ~(apiPc[r] = "linkRead" /\ ~Exists(store[job[r].retryOf]))
  BY <1>0 DEF Stored, TypeInv, Targets
<1> QED BY <1>0, <1>1, <1>2, <1>3, ApiTurns

LEMMA NextCompletedRecovered ==
  ASSUME SettleInv, [Next]_vars
  PROVE  CompletedRecovered'
<1> SUFFICES ASSUME ~Redelivery', NEW o \in Orders, store'[o].recoveryStatus = "completed"
             PROVE  store'[o].status = "recovered"
  BY DEF CompletedRecovered
<1>0. /\ TypeInv /\ QueueInv /\ Owning /\ NoneRejected /\ FinalOver /\ CompletedRecovered
      /\ Truth /\ wSnap \in [Workers -> Records]
      /\ ~Redelivery /\ ~Happened("publish") /\ ~Evicted
  BY SettleFacts, FaultFree DEF SettleInv, RecordInv, TypeInv, TypeOK
<1>1. ~MarkFailedWrite(o)
  BY <1>0 DEF NoneRejected, MarkFailedWrite, ApiGoto
<1>2. ASSUME NEW w \in Workers, wPc[w] \in {"runWrite", "endWrite"}, wJob[w] = o
      PROVE  wSnap[w].recoveryStatus # "completed"
  <2> SUFFICES ASSUME wSnap[w].recoveryStatus = "completed" PROVE FALSE
    OBVIOUS
  <2>1. LinkTrue(o, wSnap[w])
    BY <1>0, <1>2 DEF Truth, WorkerCopyTrue, True
  <2>2. wSnap[w].recoveryJob \in Orders /\ job[wSnap[w].recoveryJob].retryOf = o
    BY <1>0, <2>1 DEF LinkTrue, Records
  <2>3. Over(wJob[w])
    BY <1>0, <1>2, <2>2 DEF FinalOver, Retried
  <2>4. wPc[w] # "idle" /\ wPc[w] \notin EndPcs
    BY <1>2 DEF EndPcs
  <2> QED BY <1>0, <2>3, <2>4, NotOver
<1> QED BY <1>0, <1>1, <1>2, WritesShow, RecordFields DEF CompletedRecovered

LEMMA NextUnfinishedShown ==
  ASSUME SettleInv, [Next]_vars
  PROVE  UnfinishedShown'
<1> SUFFICES ASSUME Quiet', NEW o \in Orders, Exists(store[o])', ~Over(o)'
             PROVE  store'[o].status = IF Mid(o)' THEN "running" ELSE "queued"
  BY DEF UnfinishedShown
<1>0. /\ TypeInv /\ QueueInv /\ QueueInv' /\ Stored /\ ~RedisLoss /\ Quiet
      /\ Owning /\ NoneRejected /\ FinalOver /\ UnfinishedShown
      /\ ~Redelivery /\ ~Redelivery' /\ ~Happened("publish")
      /\ ~Evicted' /\ ~Happened("workerCrash")'
      /\ \A w \in Workers : ~WorkerCrash(w)
  BY SettleFacts, FaultFree, NextQueueInv DEF SettleInv
<1>1. ~Over(o) /\ ~Retried(o)
  BY <1>0, OverSteps DEF FinalOver
<1>2. /\ ~MarkFailedWrite(o)
      /\ \A w \in Workers : wJob[w] = o => ~EndWrite(w)
  BY <1>0, MidSteps DEF NoneRejected, MarkFailedWrite, ApiGoto
<1>3. \/ store'[o] = store[o]
      \/ SetRecord(o) /\ store'[o].status = "queued"
      \/ \E w \in Workers : RunWrite(w) /\ wJob[w] = o /\ store'[o].status = "running"
  BY <1>0, <1>1, <1>2, WritesShow, RecordFields DEF Stored, Retried
<1>4. CASE \E w \in Workers : RunWrite(w) /\ wJob[w] = o
  <2>1. PICK w \in Workers : RunWrite(w) /\ wJob[w] = o
    BY <1>4
  <2>2. store'[o] = Updated(wSnap[w], "running", FALSE, FALSE) /\ wSnap[w] \in Records
    BY <1>0, <2>1 DEF RunWrite, WriteBack, TypeInv, TypeOK
  <2>3. store'[o].status = "running"
    BY <2>2 DEF Updated, Records
  <2> QED BY <1>0, <2>1, <2>3, MidSteps
<1>5. CASE SetRecord(o)
  <2>1. apiPc'[o] = "push" /\ store'[o] = NewRecord
    BY <1>0, <1>5 DEF SetRecord, ApiGoto, TypeInv, TypeOK
  <2>2. ~Logged(o)'
    BY <1>0, <2>1 DEF QueueInv, Sending, Unsent
  <2>3. ~Mid(o)'
    BY <1>0, <2>2 DEF Mid, MidPcs, QueueInv, Handling
  <2> QED BY <2>1, <2>3, RecordFields
<1>6. CASE store'[o] = store[o] /\ \A w \in Workers : wJob[w] = o => ~RunWrite(w)
  <2>1. Exists(store[o])
    BY <1>6 DEF Exists
  <2>2. Mid(o)' <=> Mid(o)
    BY <1>0, <1>2, <1>6, <2>1, MidSteps
  <2> QED BY <1>0, <1>1, <1>6, <2>1, <2>2 DEF UnfinishedShown
<1> QED BY <1>3, <1>4, <1>5, <1>6

LEMMA InitSettleInv == Init => SettleInv
<1> SUFFICES ASSUME Init PROVE SettleInv
  OBVIOUS
<1>1. RecordInv /\ ListInv
  BY InitRecordInv, InitListInv
<1>2. /\ \A o \in Orders : /\ ~Retried(o) /\ apiPc[o] = "unused" /\ ~Exists(store[o])
                           /\ store[o].status \notin Final
                           /\ store[o].recoveryStatus # "completed"
      /\ \A w \in Workers : wPc[w] = "idle"
      /\ CommittedOrders = {} /\ budget.lost = {}
      /\ \A o \in Orders : job[o].retryOf = NoOrder
  BY NoOrderAssumption DEF Init, Absent, NoJob, Exists, Final, Retried, CommittedOrders
<1> QED BY <1>1, <1>2 DEF SettleInv, Owning, Unretried, NoneLost, NoneRejected, RejectedFinal, OverFinal,
           FinalOver, RetriedFailed, RetriedLinked, CompletedRecovered, UnfinishedShown,
           Over, EndPcs

LEMMA NextSettleInv == SettleInv /\ [Next]_vars => SettleInv'
<1> SUFFICES ASSUME SettleInv, [Next]_vars PROVE SettleInv'
  OBVIOUS
<1>1. RecordInv' /\ ListInv'
  BY NextRecordInv, NextListInv DEF SettleInv
<1>2. Owning' /\ Unretried'
  BY SettleFacts, NextOwning, NextUnretried DEF SettleInv
<1>3. NoneLost' /\ NoneRejected' /\ RejectedFinal' /\ OverFinal' /\ FinalOver'
  BY NextNoneLost, NextNoneRejected, NextRejectedFinal, NextOverFinal, NextFinalOver
<1>4. RetriedFailed' /\ RetriedLinked' /\ CompletedRecovered' /\ UnfinishedShown'
  BY NextRetriedFailed, NextRetriedLinked, NextCompletedRecovered, NextUnfinishedShown
<1> QED BY <1>1, <1>2, <1>3, <1>4 DEF SettleInv

LEMMA SettleInvariance == Spec => []SettleInv
BY InitSettleInv, NextSettleInv, PTL DEF Spec

LEMMA SettledHolds == SettleInv => Settled
<1> SUFFICES ASSUME SettleInv, Kept, ~(Evicted /\ Happened("workerCrash")),
                    NEW o \in Orders,
                    o \in CommittedOrders \/ (apiPc[o] = "rejected" /\ ~InLog(o)),
                    \A w \in Workers : wPc[w] # "idle" => wJob[w] # o,
                    ~(Retried(o) /\ Redelivery)
             PROVE  store[o].status \in Final
  BY DEF Settled, Kept
<1>0. QueueInv /\ FinalOver /\ RetriedFailed /\ OverFinal /\ RejectedFinal
  BY DEF SettleInv, RecordInv
<1>1. CASE Retried(o)
  BY <1>0, <1>1 DEF Quiet, Kept, RetriedFailed, Final
<1>2. CASE ~Retried(o) /\ o \in CommittedOrders
  <2>1. Over(o) /\ ~Mid(o)
    BY <1>2 DEF Over, Mid, MidPcs
  <2> QED BY <1>0, <1>2, <2>1 DEF OverFinal
<1>3. CASE ~Retried(o) /\ apiPc[o] = "rejected" /\ ~InLog(o)
  BY <1>0, <1>3 DEF RejectedFinal, Mid, MidPcs
<1> QED BY <1>1, <1>2, <1>3

\* An order that nobody handles and that will not be delivered any more shows a
\* final status, with the three exceptions that Settled names, for any number of
\* orders, workers, partitions and faults.
THEOREM OrdersSettle == Spec => []Settled
BY SettledHolds, SettleInvariance, PTL

LEMMA RetryLeavesTraceHolds == SettleInv => RetryLeavesTrace
<1>1. ASSUME SettleInv, ~Redelivery, ~Happened("redisLoss"),
             NEW r \in Orders, job[r].retryOf # NoOrder
      PROVE  /\ store[job[r].retryOf].status \in {"failed", "recovered"}
             /\ apiPc[r] = "accepted" => store[job[r].retryOf].recoveryJob # NoOrder
  <2>1. Quiet /\ TypeInv
    BY <1>1 DEF Quiet, SettleInv, RecordInv, QueueInv
  <2>2. job[r].retryOf \in Orders /\ Retried(job[r].retryOf)
    BY <1>1, <2>1 DEF Retried, TypeInv, TypeOK, Jobs
  <2> QED BY <1>1, <2>1, <2>2 DEF SettleInv, RetriedFailed, RetriedLinked
<1> QED BY <1>1 DEF RetryLeavesTrace, SettleInv, CompletedRecovered

\* As long as no order is delivered late or twice, a retried order is failed or
\* recovered and linked to its retry, and a completed recovery shows as such.
THEOREM RetriesLeaveTrace == Spec => []RetryLeavesTrace
BY RetryLeavesTraceHolds, SettleInvariance, PTL

(***************************************************************************)
(* The statuses implement OrderLifecycle.                                  *)
(***************************************************************************)
Changes(o, from, to) == store[o].status = from /\ store'[o].status = to

LEMMA StatusSteps ==
  ASSUME SettleInv, [Next]_vars, Quiet', NEW o \in Orders
  PROVE  \/ store'[o].status = store[o].status
         \/ Changes(o, "absent", "queued") \/ Changes(o, "queued", "running")
         \/ Changes(o, "running", "completed") \/ Changes(o, "running", "failed")
         \/ Changes(o, "failed", "recovered") \/ Changes(o, "recovered", "failed")
<1>0. /\ TypeInv /\ QueueInv /\ Handling /\ Stored /\ ~RedisLoss /\ Quiet /\ Owning
      /\ NoneRejected /\ RetriedFailed /\ UnfinishedShown
      /\ ~Happened("publish") /\ ~Evicted
  BY SettleFacts, FaultFree DEF SettleInv
<1>1. ~MarkFailedWrite(o)
  BY <1>0 DEF NoneRejected, MarkFailedWrite, ApiGoto
<1>2. CASE Retried(o)
  <2>1. store[o].status \in {"failed", "recovered"}
    BY <1>0, <1>2 DEF RetriedFailed
  <2>2. \/ store'[o].status = store[o].status
        \/ store'[o].status \in {"failed", "recovered"}
    BY <1>0, <1>2, RetriedWrites DEF RetriedFailed
  <2> QED BY <2>1, <2>2 DEF Changes
<1>3. CASE ~Retried(o)
  <2>1. CASE SetRecord(o) /\ store'[o] = NewRecord
    <3>1. store[o].status = "absent"
      BY <1>0, <2>1 DEF SetRecord, ApiGoto, Stored, Exists
    <3> QED BY <2>1, <3>1, RecordFields DEF Changes
  <2>2. ASSUME NEW w \in Workers, wPc[w] \in {"runWrite", "endWrite"}, wJob[w] = o
        PROVE  store[o].status = IF wPc[w] = "endWrite" THEN "running" ELSE "queued"
    <3>1. wPc[w] # "idle" /\ wPc[w] \notin EndPcs
      BY <2>2 DEF EndPcs
    <3>2. ~Over(o) /\ Exists(store[o])
      BY <1>0, <2>2, <3>1, NotOver DEF Handling, Stored
    <3>3. Mid(o) <=> wPc[w] = "endWrite"
      BY <1>0, <2>2, <3>1, OnlyWorker DEF Mid, MidPcs
    <3> QED BY <1>0, <2>2, <3>2, <3>3 DEF UnfinishedShown
  <2>3. \/ store'[o] = store[o]
        \/ SetRecord(o) /\ store'[o] = NewRecord
        \/ \E w \in Workers :
             /\ wPc[w] = "runWrite" /\ wJob[w] = o /\ store'[o].status = "running"
        \/ \E w \in Workers :
             /\ wPc[w] = "endWrite" /\ wJob[w] = o /\ store'[o].status \in {"completed", "failed"}
    BY <1>0, <1>1, <1>3, WritesShow DEF Stored, Retried
  <2> QED BY <2>1, <2>2, <2>3 DEF Changes
<1> QED BY <1>2, <1>3

LEMMA LifecycleSteps ==
  ASSUME SettleInv, [Next]_vars, Quiet'
  PROVE  [Lifecycle!Next]_shown
<1>0. /\ QueueInv /\ RecordInv /\ Stored /\ ~RedisLoss /\ store \in [Orders -> Records]
  BY SettleFacts, FaultFree DEF TypeInv, TypeOK
<1>1. CASE store' = store
  BY <1>1 DEF shown
<1>2. CASE store' = [o \in Orders |-> Absent]
  <2>1. \A o \in Orders : ~Exists(store'[o])
    BY <1>2 DEF Absent, Exists
  <2>2. \A o \in Orders : store'[o].status = store[o].status
    BY <1>0, <2>1, StoreKept DEF Exists
  <2> QED BY <2>2 DEF shown
<1>3. ASSUME NEW o \in Orders, NEW rec \in Records, store' = [store EXCEPT ![o] = rec]
      PROVE  [Lifecycle!Next]_shown
  <2> DEFINE is == store'[o].status
  <2>1. shown' = [shown EXCEPT ![o] = is]
    BY <1>0, <1>3 DEF shown
  <2>2. shown[o] = store[o].status
    BY DEF shown
  <2>3. CASE is = store[o].status
    <3>1. \A x \in Orders : store'[x].status = store[x].status
      BY <1>0, <1>3, <2>3
    <3> QED BY <3>1 DEF shown
  <2>4. CASE Changes(o, "absent", "queued")
    BY <2>1, <2>2, <2>4 DEF Changes, Lifecycle!Next, Lifecycle!Place, Lifecycle!Becomes
  <2>5. CASE Changes(o, "queued", "running")
    BY <2>1, <2>2, <2>5 DEF Changes, Lifecycle!Next, Lifecycle!Start, Lifecycle!Becomes
  <2>6. CASE Changes(o, "running", "completed")
    BY <2>1, <2>2, <2>6 DEF Changes, Lifecycle!Next, Lifecycle!Complete, Lifecycle!Becomes
  <2>7. CASE Changes(o, "running", "failed")
    BY <2>1, <2>2, <2>7 DEF Changes, Lifecycle!Next, Lifecycle!Fail, Lifecycle!Becomes
  <2>8. CASE Changes(o, "failed", "recovered")
    BY <2>1, <2>2, <2>8 DEF Changes, Lifecycle!Next, Lifecycle!Recover, Lifecycle!Becomes
  <2>9. CASE Changes(o, "recovered", "failed")
    BY <2>1, <2>2, <2>9 DEF Changes, Lifecycle!Next, Lifecycle!Relapse, Lifecycle!Becomes
  <2> QED BY <2>3, <2>4, <2>5, <2>6, <2>7, <2>8, <2>9, StatusSteps
<1> QED BY <1>0, <1>1, <1>2, <1>3, StoreSteps

\* Until an order is delivered late or twice or Redis loses its data, the statuses
\* the store shows go through the steps of OrderLifecycle and no others.
THEOREM ImplementsLifecycle == Spec => FollowsLifecycle
<1>1. Init => Lifecycle!Init
  BY DEF Init, Lifecycle!Init, shown, Absent
<1>2. SettleInv /\ [Next]_vars => [Quiet' => [Lifecycle!Next]_shown]_vars
  BY LifecycleSteps
<1> QED BY <1>1, <1>2, SettleInvariance, PTL DEF Spec, FollowsLifecycle

===============================================================================
