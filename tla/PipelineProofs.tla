----------------------------- MODULE PipelineProofs -----------------------------
(***************************************************************************)
(* Safety of OrderPipeline for any number of orders, workers, partitions   *)
(* and faults: its types; nothing is lost between POST /orders and         *)
(* process_job, and nothing is published twice; it implements              *)
(* AtLeastOnceQueue (its safety part).                                     *)
(***************************************************************************)
EXTENDS OrderPipeline, SequenceTheorems, TLAPS

(***************************************************************************)
(* What the record and list functions of JobStore return.                  *)
(***************************************************************************)
LEMMA RecordTypes ==
  /\ Absent \in Records
  /\ NewRecord \in Records
  /\ \A rec \in Records : \A st \in Statuses : \A r, e \in BOOLEAN :
       Updated(rec, st, r, e) \in Records
  /\ \A rec \in Records, j \in Orders : MarkedRecovered(rec, j) \in Records
  /\ \A rec \in Records : MarkedFailed(rec) \in Records
  /\ \A rec \in Records, j \in Orders : Linked(rec, j) \in Records
BY DEF Records, Absent, NewRecord, Updated, MarkedRecovered, MarkedFailed, Linked,
       Statuses, RecoveryStatuses

LEMMA ListTypes ==
  ASSUME NEW list \in Seq(Orders), NEW o \in Orders, NEW cap \in Nat \ {0}
  PROVE  /\ Pushed(list, o) \in Seq(Orders)
         /\ Trimmed(list, cap) \in Seq(Orders)
<1>1. <<o>> \in Seq(Orders)
  OBVIOUS
<1>2. Pushed(list, o) \in Seq(Orders)
  BY <1>1, ConcatProperties DEF Pushed
<1>3. Trimmed(list, cap) \in Seq(Orders)
  <2>1. CASE Len(list) > cap
    <3>1. \A i \in 1..cap : list[i] \in Orders
      BY <2>1, LenProperties
    <3>2. SubSeq(list, 1, cap) \in Seq(Orders)
      BY <3>1, SubSeqProperties
    <3> QED BY <2>1, <3>2 DEF Trimmed
  <2>2. CASE ~(Len(list) > cap)
    BY <2>2 DEF Trimmed
  <2> QED BY <2>1, <2>2
<1> QED BY <1>2, <1>3

(***************************************************************************)
(* Types.  A handler that links, and a worker that marks a recovery, have  *)
(* an original to write to; a worker that handles something has a job and  *)
(* a partition.                                                            *)
(***************************************************************************)
Targets ==
  /\ \A o \in Orders : apiPc[o] \in {"linkRead", "linkWrite"} => job[o].retryOf # NoOrder
  /\ \A w \in Workers : wPc[w] # "idle" => wJob[w] \in Orders /\ wPart[w] \in Partitions
  /\ \A w \in Workers :
       wPc[w] \in {"recRead", "recWrite"} => job[wJob[w]].retryOf # NoOrder

BudgetOK ==
  budget \in [left : [BudgetKinds -> Int], spent : SUBSET FaultKinds, lost : SUBSET Orders]

TypeInv == TypeOK /\ Targets

LEMMA InitTypeInv == Init => TypeInv
<1> SUFFICES ASSUME Init PROVE TypeInv
  OBVIOUS
<1> USE PipelineAssumption DEF Init
<1>1. TypeOK
  <2>1. store \in [Orders -> Records] /\ apiSnap \in [Orders -> Records] /\ wSnap \in [Workers -> Records]
    BY RecordTypes
  <2>2. recent \in Seq(Orders) /\ log \in [Partitions -> Seq(Orders)]
    OBVIOUS
  <2>3. job \in [Orders -> Jobs]
    BY DEF NoJob, Jobs
  <2>4. draining \in [Workers -> BOOLEAN]
    OBVIOUS
  <2>5. BudgetOK
    BY DEF BudgetOK
  <2> QED BY <2>1, <2>2, <2>3, <2>4, <2>5 DEF TypeOK, BudgetOK, ApiPcs, WorkerPcs
<1>2. Targets
  BY DEF Targets
<1> QED BY <1>1, <1>2 DEF TypeInv

\* The request's flag makes a job of a job.
LEMMA FlaggedJob ==
  ASSUME NEW j \in Jobs, NEW b \in BOOLEAN
  PROVE  [j EXCEPT !.forceFail = b] \in Jobs
BY DEF Jobs

LEMMA ApiTypeInv ==
  ASSUME TypeInv, NEW o \in Orders
  PROVE  /\ (\E f \in BOOLEAN : PlaceOrder(o, f)) => TypeInv'
         /\ (\E f \in Orders : RetryOrder(o, f)) => TypeInv'
         /\ ApiStep(o) => TypeInv'
<1> USE DEF TypeInv, redis, api, kafka, workers, ApiPcs, ApiActive, ApiDone
<1>1. ASSUME NEW ff \in BOOLEAN, PlaceOrder(o, ff) PROVE TypeInv'
  <2> USE <1>1 DEF PlaceOrder, ApiGoto
  <2>1. job' \in [Orders -> Jobs]
    <3>1. job \in [Orders -> Jobs]
      BY DEF TypeOK
    <3>2. [job[o] EXCEPT !.forceFail = ff] \in Jobs
      BY ONLY <3>1, o \in Orders, ff \in BOOLEAN, FlaggedJob
    <3>3. job' = [job EXCEPT ![o] = [job[o] EXCEPT !.forceFail = ff]]
      BY ONLY <1>1 DEF PlaceOrder
    <3> QED BY ONLY <3>1, <3>2, <3>3
  <2>2. TypeOK'
    BY <2>1 DEF TypeOK
  <2>3. Targets'
    BY DEF TypeOK, Targets, Jobs
  <2> QED BY <2>2, <2>3
<1>2. ASSUME NEW f \in Orders, RetryOrder(o, f) PROVE TypeInv'
  <2> USE <1>2 DEF RetryOrder, RetryJob, ApiGoto
  <2>1. job' \in [Orders -> Jobs]
    BY DEF TypeOK, Jobs
  <2>2. BudgetOK'
    <3>1. BudgetOK /\ "retry" \in BudgetKinds
      BY DEF TypeOK, BudgetOK, BudgetKinds
    <3>2. [budget.left EXCEPT !["retry"] = @ - 1] \in [BudgetKinds -> Int]
      BY ONLY <3>1 DEF BudgetOK
    <3>3. budget' = [budget EXCEPT !.left = [budget.left EXCEPT !["retry"] = @ - 1]]
      BY ONLY <1>2 DEF RetryOrder
    <3> QED BY ONLY <3>1, <3>2, <3>3 DEF BudgetOK
  <2>4. TypeOK'
    BY <2>1, <2>2 DEF TypeOK, BudgetOK
  <2>3. Targets'
    BY NoOrderAssumption DEF TypeOK, Targets, Jobs
  <2> QED BY <2>3, <2>4
<1>3. ASSUME SetRecord(o) PROVE TypeInv'
  BY <1>3, RecordTypes DEF SetRecord, ApiGoto, TypeOK, Targets
<1>4. ASSUME PushRecent(o) PROVE TypeInv'
  BY <1>4, ListTypes, PipelineAssumption DEF PushRecent, ApiGoto, TypeOK, Targets
<1>5. ASSUME TrimRecent(o) PROVE TypeInv'
  BY <1>5, ListTypes, PipelineAssumption DEF TrimRecent, ApiGoto, TypeOK, Targets
<1>6. ASSUME SendOrder(o) PROVE TypeInv'
  BY <1>6 DEF SendOrder, ApiGoto, TypeOK, Targets
<1>7. ASSUME AckPublish(o) PROVE TypeInv'
  BY <1>7 DEF AckPublish, ApiGoto, TypeOK, Targets
<1>8. ASSUME MarkFailedRead(o) PROVE TypeInv'
  BY <1>8 DEF MarkFailedRead, ApiGoto, TypeOK, Targets
<1>9. ASSUME MarkFailedWrite(o) PROVE TypeInv'
  BY <1>9, RecordTypes DEF MarkFailedWrite, ApiGoto, TypeOK, Targets
<1>10. ASSUME LinkRead(o) PROVE TypeInv'
  <2>1. job[o].retryOf \in Orders
    BY <1>10 DEF LinkRead, ApiGoto, TypeOK, Targets, Jobs
  <2> QED BY <1>10, <2>1 DEF LinkRead, ApiGoto, TypeOK, Targets
<1>11. ASSUME LinkWrite(o) PROVE TypeInv'
  BY <1>11, RecordTypes DEF LinkWrite, ApiGoto, TypeOK, Targets
<1> QED BY <1>1, <1>2, <1>3, <1>4, <1>5, <1>6, <1>7, <1>8, <1>9, <1>10, <1>11 DEF ApiStep

\* A worker that dies, or the common halves of its reads and writes.
LEMMA DieTypeInv ==
  ASSUME TypeInv, NEW w \in Workers, Die(w),
         UNCHANGED <<redis, api, buffer, log, committed>>,
         executed' \in [Orders -> Nat], BudgetOK'
  PROVE  TypeInv'
<1> USE DEF TypeInv, redis, api, Die, WorkerPcs
<1>1. TypeOK'
  <2>1. wSnap' \in [Workers -> Records]
    BY RecordTypes DEF TypeOK
  <2>2. owner' \in [Partitions -> Workers \cup {NoWorker}]
    BY DEF TypeOK
  <2>3. /\ wPc' \in [Workers -> WorkerPcs]
        /\ draining' \in [Workers -> BOOLEAN]
        /\ wJob' \in [Workers -> Orders \cup {NoOrder}]
        /\ wPart' \in [Workers -> Partitions \cup {NoPartition}]
    BY DEF TypeOK
  <2> QED BY <2>1, <2>2, <2>3 DEF TypeOK, BudgetOK
<1>2. Targets'
  BY DEF TypeOK, Targets
<1> QED BY <1>1, <1>2

LEMMA ReadTypeInv ==
  ASSUME TypeInv, NEW w \in Workers, NEW o \in Orders,
         NEW from \in WorkerPcs, NEW to \in WorkerPcs, from # "idle",
         to = "recWrite" => from = "recRead", to # "recRead",
         ReadInto(w, o, from, to),
         UNCHANGED <<redis, api, buffer, log, committed, budget>>,
         executed' \in [Orders -> Nat]
  PROVE  TypeInv'
<1> USE DEF TypeInv, redis, api, ReadInto, WorkerGoto
<1>1. TypeOK'
  BY DEF TypeOK
<1>2. Targets'
  BY DEF TypeOK, Targets
<1> QED BY <1>1, <1>2

LEMMA WriteTypeInv ==
  ASSUME TypeInv, NEW w \in Workers, NEW o \in Orders, NEW rec \in Records,
         NEW from \in WorkerPcs, NEW to \in WorkerPcs, from # "idle",
         to = "recRead" => job[wJob[w]].retryOf # NoOrder, to # "recWrite",
         WriteBack(w, o, rec, from, to)
  PROVE  TypeInv'
<1> USE DEF TypeInv, redis, api, kafka, WriteBack, WorkerGoto
<1>1. TypeOK'
  BY RecordTypes DEF TypeOK
<1>2. Targets'
  BY DEF TypeOK, Targets
<1> QED BY <1>1, <1>2

LEMMA WorkerTypeInv ==
  ASSUME TypeInv, NEW w \in Workers, WorkerStep(w)
  PROVE  TypeInv'
<1> USE DEF WorkerPcs
<1>0. wPc[w] # "idle" => wJob[w] \in Orders /\ wPart[w] \in Partitions
  BY DEF TypeInv, Targets
<1>f. wPc[w] \in {"recRead", "recWrite"} => job[wJob[w]].retryOf \in Orders
  BY <1>0 DEF TypeInv, TypeOK, Targets, Jobs
<1>1. ASSUME NEW p \in Partitions, Fetch(w, p) PROVE TypeInv'
  <2> USE <1>1 DEF TypeInv, Fetch, WorkerGoto, redis, api, kafka
  <2>1. log[p][committed[p] + 1] \in Orders
    <3>1. log[p] \in Seq(Orders) /\ committed[p] + 1 \in 1..Len(log[p])
      BY LenProperties DEF TypeOK
    <3> QED BY <3>1, ElementOfSeq
  <2>2. TypeOK'
    BY <2>1 DEF TypeOK
  <2>3. Targets'
    BY <2>1 DEF TypeOK, Targets
  <2> QED BY <2>2, <2>3
<1>2. CASE CheckExists(w)
  BY <1>2 DEF CheckExists, WorkerGoto, redis, api, kafka, TypeInv, TypeOK, Targets
<1>3. CASE SaveJob(w)
  <2>1. wPc[w] = "save" /\ wJob[w] \in Orders
    BY <1>0, <1>3 DEF SaveJob, WorkerGoto
  <2>2. recent' \in Seq(Orders)
    BY <1>3, <2>1, ListTypes, PipelineAssumption DEF SaveJob, TypeInv, TypeOK
  <2> QED BY <1>3, <2>1, <2>2, RecordTypes
          DEF SaveJob, WorkerGoto, api, kafka, TypeInv, TypeOK, Targets
<1>4. CASE RunRead(w)
  <2>1. wPc[w] = "runRead" /\ wJob[w] \in Orders
    BY <1>0, <1>4 DEF RunRead, ReadInto, WorkerGoto
  <2>2. /\ UNCHANGED <<redis, api, buffer, log, committed, budget>>
        /\ executed' \in [Orders -> Nat] /\ BudgetOK'
    BY <1>4 DEF RunRead, TypeInv, TypeOK, BudgetOK
  <2>3. CASE ReadInto(w, wJob[w], "runRead", "runWrite")
    BY <2>1, <2>2, <2>3, ReadTypeInv
  <2>4. CASE Die(w)
    BY <2>2, <2>4, DieTypeInv
  <2> QED BY <1>4, <2>3, <2>4 DEF RunRead
<1>5. CASE RunWrite(w)
  <2>1. wPc[w] = "runWrite" /\ wJob[w] \in Orders
    BY <1>0, <1>5 DEF RunWrite, WriteBack, WorkerGoto
  <2>2. Updated(wSnap[w], "running", FALSE, FALSE) \in Records
    BY RecordTypes DEF Statuses, TypeInv, TypeOK
  <2> QED BY <1>5, <2>1, <2>2, WriteTypeInv DEF RunWrite
<1>6. CASE EndRead(w)
  <2>1. wPc[w] = "endRead" /\ wJob[w] \in Orders
    BY <1>0, <1>6 DEF EndRead
  <2>2. /\ UNCHANGED <<redis, api, buffer, log, committed, budget>>
        /\ executed' \in [Orders -> Nat] /\ BudgetOK'
    BY <1>6, <2>1 DEF EndRead, TypeInv, TypeOK, BudgetOK
  <2>3. CASE ReadInto(w, wJob[w], "endRead", "endWrite")
    BY <2>1, <2>2, <2>3, ReadTypeInv
  <2>4. CASE Die(w)
    BY <2>2, <2>4, DieTypeInv
  <2> QED BY <1>6, <2>3, <2>4 DEF EndRead
<1>7. CASE EndWrite(w)
  <2>1. wPc[w] = "endWrite" /\ wJob[w] \in Orders
    BY <1>0, <1>7 DEF EndWrite, WriteBack, WorkerGoto
  <2>2. Outcome(w) \in Records
    BY RecordTypes DEF Outcome, Statuses, TypeInv, TypeOK
  <2> DEFINE to == IF IsRecovery(wJob[w]) THEN "recRead" ELSE "commit"
  <2>3. to \in WorkerPcs /\ to # "recWrite" /\ (to = "recRead" => job[wJob[w]].retryOf # NoOrder)
    BY DEF IsRecovery
  <2>4. WriteBack(w, wJob[w], Outcome(w), "endWrite", to)
    BY <1>7 DEF EndWrite
  <2> HIDE DEF to
  <2> QED BY <2>1, <2>2, <2>3, <2>4, WriteTypeInv
<1>8. CASE RecRead(w)
  <2> DEFINE f == job[wJob[w]].retryOf
  <2>1. wPc[w] = "recRead" /\ f \in Orders
    BY <1>f, <1>8 DEF RecRead, ReadInto, WorkerGoto
  <2>2. /\ UNCHANGED <<redis, api, buffer, log, committed, budget>>
        /\ UNCHANGED executed /\ executed' \in [Orders -> Nat]
    BY <1>8 DEF RecRead, TypeInv, TypeOK
  <2>3. CASE ReadInto(w, f, "recRead", "recWrite")
    BY <2>1, <2>2, <2>3, ReadTypeInv
  <2>4. CASE WorkerGoto(w, "recRead", "commit") /\ UNCHANGED <<owner, wJob, wPart, wSnap, draining>>
    BY <2>2, <2>4 DEF WorkerGoto, redis, api, TypeInv, TypeOK, Targets
  <2> QED BY <1>8, <2>3, <2>4 DEF RecRead
<1>9. CASE RecWrite(w)
  <2>1. wPc[w] = "recWrite" /\ wJob[w] \in Orders /\ job[wJob[w]].retryOf \in Orders
    BY <1>0, <1>f, <1>9 DEF RecWrite, WriteBack, WorkerGoto
  <2>2. MarkedRecovered(wSnap[w], wJob[w]) \in Records
    BY <2>1, RecordTypes DEF TypeInv, TypeOK
  <2> QED BY <1>9, <2>1, <2>2, WriteTypeInv DEF RecWrite
<1>10. CASE Commit(w)
  <2>1. wPc[w] = "commit" /\ wPart[w] \in Partitions
    BY <1>0, <1>10 DEF Commit, WorkerGoto
  <2> QED BY <1>10, <2>1 DEF Commit, WorkerGoto, redis, api, TypeInv, TypeOK, Targets
<1>11. CASE CommitFails(w) \/ DrainExit(w)
  <2>1. /\ Die(w) /\ UNCHANGED <<redis, api, buffer, log, committed>>
        /\ executed' \in [Orders -> Nat] /\ BudgetOK'
    BY <1>11 DEF CommitFails, DrainExit, TypeInv, TypeOK, BudgetOK
  <2> QED BY <2>1, DieTypeInv
<1> QED BY <1>1, <1>2, <1>3, <1>4, <1>5, <1>6, <1>7, <1>8, <1>9, <1>10, <1>11 DEF WorkerStep

LEMMA SpendType ==
  ASSUME TypeInv, NEW kind \in FaultKinds, Spend(kind)
  PROVE  /\ BudgetOK'
         /\ \A k : Happened(k)' <=> Happened(k) \/ k = kind
         /\ budget'.lost = IF kind = "brokerLoss"
                             THEN budget.lost \cup {o \in Orders : InLog(o)}
                             ELSE budget.lost
<1>1. /\ kind \in BudgetKinds /\ "total" \in BudgetKinds /\ kind # "total"
      /\ budget.left \in [BudgetKinds -> Int] /\ budget.spent \subseteq FaultKinds
      /\ budget.lost \subseteq Orders
  BY DEF TypeInv, TypeOK, BudgetKinds, FaultKinds
<1>2. budget.left[kind] - 1 \in Int /\ budget.left["total"] - 1 \in Int
  BY <1>1
<1>3. [budget.left EXCEPT ![kind] = @ - 1, !["total"] = @ - 1] \in [BudgetKinds -> Int]
  BY <1>1, <1>2
<1>4. /\ budget'.left = [budget.left EXCEPT ![kind] = @ - 1, !["total"] = @ - 1]
      /\ budget'.spent = budget.spent \cup {kind}
      /\ budget'.lost = IF kind = "brokerLoss"
                          THEN budget.lost \cup {o \in Orders : InLog(o)}
                          ELSE budget.lost
      /\ budget' = [left |-> budget'.left, spent |-> budget'.spent, lost |-> budget'.lost]
  BY DEF Spend
<1> QED BY <1>1, <1>3, <1>4 DEF BudgetOK, Happened

LEMMA FaultTypeInv ==
  ASSUME TypeInv, Faults
  PROVE  TypeInv'
<1> USE DEF ApiPcs, ApiActive, ApiDone, WorkerPcs, redis, api, kafka, workers
<1>b. \A kind \in FaultKinds : Spend(kind) => BudgetOK'
  BY SpendType
<1>k. {"publish", "apiCrash", "workerCrash", "evict", "sigterm", "redisLoss", "brokerLoss"}
        \subseteq FaultKinds
  BY DEF FaultKinds
<1>1. ASSUME NEW o \in Orders, SendRefused(o) PROVE TypeInv'
  <2>1. BudgetOK'
    BY <1>1, <1>b, <1>k DEF SendRefused
  <2> QED BY <1>1, <2>1 DEF SendRefused, ApiGoto, TypeInv, TypeOK, BudgetOK, Targets
<1>2. ASSUME NEW o \in Orders, NEW lost \in BOOLEAN, PublishFailed(o, lost) PROVE TypeInv'
  <2>1. BudgetOK'
    BY <1>2, <1>b, <1>k DEF PublishFailed
  <2> QED BY <1>2, <2>1 DEF PublishFailed, ApiGoto, TypeInv, TypeOK, BudgetOK, Targets
<1>3. ASSUME NEW o \in Orders, NEW lost \in BOOLEAN, ApiCrash(o, lost) PROVE TypeInv'
  <2>1. BudgetOK'
    BY <1>3, <1>b, <1>k DEF ApiCrash
  <2> QED BY <1>3, <2>1, RecordTypes DEF ApiCrash, TypeInv, TypeOK, BudgetOK, Targets
<1>4. ASSUME NEW w \in Workers, WorkerCrash(w) PROVE TypeInv'
  <2>1. /\ Die(w) /\ UNCHANGED <<redis, api, buffer, log, committed>>
        /\ executed' \in [Orders -> Nat] /\ BudgetOK'
    BY <1>4, <1>b, <1>k DEF WorkerCrash, TypeInv, TypeOK
  <2> QED BY <2>1, DieTypeInv
<1>5. ASSUME NEW w \in Workers, Sigterm(w) PROVE TypeInv'
  <2>1. BudgetOK'
    BY <1>5, <1>b, <1>k DEF Sigterm
  <2> QED BY <1>5, <2>1 DEF Sigterm, TypeInv, TypeOK, BudgetOK, Targets
<1>6. ASSUME NEW w \in Workers, NEW p \in Partitions, Evict(w, p) PROVE TypeInv'
  <2>1. BudgetOK'
    BY <1>6, <1>b, <1>k DEF Evict
  <2> QED BY <1>6, <2>1 DEF Evict, TypeInv, TypeOK, BudgetOK, Targets
<1>7. ASSUME RedisLoss PROVE TypeInv'
  <2>1. BudgetOK'
    BY <1>7, <1>b, <1>k DEF RedisLoss
  <2>2. store' \in [Orders -> Records] /\ recent' \in Seq(Orders)
    BY <1>7, RecordTypes DEF RedisLoss
  <2> QED BY <1>7, <2>1, <2>2 DEF RedisLoss, TypeInv, TypeOK, BudgetOK, Targets
<1>8. CASE BrokerLoss
  <2>1. BudgetOK'
    BY <1>8, <1>b, <1>k DEF BrokerLoss
  <2>2. /\ log' \in [Partitions -> Seq(Orders)] /\ committed' \in [Partitions -> Nat]
        /\ owner' \in [Partitions -> Workers \cup {NoWorker}] /\ buffer' \subseteq Orders
    BY <1>8 DEF BrokerLoss, TypeInv, TypeOK
  <2> QED BY <1>8, <2>1, <2>2 DEF BrokerLoss, TypeInv, TypeOK, BudgetOK, Targets
<1> QED BY <1>1, <1>2, <1>3, <1>4, <1>5, <1>6, <1>7, <1>8 DEF Faults

LEMMA NextTypeInv == TypeInv /\ [Next]_vars => TypeInv'
<1> SUFFICES ASSUME TypeInv, [Next]_vars PROVE TypeInv'
  OBVIOUS
<1>1. CASE Client
  BY <1>1, ApiTypeInv DEF Client
<1>2. ASSUME NEW o \in Orders, ApiStep(o) PROVE TypeInv'
  BY <1>2, ApiTypeInv
<1>3. ASSUME NEW o \in Orders, NEW p \in Partitions, BrokerAppend(o, p) PROVE TypeInv'
  <2>1. log' \in [Partitions -> Seq(Orders)]
    BY <1>3 DEF BrokerAppend, TypeInv, TypeOK
  <2> QED BY <1>3, <2>1 DEF BrokerAppend, redis, api, workers, TypeInv, TypeOK, Targets
<1>4. ASSUME NEW w \in Workers, WorkerStep(w) PROVE TypeInv'
  BY <1>4, WorkerTypeInv
<1>5. ASSUME NEW w \in Workers, NEW p \in Partitions, Assign(w, p) PROVE TypeInv'
  BY <1>5 DEF Assign, redis, api, workers, TypeInv, TypeOK, Targets
<1>6. CASE Faults
  BY <1>6, FaultTypeInv
<1>7. CASE Waiting \/ UNCHANGED vars
  BY <1>7 DEF Waiting, vars, redis, api, kafka, workers, TypeInv, TypeOK, Targets
<1> QED BY <1>1, <1>2, <1>3, <1>4, <1>5, <1>6, <1>7 DEF Next

\* Every variable keeps its type, for any number of orders, workers, partitions
\* and faults.
THEOREM TypeCorrect == Spec => []TypeOK
<1>1. TypeInv => TypeOK
  BY DEF TypeInv
<1> QED BY <1>1, InitTypeInv, NextTypeInv, PTL DEF Spec

(***************************************************************************)
(* The inductive invariant.                                                *)
(*                                                                         *)
(* Sending: a request that has not called send() has left no trace in      *)
(* Kafka, a record on its way is not in the topic, and only an             *)
(* acknowledged request gets past the future.  Where the topic as it is    *)
(* now may be a new one, the invariant says Logged and not InLog.          *)
(***************************************************************************)
Unsent == {"unused", "set", "push", "trim", "send"}
Acked  == {"linkRead", "linkWrite", "accepted"}

Sending ==
  /\ \A o \in Orders : apiPc[o] \in Unsent => o \notin buffer /\ ~Logged(o)
  /\ \A o \in buffer : ~InLog(o)
  /\ \A o \in Orders : apiPc[o] \in Acked => Logged(o)
  /\ PublishedOnce

\* Handling: a worker has its job from the log; as long as it owns the
\* partition this is the next job to commit; once process_job has run it has
\* been counted; and what is committed has run.
AfterRun == {"endWrite", "recRead", "recWrite", "commit"}

Holds(w) ==
  wPc[w] # "idle" /\ owner[wPart[w]] = w =>
    /\ committed[wPart[w]] < Len(log[wPart[w]])
    /\ wJob[w] = log[wPart[w]][committed[wPart[w]] + 1]

Handling ==
  /\ \A p \in Partitions : committed[p] <= Len(log[p])
  /\ \A w \in Workers : Holds(w)
  /\ \A w \in Workers : wPc[w] # "idle" => Logged(wJob[w])
  /\ \A w \in Workers : wPc[w] \in AfterRun => executed[wJob[w]] > 0
  /\ \A o \in Orders : executed[o] > 0 => Logged(o)
  /\ AtLeastOnce

QueueInv == TypeInv /\ Sending /\ Handling

(***************************************************************************)
(* The log as a sequence.                                                  *)
(***************************************************************************)
LEMMA AppendedLog ==
  ASSUME TypeInv, NEW o \in Orders, NEW p \in Partitions, BrokerAppend(o, p)
  PROVE  /\ Len(log'[p]) = Len(log[p]) + 1
         /\ log'[p][Len(log[p]) + 1] = o
         /\ \A i \in 1..Len(log[p]) : log'[p][i] = log[p][i]
         /\ \A q \in Partitions : q # p => log'[q] = log[q]
<1>1. log[p] \in Seq(Orders) /\ log' = [log EXCEPT ![p] = Append(log[p], o)]
  BY DEF TypeInv, TypeOK, BrokerAppend
<1>2. /\ log'[p] = Append(log[p], o)
      /\ \A q \in Partitions : q # p => log'[q] = log[q]
  BY <1>1 DEF TypeInv, TypeOK
<1> QED BY <1>1, <1>2, AppendProperties

LEMMA AppendedInLog ==
  ASSUME TypeInv, NEW o \in Orders, NEW p \in Partitions, BrokerAppend(o, p)
  PROVE  \A x : InLog(x)' <=> InLog(x) \/ x = o
<1> DEFINE n == Len(log[p])
<1>1. /\ Len(log'[p]) = n + 1 /\ log'[p][n + 1] = o
      /\ \A i \in 1..n : log'[p][i] = log[p][i]
      /\ \A q \in Partitions : q # p => log'[q] = log[q]
  BY AppendedLog
<1>2. n \in Nat
  BY LenProperties DEF TypeInv, TypeOK
<1> HIDE DEF n
<1> TAKE x
<1>3. ASSUME InLog(x)' PROVE InLog(x) \/ x = o
  <2>q. PICK q \in Partitions : \E i \in 1..Len(log'[q]) : log'[q][i] = x
    BY <1>3 DEF InLog
  <2>i. PICK i \in 1..Len(log'[q]) : log'[q][i] = x
    BY <2>q
  <2>2. CASE q = p /\ i = n + 1
    BY <1>1, <2>i, <2>2
  <2>3. CASE q = p /\ i # n + 1
    <3>1. i \in 1..n /\ log[p][i] = x
      BY <1>1, <1>2, <2>i, <2>3
    <3> QED BY <3>1 DEF InLog, n
  <2>4. CASE q # p
    BY <1>1, <2>i, <2>4 DEF InLog
  <2> QED BY <2>2, <2>3, <2>4
<1>4. ASSUME InLog(x) PROVE InLog(x)'
  <2>q. PICK q \in Partitions : \E i \in 1..Len(log[q]) : log[q][i] = x
    BY <1>4 DEF InLog
  <2>i. PICK i \in 1..Len(log[q]) : log[q][i] = x
    BY <2>q
  <2>2. i \in 1..Len(log'[q]) /\ log'[q][i] = x
    BY <1>1, <1>2, <2>i DEF n
  <2> QED BY <2>2 DEF InLog
<1>5. InLog(o)'
  <2>1. n + 1 \in 1..Len(log'[p])
    BY <1>1, <1>2
  <2> QED BY <1>1, <2>1 DEF InLog
<1> QED BY <1>3, <1>4, <1>5

(***************************************************************************)
(* The broker's loss: the only step that takes a record out of the topic,  *)
(* and no order that was logged is forgotten to have been.                 *)
(***************************************************************************)
LEMMA LostSteps ==
  ASSUME TypeInv, [Next]_vars
  PROVE  budget'.lost = budget.lost \/ BrokerLoss
<1>1. \A kind \in FaultKinds \ {"brokerLoss"} : Spend(kind) => budget'.lost = budget.lost
  BY SpendType
<1>2. {"publish", "apiCrash", "workerCrash", "evict", "sigterm", "redisLoss"}
        \subseteq FaultKinds \ {"brokerLoss"}
  BY DEF FaultKinds
<1>3. ASSUME Faults PROVE budget'.lost = budget.lost \/ BrokerLoss
  BY <1>1, <1>2, <1>3 DEF Faults, SendRefused, PublishFailed, ApiCrash, WorkerCrash, Sigterm,
     Evict, RedisLoss
<1>4. ASSUME Client PROVE budget'.lost = budget.lost
  <2>1. BudgetOK
    BY DEF TypeInv, TypeOK, BudgetOK
  <2>2. budget' = budget \/ budget' = [budget EXCEPT !.left["retry"] = @ - 1]
    BY <1>4 DEF Client, PlaceOrder, RetryOrder
  <2> QED BY <2>1, <2>2 DEF BudgetOK
<1>5. ASSUME NEW o \in Orders, ApiStep(o) PROVE budget' = budget
  BY <1>5 DEF ApiStep, SetRecord, PushRecent, TrimRecent, SendOrder, AckPublish, MarkFailedRead,
     MarkFailedWrite, LinkRead, LinkWrite
<1>6. ASSUME NEW w \in Workers, WorkerStep(w) PROVE budget' = budget
  BY <1>6 DEF WorkerStep, Fetch, CheckExists, SaveJob, RunRead, RunWrite, EndRead, EndWrite,
     RecRead, RecWrite, Commit, CommitFails, DrainExit, WriteBack
<1>7. ASSUME \/ \E o \in Orders, p \in Partitions : BrokerAppend(o, p)
             \/ \E w \in Workers, p \in Partitions : Assign(w, p)
             \/ Waiting \/ UNCHANGED vars
      PROVE  budget' = budget
  BY <1>7 DEF BrokerAppend, Assign, Waiting, vars
<1> QED BY <1>3, <1>4, <1>5, <1>6, <1>7 DEF Next

LEMMA LossEmpties ==
  ASSUME TypeInv, BrokerLoss
  PROVE  /\ \A p \in Partitions : /\ log'[p] = <<>> /\ Len(log'[p]) = 0
                                 /\ committed'[p] = 0 /\ owner'[p] = NoWorker
         /\ \A x : ~InLog(x)'
         /\ \A x \in Orders : Logged(x)' <=> Logged(x)
         /\ UNCHANGED <<redis, api, workers, executed>>
         /\ \A x \in buffer' : x \in buffer \/ apiPc[x] \in Unanswered
<1>1. /\ \A p \in Partitions : log'[p] = <<>> /\ committed'[p] = 0 /\ owner'[p] = NoWorker
      /\ UNCHANGED <<redis, api, workers, executed>>
      /\ \A x \in buffer' : x \in buffer \/ apiPc[x] \in Unanswered
  BY DEF BrokerLoss
<1>2. \A p \in Partitions : Len(log'[p]) = 0
  BY <1>1
<1>3. \A x : ~InLog(x)'
  BY <1>2 DEF InLog
<1>4. budget'.lost = budget.lost \cup {o \in Orders : InLog(o)}
  BY SpendType DEF BrokerLoss, FaultKinds
<1> QED BY <1>1, <1>2, <1>3, <1>4 DEF Logged

\* Logged is for ever.
LEMMA LoggedStays ==
  ASSUME TypeInv, [Next]_vars, NEW o \in Orders, Logged(o)
  PROVE  Logged(o)'
<1>1. CASE BrokerLoss
  BY <1>1, LossEmpties
<1>2. CASE budget'.lost = budget.lost
  <2>1. (\E x \in Orders, p \in Partitions : BrokerAppend(x, p)) \/ log' = log \/ BrokerLoss
    BY DEF Next, Client, PlaceOrder, RetryOrder, ApiStep, SetRecord, PushRecent, TrimRecent,
       SendOrder, AckPublish, MarkFailedRead, MarkFailedWrite, LinkRead, LinkWrite, WorkerStep,
       Fetch, CheckExists, SaveJob, RunRead, RunWrite, EndRead, EndWrite, RecRead, RecWrite,
       Commit, CommitFails, DrainExit, WriteBack, Assign, Faults, SendRefused, PublishFailed,
       ApiCrash, WorkerCrash, Sigterm, Evict, RedisLoss, Waiting, vars, kafka
  <2>2. InLog(o) /\ log' = log => InLog(o)'
    BY DEF InLog
  <2> QED BY <1>1, <1>2, <2>1, <2>2, AppendedInLog DEF Logged
<1> QED BY <1>1, <1>2, LostSteps

(***************************************************************************)
(* What a step does to the sending side: it advances one request, or the   *)
(* broker appends or loses its log, or nothing happens there.              *)
(***************************************************************************)
Advances(o, to) ==
  /\ apiPc[o] \notin ApiDone
  /\ apiPc' = [apiPc EXCEPT ![o] = to]
  /\ UNCHANGED <<log, committed, executed>>
  /\ to \in Unsent => apiPc[o] \in Unsent
  /\ to \in Acked => apiPc[o] \in Acked \/ Logged(o)
  /\ \/ buffer' \subseteq buffer
     \/ apiPc[o] \in Unsent /\ to \notin Unsent /\ buffer' = buffer \cup {o}

LEMMA SendingSteps ==
  ASSUME TypeInv, [Next]_vars
  PROVE  \/ UNCHANGED <<apiPc, buffer, log>>
         \/ \E o \in Orders, p \in Partitions : BrokerAppend(o, p)
         \/ \E o \in Orders, to \in ApiPcs : Advances(o, to)
         \/ BrokerLoss
<1> DEFINE Goal == \/ UNCHANGED <<apiPc, buffer, log>>
                   \/ \E o \in Orders, p \in Partitions : BrokerAppend(o, p)
                   \/ \E o \in Orders, to \in ApiPcs : Advances(o, to)
                   \/ BrokerLoss
         \/ BrokerLoss
<1> USE DEF ApiGoto, Unsent, Acked, ApiPcs, ApiActive, ApiDone
<1>1. ASSUME NEW o \in Orders, NEW ff \in BOOLEAN, PlaceOrder(o, ff) PROVE Goal
  <2>1. Advances(o, "set")
    BY <1>1 DEF PlaceOrder, Advances, kafka
  <2> QED BY <2>1
<1>2. ASSUME NEW o \in Orders, NEW f \in Orders, RetryOrder(o, f) PROVE Goal
  <2>1. Advances(o, "set")
    BY <1>2 DEF RetryOrder, Advances, kafka
  <2> QED BY <2>1
<1>3. ASSUME NEW o \in Orders, ApiStep(o) PROVE Goal
  <2>1. CASE SetRecord(o)
    <3>1. Advances(o, "push")
      BY <2>1 DEF SetRecord, Advances, kafka
    <3> QED BY <3>1
  <2>2. CASE PushRecent(o)
    <3>1. Advances(o, "trim")
      BY <2>2 DEF PushRecent, Advances, kafka
    <3> QED BY <3>1
  <2>3. CASE TrimRecent(o)
    <3>1. Advances(o, "send")
      BY <2>3 DEF TrimRecent, Advances, kafka
    <3> QED BY <3>1
  <2>4. CASE SendOrder(o)
    <3>1. Advances(o, "await")
      BY <2>4 DEF SendOrder, Advances
    <3> QED BY <3>1
  <2>5. CASE AckPublish(o)
    <3> DEFINE to == IF job[o].retryOf = NoOrder THEN "accepted" ELSE "linkRead"
    <3>1. Advances(o, to) /\ to \in ApiPcs
      BY <2>5 DEF AckPublish, Advances, kafka
    <3> QED BY <3>1
  <2>6. CASE MarkFailedRead(o)
    <3> DEFINE to == IF Exists(store[o]) THEN "markWrite" ELSE "rejected"
    <3>1. Advances(o, to) /\ to \in ApiPcs
      BY <2>6 DEF MarkFailedRead, Advances, kafka
    <3> QED BY <3>1
  <2>7. CASE MarkFailedWrite(o)
    <3>1. Advances(o, "rejected")
      BY <2>7 DEF MarkFailedWrite, Advances, kafka
    <3> QED BY <3>1
  <2>8. CASE LinkRead(o)
    <3> DEFINE to == IF Exists(store[job[o].retryOf]) THEN "linkWrite" ELSE "accepted"
    <3>1. Advances(o, to) /\ to \in ApiPcs
      BY <2>8 DEF LinkRead, Advances, kafka
    <3> QED BY <3>1
  <2>9. CASE LinkWrite(o)
    <3>1. Advances(o, "accepted")
      BY <2>9 DEF LinkWrite, Advances, kafka
    <3> QED BY <3>1
  <2> QED BY <1>3, <2>1, <2>2, <2>3, <2>4, <2>5, <2>6, <2>7, <2>8, <2>9 DEF ApiStep
<1>4. ASSUME NEW w \in Workers, WorkerStep(w) PROVE Goal
  <2>1. UNCHANGED <<apiPc, buffer, log>>
    BY <1>4 DEF WorkerStep, Fetch, CheckExists, SaveJob, RunRead, RunWrite, EndRead, EndWrite,
       RecRead, RecWrite, Commit, CommitFails, DrainExit, WriteBack, api, kafka
  <2> QED BY <2>1
<1>5. ASSUME NEW w \in Workers, NEW p \in Partitions, Assign(w, p) \/ Evict(w, p) PROVE Goal
  BY <1>5 DEF Assign, Evict, api
<1>6. ASSUME NEW o \in Orders, SendRefused(o) PROVE Goal
  <2>1. Advances(o, "markRead")
    BY <1>6 DEF SendRefused, Advances, kafka
  <2> QED BY <2>1
<1>7. ASSUME NEW o \in Orders, NEW lost \in BOOLEAN, PublishFailed(o, lost) PROVE Goal
  <2>1. Advances(o, "markRead")
    BY <1>7 DEF PublishFailed, Advances
  <2> QED BY <2>1
<1>8. ASSUME NEW o \in Orders, NEW lost \in BOOLEAN, ApiCrash(o, lost) PROVE Goal
  <2>1. Advances(o, "crashed")
    BY <1>8 DEF ApiCrash, Advances
  <2> QED BY <2>1
<1>9. ASSUME NEW w \in Workers, WorkerCrash(w) \/ Sigterm(w) PROVE Goal
  BY <1>9 DEF WorkerCrash, Sigterm, api, kafka
<1>10. CASE RedisLoss \/ Waiting \/ UNCHANGED vars
  BY <1>10 DEF RedisLoss, Waiting, vars, api, kafka
<1> HIDE DEF Goal
<1>11. Goal
  BY <1>1, <1>2, <1>3, <1>4, <1>5, <1>6, <1>7, <1>8, <1>9, <1>10 DEF Next, Client, Faults, Goal
<1> QED BY <1>11 DEF Goal

LEMMA SendingInv ==
  ASSUME TypeInv, Sending, [Next]_vars
  PROVE  Sending'
<1>0. CASE BrokerLoss
  <2>1. /\ \A x : ~InLog(x)'
        /\ \A x \in Orders : Logged(x)' <=> Logged(x)
        /\ apiPc' = apiPc /\ \A x \in buffer' : x \in buffer \/ apiPc[x] \in Unanswered
    BY <1>0, LossEmpties DEF api
  <2>2. PublishedOnce'
    BY <1>0, LossEmpties DEF PublishedOnce
  <2>3. Unsent \cap Unanswered = {}
    BY DEF Unsent, Unanswered
  <2> QED BY <2>1, <2>2, <2>3 DEF Sending
<1>k. budget'.lost = budget.lost \/ BrokerLoss
  BY LostSteps
<1>1. CASE UNCHANGED <<apiPc, buffer, log>> /\ budget'.lost = budget.lost
  BY <1>1 DEF Sending, Logged, InLog, PublishedOnce
<1>2. ASSUME NEW o \in Orders, NEW to \in ApiPcs, Advances(o, to), budget'.lost = budget.lost
      PROVE  Sending'
  <2>1. \A x : (InLog(x)' <=> InLog(x)) /\ (Logged(x)' <=> Logged(x))
    BY <1>2 DEF Advances, Logged, InLog
  <2>2. PublishedOnce'
    BY <1>2 DEF Advances, PublishedOnce, Sending
  <2>3. \A x \in Orders : apiPc'[x] = IF x = o THEN to ELSE apiPc[x]
    BY <1>2 DEF Advances, TypeInv, TypeOK
  <2>4. Unsent \cap Acked = {}
    BY DEF Unsent, Acked
  <2>5. ASSUME NEW x \in Orders PROVE /\ apiPc'[x] \in Unsent => x \notin buffer' /\ ~Logged(x)
                                      /\ apiPc'[x] \in Acked => Logged(x)
                                      /\ x \in buffer' => ~InLog(x)
    BY <1>2, <2>3, <2>4 DEF Advances, Sending, Logged
  <2> QED BY <1>2, <2>1, <2>2, <2>5 DEF Sending, Advances, TypeInv, TypeOK
<1>3. ASSUME NEW o \in Orders, NEW p \in Partitions, BrokerAppend(o, p) PROVE Sending'
  <2>1. \A x : (InLog(x)' <=> InLog(x) \/ x = o) /\ (Logged(x)' <=> Logged(x) \/ x = o)
    BY <1>3, AppendedInLog DEF BrokerAppend, Logged
  <2>2. o \in buffer /\ buffer' = buffer \ {o} /\ apiPc' = apiPc /\ ~InLog(o)
    BY <1>3 DEF BrokerAppend, api, Sending
  <2>3. PublishedOnce'
    <3> DEFINE n == Len(log[p])
    <3>1. /\ Len(log'[p]) = n + 1 /\ log'[p][n + 1] = o
          /\ \A i \in 1..n : log'[p][i] = log[p][i]
          /\ \A q \in Partitions : q # p => log'[q] = log[q]
      BY <1>3, AppendedLog
    <3>2. n \in Nat
      BY LenProperties DEF TypeInv, TypeOK
    <3>3. ASSUME NEW q \in Partitions, NEW i \in 1..Len(log'[q])
          PROVE  \/ q = p /\ i = n + 1 /\ log'[q][i] = o
                 \/ i \in 1..Len(log[q]) /\ log'[q][i] = log[q][i] /\ log'[q][i] # o
      <4>1. CASE q = p /\ i = n + 1
        BY <3>1, <4>1
      <4>2. CASE ~(q = p /\ i = n + 1)
        <5>1. i \in 1..Len(log[q]) /\ log'[q][i] = log[q][i]
          BY <3>1, <3>2, <4>2
        <5> QED BY <2>2, <5>1 DEF InLog
      <4> QED BY <4>1, <4>2
    <3> HIDE DEF n
    <3> QED BY <3>3 DEF PublishedOnce, Sending
  <2> QED BY <2>1, <2>2, <2>3 DEF Sending
<1> QED BY <1>0, <1>k, <1>1, <1>2, <1>3, SendingSteps

(***************************************************************************)
(* What a step does to the handling side.                                  *)
(***************************************************************************)
handling == <<log, committed, owner, wPc, wJob, wPart, executed>>

\* process_job runs for w's job, or it does not.
Runs(w) ==
  \/ executed' = executed
  \/ wPc[w] # "idle" /\ executed' = [executed EXCEPT ![wJob[w]] = @ + 1]

Moves(w, to) ==
  /\ wPc[w] # "idle"
  /\ wPc' = [wPc EXCEPT ![w] = to]
  /\ UNCHANGED <<wJob, wPart, owner, log, committed>>
  /\ Runs(w)
  /\ to \in AfterRun => wPc[w] \in AfterRun \/ executed' # executed

Dies(w) == Die(w) /\ Runs(w) /\ UNCHANGED <<log, committed>>

LEMMA HandlingSteps ==
  ASSUME TypeInv, [Next]_vars
  PROVE  \/ UNCHANGED handling
         \/ \E o \in Orders, p \in Partitions : BrokerAppend(o, p)
         \/ \E w \in Workers, p \in Partitions : Fetch(w, p) \/ Assign(w, p) \/ Evict(w, p)
         \/ \E w \in Workers : Commit(w) \/ Dies(w) \/ \E to \in WorkerPcs : Moves(w, to)
         \/ BrokerLoss
<1> DEFINE Goal ==
         \/ UNCHANGED handling
         \/ \E o \in Orders, p \in Partitions : BrokerAppend(o, p)
         \/ \E w \in Workers, p \in Partitions : Fetch(w, p) \/ Assign(w, p) \/ Evict(w, p)
         \/ \E w \in Workers : Commit(w) \/ Dies(w) \/ \E to \in WorkerPcs : Moves(w, to)
         \/ BrokerLoss
<1>1. ASSUME Client \/ RedisLoss \/ Waiting \/ UNCHANGED vars PROVE Goal
  BY <1>1 DEF Client, PlaceOrder, RetryOrder, RedisLoss, Waiting, vars, kafka, workers, handling
<1>2. ASSUME NEW o \in Orders, ApiStep(o) PROVE Goal
  BY <1>2 DEF ApiStep, SetRecord, PushRecent, TrimRecent, SendOrder, AckPublish, MarkFailedRead,
     MarkFailedWrite, LinkRead, LinkWrite, kafka, workers, handling
<1>3. ASSUME NEW o \in Orders, NEW lost \in BOOLEAN,
             SendRefused(o) \/ PublishFailed(o, lost) \/ ApiCrash(o, lost) PROVE Goal
  BY <1>3 DEF SendRefused, PublishFailed, ApiCrash, kafka, workers, handling
<1>4. ASSUME NEW w \in Workers, WorkerStep(w) PROVE Goal
  <2> USE DEF WorkerPcs, AfterRun, WorkerGoto, Runs
  <2>1. CASE CheckExists(w)
    <3> DEFINE to == IF Exists(store[wJob[w]]) THEN "runRead" ELSE "save"
    <3>1. Moves(w, to) /\ to \in WorkerPcs
      BY <2>1 DEF CheckExists, Moves, kafka
    <3> QED BY <3>1
  <2>2. CASE SaveJob(w)
    <3>1. Moves(w, "runRead")
      BY <2>2 DEF SaveJob, Moves, kafka
    <3> QED BY <3>1
  <2>3. CASE RunRead(w)
    <3>1. Moves(w, "runWrite") \/ Dies(w)
      BY <2>3 DEF RunRead, ReadInto, Moves, Dies
    <3> QED BY <3>1
  <2>4. CASE RunWrite(w)
    <3>1. Moves(w, "endRead")
      BY <2>4 DEF RunWrite, WriteBack, Moves, kafka
    <3> QED BY <3>1
  <2>5. CASE EndRead(w)
    <3>1. wPc[w] = "endRead" /\ wJob[w] \in Orders /\ executed \in [Orders -> Nat]
      BY <2>5 DEF EndRead, TypeInv, Targets, TypeOK
    <3>2. executed' = [executed EXCEPT ![wJob[w]] = @ + 1] /\ executed' # executed
      BY <2>5, <3>1 DEF EndRead
    <3>3. Moves(w, "endWrite") \/ Dies(w)
      BY <2>5, <3>1, <3>2 DEF EndRead, ReadInto, Moves, Dies
    <3> QED BY <3>3
  <2>6. CASE EndWrite(w)
    <3> DEFINE to == IF IsRecovery(wJob[w]) THEN "recRead" ELSE "commit"
    <3>1. Moves(w, to) /\ to \in WorkerPcs
      BY <2>6 DEF EndWrite, WriteBack, Moves, kafka
    <3> QED BY <3>1
  <2>7. CASE RecRead(w)
    <3>1. Moves(w, "recWrite") \/ Moves(w, "commit")
      BY <2>7 DEF RecRead, ReadInto, Moves
    <3> QED BY <3>1
  <2>8. CASE RecWrite(w)
    <3>1. Moves(w, "commit")
      BY <2>8 DEF RecWrite, WriteBack, Moves, kafka
    <3> QED BY <3>1
  <2>9. CASE CommitFails(w) \/ DrainExit(w)
    <3>1. Dies(w)
      BY <2>9 DEF CommitFails, DrainExit, Dies
    <3> QED BY <3>1
  <2> QED BY <1>4, <2>1, <2>2, <2>3, <2>4, <2>5, <2>6, <2>7, <2>8, <2>9 DEF WorkerStep
<1>5. ASSUME NEW w \in Workers, WorkerCrash(w) \/ Sigterm(w) PROVE Goal
  <2>1. CASE WorkerCrash(w)
    <3>1. Dies(w)
      BY <2>1 DEF WorkerCrash, Dies, Runs
    <3> QED BY <3>1
  <2>2. CASE Sigterm(w)
    BY <2>2 DEF Sigterm, kafka, handling
  <2> QED BY <1>5, <2>1, <2>2
<1>6. ASSUME \/ \E o \in Orders, p \in Partitions : BrokerAppend(o, p)
             \/ \E w \in Workers, p \in Partitions : Assign(w, p) \/ Evict(w, p)
             \/ BrokerLoss
      PROVE  Goal
  BY <1>6
<1> HIDE DEF Goal
<1>7. Goal
  BY <1>1, <1>2, <1>3, <1>4, <1>5, <1>6 DEF Next, Faults
<1> QED BY <1>7 DEF Goal

\* While the log stays, what a worker runs is in the log, and counts only grow.
LEMMA RunsCounts ==
  ASSUME TypeInv, Handling, NEW w \in Workers, Runs(w), log' = log,
         budget'.lost = budget.lost
  PROVE  /\ executed' \in [Orders -> Nat]
         /\ \A o \in Orders : executed'[o] >= executed[o]
         /\ \A o \in Orders : executed'[o] > 0 => Logged(o)'
         /\ committed' = committed => AtLeastOnce'
         /\ executed' # executed => executed'[wJob[w]] > 0
<1>1. executed \in [Orders -> Nat] /\ committed \in [Partitions -> Nat]
      /\ log \in [Partitions -> Seq(Orders)]
  BY DEF TypeInv, TypeOK
<1>2. wPc[w] # "idle" => wJob[w] \in Orders /\ Logged(wJob[w])
  BY DEF TypeInv, Targets, Handling
<1>3. \A o : Logged(o)' <=> Logged(o)
  BY DEF Logged, InLog
<1>r. executed' \in [Orders -> Nat]
  BY <1>1, <1>2 DEF Runs
<1>4. \A o \in Orders : executed'[o] >= executed[o]
  BY <1>1, <1>2 DEF Runs
<1>5. \A o \in Orders : executed'[o] > 0 => Logged(o)'
  BY <1>1, <1>2, <1>3 DEF Runs, Handling
<1>6. ASSUME committed' = committed PROVE AtLeastOnce'
  <2> SUFFICES ASSUME NEW p \in Partitions, NEW i \in 1..committed[p]
               PROVE  executed'[log[p][i]] > 0
    BY <1>6 DEF AtLeastOnce
  <2>1. executed[log[p][i]] > 0 /\ committed[p] <= Len(log[p])
    BY DEF Handling, AtLeastOnce
  <2>2. log[p][i] \in Orders
    <3>1. log[p] \in Seq(Orders) /\ i \in 1..Len(log[p])
      BY <1>1, <2>1, LenProperties
    <3> QED BY <3>1, ElementOfSeq
  <2>3. executed[log[p][i]] \in Nat /\ executed'[log[p][i]] \in Nat
    BY <1>1, <1>r, <2>2
  <2> QED BY <1>4, <2>1, <2>2, <2>3
<1>7. executed' # executed => executed'[wJob[w]] > 0
  BY <1>1, <1>2 DEF Runs
<1> QED BY <1>r, <1>4, <1>5, <1>6, <1>7

LEMMA HandlingKept ==
  ASSUME TypeInv, Sending, Handling, [Next]_vars, ~BrokerLoss
  PROVE  Handling'
<1>0. /\ executed \in [Orders -> Nat] /\ committed \in [Partitions -> Nat]
      /\ log \in [Partitions -> Seq(Orders)]
      /\ wPc \in [Workers -> WorkerPcs] /\ owner \in [Partitions -> Workers \cup {NoWorker}]
      /\ wJob \in [Workers -> Orders \cup {NoOrder}]
      /\ wPart \in [Workers -> Partitions \cup {NoPartition}]
      /\ \A w \in Workers : wPc[w] # "idle" => wJob[w] \in Orders /\ wPart[w] \in Partitions
  BY DEF TypeInv, TypeOK, Targets
<1>n. \A p \in Partitions : Len(log[p]) \in Nat /\ committed[p] \in Nat
  BY <1>0, LenProperties
<1>l. budget'.lost = budget.lost
  BY LostSteps
<1>1. CASE UNCHANGED handling
  BY <1>1, <1>l DEF handling, Handling, Holds, Logged, InLog, AtLeastOnce
<1>2. ASSUME NEW o \in Orders, NEW p \in Partitions, BrokerAppend(o, p) PROVE Handling'
  <2>1. \A x : Logged(x)' <=> Logged(x) \/ x = o
    BY <1>2, <1>l, AppendedInLog DEF Logged
  <2>2. UNCHANGED <<committed, owner, wPc, wJob, wPart, executed>>
    BY <1>2 DEF BrokerAppend, workers
  <2>3. \A q \in Partitions : /\ Len(log[q]) <= Len(log'[q])
                              /\ \A i \in 1..Len(log[q]) : log'[q][i] = log[q][i]
    BY <1>2, <1>n, AppendedLog
  <2>n. \A q \in Partitions : Len(log'[q]) \in Nat
    BY <1>2, <1>n, AppendedLog
  <2>4. \A q \in Partitions : committed[q] <= Len(log'[q])
    BY <1>n, <2>3, <2>n DEF Handling
  <2>5. ASSUME NEW w \in Workers PROVE Holds(w)'
    <3> SUFFICES ASSUME wPc[w] # "idle", owner[wPart[w]] = w
                 PROVE  /\ committed[wPart[w]] < Len(log'[wPart[w]])
                        /\ wJob[w] = log'[wPart[w]][committed[wPart[w]] + 1]
      BY <2>2 DEF Holds
    <3> DEFINE q == wPart[w]
    <3>1. q \in Partitions /\ committed[q] < Len(log[q]) /\ wJob[w] = log[q][committed[q] + 1]
      BY <1>0 DEF Handling, Holds
    <3>2. committed[q] + 1 \in 1..Len(log[q])
      BY <1>n, <3>1
    <3> HIDE DEF q
    <3>3. committed[q] < Len(log'[q]) /\ wJob[w] = log'[q][committed[q] + 1]
      BY <1>n, <2>3, <2>n, <3>1, <3>2
    <3> QED BY <3>3 DEF q
  <2>6. AtLeastOnce'
    <3> SUFFICES ASSUME NEW q \in Partitions, NEW i \in 1..committed[q]
                 PROVE  executed[log'[q][i]] > 0
      BY <2>2 DEF AtLeastOnce
    <3>1. i \in 1..Len(log[q])
      BY <1>n DEF Handling
    <3> QED BY <2>3, <3>1 DEF Handling, AtLeastOnce
  <2> QED BY <2>1, <2>2, <2>4, <2>5, <2>6 DEF Handling
<1>3. ASSUME NEW w \in Workers, NEW p \in Partitions, Fetch(w, p) PROVE Handling'
  <2>1. /\ UNCHANGED <<committed, owner, log, executed>>
        /\ wPc' = [wPc EXCEPT ![w] = "exists"]
        /\ wPart' = [wPart EXCEPT ![w] = p]
        /\ wJob' = [wJob EXCEPT ![w] = log[p][committed[p] + 1]]
        /\ committed[p] < Len(log[p])
    BY <1>3 DEF Fetch, WorkerGoto, kafka
  <2>2. \A x : Logged(x)' <=> Logged(x)
    BY <1>l, <2>1 DEF Logged, InLog
  <2>3. Logged(log[p][committed[p] + 1])
    <3>1. committed[p] + 1 \in 1..Len(log[p])
      BY <1>n, <2>1
    <3> QED BY <3>1 DEF Logged, InLog
  <2>4. ASSUME NEW v \in Workers
        PROVE  /\ Holds(v)'
               /\ wPc'[v] # "idle" => Logged(wJob'[v])
               /\ wPc'[v] \in AfterRun => executed'[wJob'[v]] > 0
    <3>1. CASE v = w
      BY <1>0, <2>1, <2>3, <3>1 DEF Holds, AfterRun
    <3>2. CASE v # w
      BY <1>0, <2>1, <3>2 DEF Holds, Handling
    <3> QED BY <3>1, <3>2
  <2>5. AtLeastOnce' /\ \A q \in Partitions : committed'[q] <= Len(log'[q])
    BY <2>1 DEF AtLeastOnce, Handling
  <2> QED BY <2>1, <2>2, <2>4, <2>5 DEF Handling
<1>4. ASSUME NEW w \in Workers, NEW p \in Partitions, Assign(w, p) \/ Evict(w, p)
      PROVE  Handling'
  <2>1. UNCHANGED <<committed, log, executed, wPc, wJob, wPart>>
    BY <1>4 DEF Assign, Evict, workers
  <2>2. /\ owner' = [owner EXCEPT ![p] = w] /\ wPc[w] = "idle"
        \/ owner' = [owner EXCEPT ![p] = NoWorker]
    BY <1>4 DEF Assign, Evict
  <2>3. ASSUME NEW v \in Workers PROVE Holds(v)'
    BY <1>0, <2>1, <2>2, PipelineAssumption DEF Holds, Handling
  <2>4. AtLeastOnce' /\ \A x : Logged(x)' <=> Logged(x)
    BY <1>l, <2>1 DEF AtLeastOnce, Handling, Logged, InLog
  <2> QED BY <2>1, <2>3, <2>4 DEF Handling
<1>5. ASSUME NEW w \in Workers, Commit(w) PROVE Handling'
  <2> DEFINE p == wPart[w]
  <2>1. /\ UNCHANGED <<log, owner, executed>>
        /\ wPc[w] = "commit" /\ wPc' = [wPc EXCEPT ![w] = "idle"]
        /\ wJob' = [wJob EXCEPT ![w] = NoOrder] /\ wPart' = [wPart EXCEPT ![w] = NoPartition]
        /\ owner[p] = w /\ committed' = [committed EXCEPT ![p] = @ + 1]
    BY <1>5 DEF Commit, WorkerGoto
  <2>2. /\ p \in Partitions /\ committed[p] < Len(log[p])
        /\ wJob[w] = log[p][committed[p] + 1] /\ executed[wJob[w]] > 0
    BY <1>0, <2>1 DEF Handling, Holds, AfterRun
  <2>3. /\ committed'[p] = committed[p] + 1
        /\ \A q \in Partitions : q # p => committed'[q] = committed[q]
    BY <1>0, <2>1, <2>2
  <2>4. \A q \in Partitions : committed'[q] <= Len(log[q])
    BY <1>n, <2>2, <2>3 DEF Handling
  <2>5. ASSUME NEW v \in Workers
        PROVE  /\ Holds(v)'
               /\ wPc'[v] # "idle" => Logged(wJob'[v])
               /\ wPc'[v] \in AfterRun => executed'[wJob'[v]] > 0
    <3>1. CASE v = w
      BY <1>0, <2>1, <3>1 DEF Holds, AfterRun
    <3>2. CASE v # w
      <4>1. wPc'[v] = wPc[v] /\ wJob'[v] = wJob[v] /\ wPart'[v] = wPart[v]
        BY <1>0, <2>1, <3>2
      <4>2. wPc[v] # "idle" /\ owner[wPart[v]] = v => wPart[v] # p /\ wPart[v] \in Partitions
        BY <1>0, <2>1, <3>2
      <4>3. Holds(v)'
        BY <2>1, <2>3, <4>1, <4>2 DEF Holds, Handling
      <4> QED BY <2>1, <4>1, <4>3 DEF Handling
    <3> QED BY <3>1, <3>2
  <2>6. AtLeastOnce'
    <3> SUFFICES ASSUME NEW q \in Partitions, NEW i \in 1..committed'[q]
                 PROVE  executed[log[q][i]] > 0
      BY <2>1 DEF AtLeastOnce
    <3>1. CASE q = p /\ i = committed[p] + 1
      BY <2>2, <3>1
    <3>2. CASE ~(q = p /\ i = committed[p] + 1)
      <4>1. i \in 1..committed[q]
        BY <1>n, <2>2, <2>3, <3>2
      <4> QED BY <4>1 DEF Handling, AtLeastOnce
    <3> QED BY <3>1, <3>2
  <2>7. \A x : Logged(x)' <=> Logged(x)
    BY <1>l, <2>1 DEF Logged, InLog
  <2> HIDE DEF p
  <2> QED BY <2>1, <2>4, <2>5, <2>6, <2>7 DEF Handling
<1>6. ASSUME NEW w \in Workers, Dies(w) PROVE Handling'
  <2>1. /\ UNCHANGED <<log, committed>> /\ Runs(w)
        /\ wPc' = [wPc EXCEPT ![w] = "idle"]
        /\ wJob' = [wJob EXCEPT ![w] = NoOrder] /\ wPart' = [wPart EXCEPT ![w] = NoPartition]
        /\ owner' = [q \in Partitions |-> IF owner[q] = w THEN NoWorker ELSE owner[q]]
    BY <1>6 DEF Dies, Die
  <2>2. /\ executed' \in [Orders -> Nat]
        /\ \A o \in Orders : executed'[o] >= executed[o]
        /\ \A o \in Orders : executed'[o] > 0 => Logged(o)'
        /\ AtLeastOnce'
    BY <1>l, <2>1, RunsCounts DEF Handling
  <2>3. ASSUME NEW v \in Workers
        PROVE  /\ Holds(v)'
               /\ wPc'[v] # "idle" => Logged(wJob[v])'
               /\ wPc'[v] \in AfterRun => executed'[wJob'[v]] > 0
    <3>1. CASE v = w
      BY <1>0, <2>1, <3>1 DEF Holds, AfterRun
    <3>2. CASE v # w
      <4>1. wPc'[v] = wPc[v] /\ wJob'[v] = wJob[v] /\ wPart'[v] = wPart[v]
        BY <1>0, <2>1, <3>2
      <4>2. wPc[v] # "idle" /\ owner'[wPart[v]] = v => owner[wPart[v]] = v
        BY <1>0, <2>1, PipelineAssumption
      <4>3. Holds(v)'
        BY <2>1, <4>1, <4>2 DEF Holds, Handling
      <4>4. wPc[v] \in AfterRun => executed'[wJob[v]] > 0
        <5>1. ASSUME wPc[v] \in AfterRun PROVE executed'[wJob[v]] > 0
          <6>1. wJob[v] \in Orders /\ executed[wJob[v]] > 0
            BY <1>0, <5>1 DEF Handling, AfterRun
          <6>2. executed'[wJob[v]] \in Nat
            BY <2>2, <6>1
          <6> QED BY <1>0, <2>2, <6>1, <6>2
        <5> QED BY <5>1
      <4>5. wPc[v] # "idle" => Logged(wJob[v])'
        BY <1>l, <2>1, <4>1 DEF Handling, Logged, InLog
      <4> QED BY <4>1, <4>3, <4>4, <4>5
    <3> QED BY <3>1, <3>2
  <2> QED BY <2>1, <2>2, <2>3 DEF Handling
<1>7. ASSUME NEW w \in Workers, NEW to \in WorkerPcs, Moves(w, to) PROVE Handling'
  <2>1. /\ UNCHANGED <<log, committed, wJob, wPart, owner>> /\ Runs(w) /\ wPc[w] # "idle"
        /\ wPc' = [wPc EXCEPT ![w] = to]
        /\ to \in AfterRun => wPc[w] \in AfterRun \/ executed' # executed
    BY <1>7 DEF Moves
  <2>2. /\ executed' \in [Orders -> Nat]
        /\ \A o \in Orders : executed'[o] >= executed[o]
        /\ \A o \in Orders : executed'[o] > 0 => Logged(o)'
        /\ AtLeastOnce'
        /\ executed' # executed => executed'[wJob[w]] > 0
    BY <1>l, <2>1, RunsCounts DEF Handling
  <2>3. ASSUME NEW v \in Workers
        PROVE  /\ Holds(v)'
               /\ wPc'[v] # "idle" => Logged(wJob[v])'
               /\ wPc'[v] \in AfterRun => executed'[wJob'[v]] > 0
    <3>1. wPc'[v] # "idle" => wPc[v] # "idle"
      BY <1>0, <2>1
    <3>2. Holds(v)' /\ (wPc'[v] # "idle" => Logged(wJob[v])')
      BY <1>l, <2>1, <3>1 DEF Holds, Handling, Logged, InLog
    <3>3. wPc[v] \in AfterRun => executed'[wJob[v]] > 0
      <4>1. ASSUME wPc[v] \in AfterRun PROVE executed'[wJob[v]] > 0
        <5>1. wJob[v] \in Orders /\ executed[wJob[v]] > 0
          BY <1>0, <4>1 DEF Handling, AfterRun
        <5>2. executed'[wJob[v]] \in Nat
          BY <2>2, <5>1
        <5> QED BY <1>0, <2>2, <5>1, <5>2
      <4> QED BY <4>1
    <3>4. wPc'[v] \in AfterRun => wPc[v] \in AfterRun \/ executed'[wJob[v]] > 0
      BY <1>0, <2>1, <2>2
    <3> QED BY <2>1, <3>2, <3>3, <3>4
  <2> QED BY <2>1, <2>2, <2>3 DEF Handling
<1> QED BY <1>1, <1>2, <1>3, <1>4, <1>5, <1>6, <1>7, HandlingSteps

LEMMA HandlingInv ==
  ASSUME TypeInv, Sending, Handling, [Next]_vars
  PROVE  Handling'
<1>1. CASE BrokerLoss
  <2>1. /\ \A p \in Partitions : Len(log'[p]) = 0 /\ committed'[p] = 0 /\ owner'[p] = NoWorker
        /\ \A x \in Orders : Logged(x)' <=> Logged(x)
        /\ UNCHANGED <<wPc, wJob, wPart, executed>>
    BY <1>1, LossEmpties DEF workers
  <2>2. \A w \in Workers : wPc[w] # "idle" => wJob[w] \in Orders /\ wPart[w] \in Partitions
    BY DEF TypeInv, Targets
  <2>3. \A w \in Workers : Holds(w)'
    BY <2>1, <2>2, PipelineAssumption DEF Holds
  <2>4. AtLeastOnce'
    BY <2>1 DEF AtLeastOnce
  <2> QED BY <2>1, <2>2, <2>3, <2>4 DEF Handling
<1> QED BY <1>1, HandlingKept

(***************************************************************************)
(* The invariant, and what follows from it.                                *)
(***************************************************************************)
LEMMA InitQueueInv == Init => QueueInv
<1> SUFFICES ASSUME Init PROVE QueueInv
  OBVIOUS
<1>1. /\ buffer = {} /\ \A o \in Orders : apiPc[o] = "unused" /\ executed[o] = 0
      /\ \A p \in Partitions : log[p] = <<>> /\ committed[p] = 0
      /\ \A w \in Workers : wPc[w] = "idle"
  BY DEF Init
<1>0. \A p \in Partitions : Len(log[p]) = 0
  BY <1>1
<1>b. budget.lost = {}
  BY DEF Init
<1>2. \A o : ~InLog(o) /\ ~Logged(o)
  BY <1>0, <1>b DEF InLog, Logged
<1>3. PublishedOnce /\ AtLeastOnce
  BY <1>0, <1>1 DEF PublishedOnce, AtLeastOnce
<1>4. Sending
  BY <1>1, <1>2, <1>3 DEF Sending, Acked
<1>5. Handling
  BY <1>1, <1>3 DEF Handling, Holds, AfterRun
<1> QED BY <1>4, <1>5, InitTypeInv DEF QueueInv

LEMMA NextQueueInv == QueueInv /\ [Next]_vars => QueueInv'
BY NextTypeInv, SendingInv, HandlingInv DEF QueueInv

LEMMA QueueInvariance == Spec => []QueueInv
BY InitQueueInv, NextQueueInv, PTL DEF Spec

\* At least once: no offset is committed before process_job has run for the
\* order, whatever is crashed, evicted or stopped, for any number of faults.
THEOREM JobsRunBeforeCommit == Spec => []AtLeastOnce
<1>1. QueueInv => AtLeastOnce
  BY DEF QueueInv, Handling
<1> QED BY <1>1, QueueInvariance, PTL

\* The producer's record is in the topic once, however the request ended.
THEOREM OrdersArePublishedOnce == Spec => []PublishedOnce
<1>1. QueueInv => PublishedOnce
  BY DEF QueueInv, Sending
<1> QED BY <1>1, QueueInvariance, PTL

LEMMA AcceptedNotLostHolds == QueueInv => AcceptedNotLost
<1> SUFFICES ASSUME QueueInv, NEW o \in Orders, apiPc[o] = "accepted", ~(executed[o] > 0),
                    o \notin budget.lost
             PROVE  \E p \in Partitions :
                      \E i \in (committed[p] + 1)..Len(log[p]) : log[p][i] = o
  BY DEF AcceptedNotLost
<1>1. PICK p \in Partitions : \E i \in 1..Len(log[p]) : log[p][i] = o
  BY DEF QueueInv, Sending, Acked, Logged, InLog
<1>2. PICK i \in 1..Len(log[p]) : log[p][i] = o
  BY <1>1
<1>3. i \notin 1..committed[p]
  BY <1>2 DEF QueueInv, Handling, AtLeastOnce
<1>4. committed[p] \in Nat /\ Len(log[p]) \in Nat
  BY LenProperties DEF QueueInv, TypeInv, TypeOK
<1>5. i \in (committed[p] + 1)..Len(log[p])
  BY <1>3, <1>4
<1> QED BY <1>2, <1>5

\* An order that was accepted with a 2xx answer has been processed or lies behind
\* the committed offset, to be delivered, unless the broker lost its record.
THEOREM NoAcceptedOrderIsLost == Spec => []AcceptedNotLost
BY AcceptedNotLostHolds, QueueInvariance, PTL

(***************************************************************************)
(* The pipeline implements the abstract queue, apart from its liveness.    *)
(***************************************************************************)
LEMMA InitRefines == Init => Queue!Init
<1> SUFFICES ASSUME Init PROVE Queue!Init
  OBVIOUS
<1>1. QueueInv
  BY InitQueueInv
<1>2. /\ \A o \in Orders : apiPc[o] = "unused" /\ executed[o] = 0
      /\ \A p \in Partitions : committed[p] = 0
  BY DEF Init
<1>3. \A o \in Orders : ~Logged(o)
  BY <1>1, <1>2 DEF QueueInv, Sending, Unsent
<1>4. CommittedOrders = {}
  BY <1>2 DEF CommittedOrders
<1> QED BY <1>2, <1>3, <1>4 DEF Queue!Init

\* What is committed stays so while the broker has its log, and only a commit adds
\* to it, the job of its worker.
LEMMA CommittedSteps ==
  ASSUME QueueInv, [Next]_vars
  PROVE  /\ \/ CommittedOrders' = CommittedOrders
            \/ \E w \in Workers : Commit(w)
            \/ BrokerLoss /\ CommittedOrders' = {}
         /\ \A w \in Workers :
              Commit(w) => /\ wJob[w] \in Orders /\ executed[wJob[w]] > 0
                           /\ CommittedOrders' = CommittedOrders \cup {wJob[w]}
<1>0. /\ TypeInv /\ Handling
      /\ committed \in [Partitions -> Nat] /\ log \in [Partitions -> Seq(Orders)]
      /\ \A w \in Workers : wPc[w] # "idle" => wJob[w] \in Orders /\ wPart[w] \in Partitions
  BY DEF QueueInv, TypeInv, TypeOK, Targets
<1>l. \A p \in Partitions : Len(log[p]) \in Nat
  BY <1>0, LenProperties
<1>1. ASSUME UNCHANGED <<committed, log>> PROVE CommittedOrders' = CommittedOrders
  BY <1>1 DEF CommittedOrders
<1>2. ASSUME NEW o \in Orders, NEW p \in Partitions, BrokerAppend(o, p)
      PROVE  CommittedOrders' = CommittedOrders
  <2>1. \A q \in Partitions : \A i \in 1..committed[q] : log'[q][i] = log[q][i]
    <3> TAKE q \in Partitions
    <3> TAKE i \in 1..committed[q]
    <3>1. i \in 1..Len(log[q])
      BY <1>0, <1>l DEF Handling
    <3> QED BY <1>0, <1>2, <3>1, AppendedLog
  <2>2. committed' = committed
    BY <1>2 DEF BrokerAppend
  <2> QED BY <2>1, <2>2 DEF CommittedOrders
<1>3. ASSUME NEW w \in Workers, Commit(w)
      PROVE  /\ wJob[w] \in Orders /\ executed[wJob[w]] > 0
             /\ CommittedOrders' = CommittedOrders \cup {wJob[w]}
  <2> DEFINE p == wPart[w]
  <2>1. /\ p \in Partitions /\ log' = log
        /\ committed' = [committed EXCEPT ![p] = @ + 1]
        /\ wJob[w] = log[p][committed[p] + 1]
        /\ wJob[w] \in Orders /\ executed[wJob[w]] > 0
    BY <1>0, <1>3 DEF Commit, WorkerGoto, Handling, Holds, AfterRun
  <2>2. \A q \in Partitions : committed[q] \in Nat /\ committed'[q] \in Nat
    BY <1>0, <2>1
  <2>3. \A q \in Partitions : \A i \in 1..committed'[q] :
          i \in 1..committed[q] \/ (q = p /\ i = committed[p] + 1)
    BY <1>0, <2>1, <2>2
  <2>4. \A q \in Partitions : \A i \in 1..committed[q] : i \in 1..committed'[q]
    BY <1>0, <2>1, <2>2
  <2>5. committed[p] + 1 \in 1..committed'[p]
    BY <1>0, <2>1
  <2> HIDE DEF p
  <2> QED BY <2>1, <2>3, <2>4, <2>5 DEF CommittedOrders
<1>4. \/ UNCHANGED <<committed, log>>
      \/ \E o \in Orders, p \in Partitions : BrokerAppend(o, p)
      \/ \E w \in Workers : Commit(w)
      \/ BrokerLoss
  BY <1>0, HandlingSteps DEF handling, Fetch, Assign, Evict, Moves, Dies, kafka
<1>5. BrokerLoss => CommittedOrders' = {}
  BY <1>0, LossEmpties DEF CommittedOrders
<1> QED BY <1>1, <1>2, <1>3, <1>4, <1>5

\* Two states with the same four sets are the same to the abstract queue, and
\* a step that adds one order to one of them is a step of the queue.
LEMMA KeptRefines ==
  ASSUME QueueInv, [Next]_vars, ~BrokerLoss
  PROVE  [Queue!Next]_(Queue!vars)
<1> DEFINE pub == {o \in Orders : Logged(o)}
           acc == {o \in Orders : apiPc[o] = "accepted"}
           han == {o \in Orders : executed[o] > 0}
<1>0. /\ TypeInv /\ Sending /\ Handling
      /\ apiPc \in [Orders -> ApiPcs] /\ executed \in [Orders -> Nat]
      /\ committed \in [Partitions -> Nat] /\ log \in [Partitions -> Seq(Orders)]
      /\ \A w \in Workers : wPc[w] # "idle" => wJob[w] \in Orders /\ wPart[w] \in Partitions
  BY DEF QueueInv, TypeInv, TypeOK, Targets
<1>l. \A p \in Partitions : Len(log[p]) \in Nat
  BY <1>0, LenProperties
<1>b. budget'.lost = budget.lost
  BY <1>0, LostSteps
<1>1. ASSUME NEW o \in Orders, NEW to \in ApiPcs, Advances(o, to)
      PROVE  [Queue!Next]_(Queue!vars)
  <2>1. pub' = pub /\ han' = han /\ CommittedOrders' = CommittedOrders
    BY <1>b, <1>1 DEF Advances, Logged, InLog, CommittedOrders
  <2>2. acc' = acc \/ (acc' = acc \cup {o} /\ Logged(o))
    BY <1>0, <1>1 DEF Advances, ApiDone, Acked, Sending
  <2> QED BY <2>1, <2>2 DEF Queue!Next, Queue!vars, Queue!Accept
<1>2. ASSUME NEW o \in Orders, NEW p \in Partitions, BrokerAppend(o, p)
      PROVE  Queue!Publish(o) \/ UNCHANGED Queue!vars
  <2>1. \A x : Logged(x)' <=> Logged(x) \/ x = o
    BY <1>0, <1>2, <1>b, AppendedInLog DEF Logged
  <2>2. pub' = pub \cup {o} /\ (o \notin pub \/ pub' = pub)
    BY <2>1
  <2>3. acc' = acc /\ han' = han
    BY <1>2 DEF BrokerAppend, api
  <2>4. CommittedOrders' = CommittedOrders
    <3>1. \A w \in Workers : ~Commit(w)
      BY <1>0, <1>2, <1>l, AppendedLog DEF Commit
    <3> QED BY <3>1, CommittedSteps
  <2> QED BY <2>2, <2>3, <2>4 DEF Queue!Publish, Queue!vars
<1>3. ASSUME UNCHANGED <<apiPc, buffer, log>>, NEW w \in Workers, Runs(w), committed' = committed
      PROVE  [Queue!Next]_(Queue!vars)
  <2>1. pub' = pub /\ acc' = acc /\ CommittedOrders' = CommittedOrders
    BY <1>b, <1>3 DEF Logged, InLog, CommittedOrders
  <2>2. han' = han \/ (wJob[w] \in Orders /\ Logged(wJob[w]) /\ han' = han \cup {wJob[w]})
    BY <1>0, <1>3 DEF Runs, Handling
  <2> QED BY <2>1, <2>2 DEF Queue!Next, Queue!vars, Queue!Handle
<1>4. ASSUME UNCHANGED <<apiPc, buffer, log>>, NEW w \in Workers, Commit(w)
      PROVE  Queue!Settle(wJob[w])
  <2>1. pub' = pub /\ acc' = acc /\ han' = han
    BY <1>b, <1>4 DEF Commit, Logged, InLog
  <2>2. /\ wJob[w] \in han
        /\ CommittedOrders' = CommittedOrders \cup {wJob[w]}
    BY <1>4, CommittedSteps
  <2> QED BY <2>1, <2>2 DEF Queue!Settle
<1>5. ASSUME UNCHANGED <<apiPc, buffer, log>>, UNCHANGED <<committed, executed>>
      PROVE  UNCHANGED Queue!vars
  BY <1>b, <1>5 DEF Queue!vars, Logged, InLog, CommittedOrders
<1>6. CASE UNCHANGED <<apiPc, buffer, log>>
  <2>1. UNCHANGED handling => UNCHANGED <<committed, executed>>
    BY DEF handling
  <2>2. ASSUME NEW w \in Workers, NEW p \in Partitions, Fetch(w, p) \/ Assign(w, p) \/ Evict(w, p)
        PROVE  UNCHANGED <<committed, executed>>
    BY <2>2 DEF Fetch, Assign, Evict, kafka
  <2>3. ASSUME NEW w \in Workers, NEW to \in WorkerPcs, Moves(w, to) \/ Dies(w)
        PROVE  Runs(w) /\ committed' = committed
    BY <2>3 DEF Moves, Dies
  <2>4. ASSUME NEW w \in Workers, Commit(w) PROVE Queue!Next
    <3>1. wJob[w] \in Orders
      BY <1>0, <2>4 DEF Commit, WorkerGoto
    <3> QED BY <1>4, <1>6, <2>4, <3>1 DEF Queue!Next
  <2>5. ASSUME NEW o \in Orders, NEW p \in Partitions, BrokerAppend(o, p)
        PROVE  [Queue!Next]_(Queue!vars)
    BY <1>2, <2>5 DEF Queue!Next
  <2>6. CASE UNCHANGED <<committed, executed>>
    BY <1>5, <1>6, <2>6
  <2>7. ASSUME NEW w \in Workers, NEW to \in WorkerPcs, Moves(w, to) \/ Dies(w)
        PROVE  [Queue!Next]_(Queue!vars)
    BY <1>3, <1>6, <2>3, <2>7
  <2>8. WorkerPcs # {}
    BY DEF WorkerPcs
  <2> QED BY <1>0, <2>1, <2>2, <2>4, <2>5, <2>6, <2>7, <2>8, HandlingSteps
<1> QED BY <1>0, <1>1, <1>2, <1>6, SendingSteps DEF Queue!Next

LEMMA StepRefines ==
  ASSUME QueueInv, [Next]_vars
  PROVE  [Queue!Next]_(Queue!vars)
<1>1. CASE BrokerLoss
  <2>1. /\ \A o \in Orders : Logged(o)' <=> Logged(o)
        /\ UNCHANGED <<apiPc, executed>>
    BY <1>1, LossEmpties DEF QueueInv, api
  <2>2. CommittedOrders' = {}
    <3>1. \A p \in Partitions : committed'[p] = 0
      BY <1>1, LossEmpties DEF QueueInv
    <3> QED BY <3>1 DEF CommittedOrders
  <2>3. Queue!Forget
    BY <2>1, <2>2 DEF Queue!Forget
  <2> QED BY <2>3 DEF Queue!Next
<1> QED BY <1>1, KeptRefines

\* The pipeline is an at-least-once queue: what its steps do to the published,
\* accepted, handled and committed orders are steps of AtLeastOnceQueue, where the
\* broker's loss is the queue's Forget.
THEOREM ImplementsQueue == Spec => Queue!Init /\ [][Queue!Next]_(Queue!vars)
BY InitRefines, StepRefines, QueueInvariance, PTL DEF Spec
===============================================================================
