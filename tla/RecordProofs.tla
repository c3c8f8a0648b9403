------------------------------ MODULE RecordProofs ------------------------------
(***************************************************************************)
(* What the store says of an order is true, although records are           *)
(* overwritten with copies that were read earlier: every copy is true of   *)
(* the order it is going to be written to, and what is true stays true.    *)
(***************************************************************************)
EXTENDS PipelineProofs

(***************************************************************************)
(* The inductive invariant.  True(o, rec) collects, for one record, what   *)
(* StatusJustified, LinkPublished and RecordConsistent say of the store;   *)
(* Truth says it of the store and of every copy about to be written.       *)
(***************************************************************************)
Consistent(rec) ==
  /\ rec.status = "completed" => rec.result /\ ~rec.error
  /\ rec.status = "failed" => rec.error
  /\ rec.status \in {"queued", "running"} => ~rec.result /\ ~rec.error

LinkTrue(o, rec) ==
  /\ rec.recoveryJob # NoOrder =>
       job[rec.recoveryJob].retryOf = o /\ Logged(rec.recoveryJob)
  /\ rec.recoveryStatus = "completed" => rec.recoveryJob # NoOrder

True(o, rec) == ClaimsTrue(o, rec) /\ LinkTrue(o, rec) /\ Consistent(rec)

CopyTrue(o) ==
  /\ apiPc[o] = "markWrite" => True(o, apiSnap[o])
  /\ apiPc[o] = "linkWrite" => True(job[o].retryOf, apiSnap[o])

WorkerCopyTrue(w) ==
  /\ wPc[w] \in {"runWrite", "endWrite"} => True(wJob[w], wSnap[w])
  /\ wPc[w] = "recWrite" => True(job[wJob[w]].retryOf, wSnap[w])

Truth ==
  /\ \A o \in Orders : True(o, store[o]) /\ CopyTrue(o)
  /\ \A w \in Workers : WorkerCopyTrue(w)

RecordInv == QueueInv /\ Truth

(***************************************************************************)
(* A job that was logged is never rebuilt and a rejected request stays     *)
(* rejected, so what was true of a record stays true.                      *)
(***************************************************************************)
LEMMA JobSteps ==
  ASSUME [Next]_vars
  PROVE  \/ job' = job
         \/ \E o \in Orders : /\ apiPc[o] = "unused"
                              /\ apiPc' = [apiPc EXCEPT ![o] = "set"]
                              /\ \E j : job' = [job EXCEPT ![o] = j]
                              /\ UNCHANGED <<store, apiSnap, wPc, wJob, wSnap>>
<1>1. ASSUME NEW o \in Orders, NEW ff \in BOOLEAN, PlaceOrder(o, ff)
      PROVE  /\ apiPc[o] = "unused" /\ apiPc' = [apiPc EXCEPT ![o] = "set"]
             /\ \E j : job' = [job EXCEPT ![o] = j]
             /\ UNCHANGED <<store, apiSnap, wPc, wJob, wSnap>>
  BY <1>1 DEF PlaceOrder, ApiGoto, redis, workers
<1>2. ASSUME NEW o \in Orders, NEW f \in Orders, RetryOrder(o, f)
      PROVE  /\ apiPc[o] = "unused" /\ apiPc' = [apiPc EXCEPT ![o] = "set"]
             /\ \E j : job' = [job EXCEPT ![o] = j]
             /\ UNCHANGED <<store, apiSnap, wPc, wJob, wSnap>>
  BY <1>2 DEF RetryOrder, ApiGoto, redis, workers
<1>3. ASSUME NEW o \in Orders, ApiStep(o) PROVE job' = job
  BY <1>3 DEF ApiStep, SetRecord, PushRecent, TrimRecent, SendOrder, AckPublish,
     MarkFailedRead, MarkFailedWrite, LinkRead, LinkWrite
<1>4. ASSUME NEW w \in Workers, WorkerStep(w) PROVE job' = job
  BY <1>4 DEF WorkerStep, Fetch, CheckExists, SaveJob, RunRead, RunWrite, EndRead, EndWrite,
     RecRead, RecWrite, Commit, CommitFails, DrainExit, WriteBack, api
<1>5. ASSUME Faults PROVE job' = job
  BY <1>5 DEF Faults, SendRefused, PublishFailed, ApiCrash, WorkerCrash, Sigterm, Evict,
     RedisLoss, BrokerLoss, api
<1>6. ASSUME \/ \E o \in Orders, p \in Partitions : BrokerAppend(o, p)
             \/ \E w \in Workers, p \in Partitions : Assign(w, p)
             \/ Waiting \/ UNCHANGED vars
      PROVE  job' = job
  BY <1>6 DEF BrokerAppend, Assign, Waiting, vars, api
<1> QED BY <1>1, <1>2, <1>3, <1>4, <1>5, <1>6 DEF Next, Client

LEMMA JobStays ==
  ASSUME QueueInv, [Next]_vars, NEW r \in Orders, Logged(r)
  PROVE  /\ Logged(r)' /\ job'[r] = job[r]
         /\ executed[r] > 0 => executed'[r] > 0
<1>0. TypeInv /\ Sending /\ Handling /\ job \in [Orders -> Jobs]
      /\ executed \in [Orders -> Nat] /\ QueueInv'
  BY NextQueueInv DEF QueueInv, TypeInv, TypeOK
<1>1. job'[r] = job[r]
  BY <1>0, JobSteps DEF Sending, Unsent
<1>2. Logged(r)'
  BY <1>0, LoggedStays
<1>3. executed[r] > 0 => executed'[r] > 0
  <2>1. ASSUME NEW w \in Workers, Runs(w) PROVE executed'[r] >= executed[r]
    <3>1. wPc[w] # "idle" => wJob[w] \in Orders
      BY <1>0 DEF TypeInv, Targets
    <3> QED BY <1>0, <2>1, <3>1 DEF Runs
  <2>2. executed' = executed \/ \E w \in Workers : Runs(w)
    BY <1>0, HandlingSteps
    DEF handling, BrokerAppend, Fetch, Assign, Evict, Commit, Moves, Dies, BrokerLoss
  <2>3. executed'[r] \in Nat
    BY <1>0 DEF QueueInv, TypeInv, TypeOK
  <2> QED BY <1>0, <2>1, <2>2, <2>3
<1> QED BY <1>1, <1>2, <1>3

LEMMA RejectedStays ==
  ASSUME QueueInv, [Next]_vars, NEW o \in Orders, apiPc[o] = "rejected"
  PROVE  apiPc'[o] = "rejected"
<1>1. TypeInv /\ apiPc \in [Orders -> ApiPcs]
  BY DEF QueueInv, TypeInv, TypeOK
<1>2. ASSUME NEW x \in Orders, NEW p \in Partitions, BrokerAppend(x, p) PROVE apiPc' = apiPc
  BY <1>2 DEF BrokerAppend, api
<1>3. ASSUME NEW x \in Orders, NEW to \in ApiPcs, Advances(x, to) PROVE apiPc'[o] = apiPc[o]
  BY <1>1, <1>3 DEF Advances, ApiDone
<1>4. BrokerLoss => apiPc' = apiPc
  BY DEF BrokerLoss, api
<1> QED BY <1>1, <1>2, <1>3, <1>4, SendingSteps

LEMMA TrueStays ==
  ASSUME QueueInv, [Next]_vars, NEW o \in Orders, NEW rec \in Records, True(o, rec)
  PROVE  True(o, rec)'
<1>1. \A r \in Orders : executed[r] > 0 => Logged(r)
  BY DEF QueueInv, Handling
<1>2. rec.recoveryJob \in Orders \cup {NoOrder}
  BY DEF Records
<1>3. \A r \in Orders : Logged(r) => /\ Logged(r)' /\ job'[r] = job[r]
                                     /\ executed[r] > 0 => executed'[r] > 0
  BY JobStays
<1>4. apiPc[o] = "rejected" => apiPc'[o] = "rejected"
  BY RejectedStays
<1>5. \A r \in Orders : executed[r] > 0 => executed'[r] > 0 /\ job'[r] = job[r]
  BY <1>1, <1>3
<1>6. ClaimsTrue(o, rec)'
  <2>1. rec.status = "recovered" =>
          (\E r \in Orders : job[r].retryOf = o /\ executed[r] > 0)'
    BY <1>5 DEF True, ClaimsTrue
  <2>2. rec.recoveryStatus = "completed" =>
          (job[rec.recoveryJob].retryOf = o /\ executed[rec.recoveryJob] > 0)'
    BY <1>2, <1>5 DEF True, ClaimsTrue, LinkTrue
  <2> QED BY <1>4, <1>5, <2>1, <2>2 DEF True, ClaimsTrue
<1>7. LinkTrue(o, rec)'
  BY <1>2, <1>3 DEF True, LinkTrue
<1> QED BY <1>6, <1>7 DEF True, Consistent

(***************************************************************************)
(* What each writer makes of a true copy is true.                          *)
(***************************************************************************)
LEMMA TrueWrites ==
  ASSUME QueueInv, NEW o \in Orders, NEW rec \in Records
  PROVE  /\ True(o, Absent) /\ True(o, NewRecord)
         /\ True(o, rec) /\ apiPc[o] = "rejected" => True(o, MarkedFailed(rec))
         /\ True(o, rec) => True(o, Updated(rec, "running", FALSE, FALSE))
         /\ True(o, rec) /\ executed[o] > 0 /\ job[o].forceFail =>
              True(o, Updated(rec, "failed", FALSE, TRUE))
         /\ True(o, rec) /\ executed[o] > 0 /\ ~job[o].forceFail =>
              True(o, Updated(rec, "completed", TRUE, FALSE))
         /\ \A r \in Orders : True(o, rec) /\ job[r].retryOf = o /\ Logged(r) =>
              True(o, Linked(rec, r))
         /\ \A r \in Orders : True(o, rec) /\ job[r].retryOf = o /\ executed[r] > 0 =>
              True(o, MarkedRecovered(rec, r))
<1> USE DEF True, ClaimsTrue, LinkTrue, Consistent, Records
<1>1. True(o, Absent) /\ True(o, NewRecord)
  BY DEF Absent, NewRecord
<1>2. True(o, rec) /\ apiPc[o] = "rejected" => True(o, MarkedFailed(rec))
  BY DEF MarkedFailed
<1>3. /\ True(o, rec) => True(o, Updated(rec, "running", FALSE, FALSE))
      /\ True(o, rec) /\ executed[o] > 0 /\ job[o].forceFail =>
           True(o, Updated(rec, "failed", FALSE, TRUE))
  BY DEF Updated
<1>4. True(o, rec) /\ executed[o] > 0 /\ ~job[o].forceFail =>
        True(o, Updated(rec, "completed", TRUE, FALSE))
  BY DEF Updated
<1>5. ASSUME NEW r \in Orders, True(o, rec), job[r].retryOf = o, Logged(r)
      PROVE  True(o, Linked(rec, r))
  BY <1>5, NoOrderAssumption DEF Linked
<1>6. ASSUME NEW r \in Orders, True(o, rec), job[r].retryOf = o, executed[r] > 0
      PROVE  True(o, MarkedRecovered(rec, r))
  <2>1. Logged(r)
    BY <1>6 DEF QueueInv, Handling
  <2> QED BY <1>6, <2>1, NoOrderAssumption DEF MarkedRecovered
<1> QED BY <1>1, <1>2, <1>3, <1>4, <1>5, <1>6

LEMMA StoreSteps ==
  ASSUME RecordInv, [Next]_vars
  PROVE  \/ store' = store
         \/ store' = [o \in Orders |-> Absent]
         \/ \E o \in Orders, rec \in Records :
              True(o, rec)' /\ store' = [store EXCEPT ![o] = rec]
<1> DEFINE Written == \E o \in Orders, rec \in Records :
                        True(o, rec)' /\ store' = [store EXCEPT ![o] = rec]
<1>0. /\ QueueInv /\ TypeInv /\ Sending /\ Handling /\ Truth
      /\ job \in [Orders -> Jobs]
      /\ apiSnap \in [Orders -> Records] /\ wSnap \in [Workers -> Records]
      /\ \A w \in Workers : wPc[w] # "idle" => wJob[w] \in Orders
  BY DEF RecordInv, QueueInv, TypeInv, TypeOK, Targets
<1>t. \A o \in Orders, rec \in Records : True(o, rec) => True(o, rec)'
  BY <1>0, TrueStays
<1>1. ASSUME NEW o \in Orders, SetRecord(o) PROVE Written
  <2>1. store' = [store EXCEPT ![o] = NewRecord] /\ True(o, NewRecord) /\ NewRecord \in Records
    BY <1>0, <1>1, TrueWrites, RecordTypes DEF SetRecord
  <2> QED BY <1>t, <2>1
<1>2. ASSUME NEW o \in Orders, MarkFailedWrite(o) PROVE Written
  <2>1. PICK rec \in Records : rec = apiSnap[o]
    BY <1>0
  <2>2. /\ store' = [store EXCEPT ![o] = MarkedFailed(rec)] /\ True(o, rec)
        /\ apiPc'[o] = "rejected"
    BY <1>0, <1>2, <2>1 DEF MarkFailedWrite, ApiGoto, Truth, CopyTrue, TypeInv, TypeOK
  <2>3. MarkedFailed(rec) \in Records /\ True(o, rec)'
    BY <1>t, <2>2, RecordTypes
  <2>4. True(o, MarkedFailed(rec))'
    BY <2>2, <2>3 DEF True, ClaimsTrue, LinkTrue, Consistent, MarkedFailed, Records
  <2> QED BY <2>2, <2>3, <2>4
<1>3. ASSUME NEW o \in Orders, LinkWrite(o) PROVE Written
  <2> DEFINE f == job[o].retryOf
             rec == Linked(apiSnap[o], o)
  <2>1. /\ store' = [store EXCEPT ![f] = rec] /\ True(f, apiSnap[o])
        /\ Logged(o) /\ f \in Orders
    BY <1>0, <1>3 DEF LinkWrite, ApiGoto, Truth, CopyTrue, Sending, Acked, TypeInv, Targets, Jobs
  <2>2. rec \in Records /\ True(f, rec)
    BY <1>0, <2>1, TrueWrites, RecordTypes
  <2> QED BY <1>t, <2>1, <2>2
<1>4. ASSUME NEW w \in Workers, SaveJob(w) PROVE Written
  <2>1. wJob[w] \in Orders /\ store' = [store EXCEPT ![wJob[w]] = NewRecord]
    BY <1>0, <1>4 DEF SaveJob, WorkerGoto
  <2>2. True(wJob[w], NewRecord) /\ NewRecord \in Records
    BY <1>0, <2>1, TrueWrites, RecordTypes
  <2> QED BY <1>t, <2>1, <2>2
<1>5. ASSUME NEW w \in Workers, RunWrite(w) PROVE Written
  <2> DEFINE rec == Updated(wSnap[w], "running", FALSE, FALSE)
  <2>1. /\ wJob[w] \in Orders /\ store' = [store EXCEPT ![wJob[w]] = rec]
        /\ True(wJob[w], wSnap[w])
    BY <1>0, <1>5 DEF RunWrite, WriteBack, WorkerGoto, Truth, WorkerCopyTrue
  <2>2. True(wJob[w], rec) /\ rec \in Records
    BY <1>0, <2>1, TrueWrites, RecordTypes DEF Statuses
  <2> QED BY <1>t, <2>1, <2>2
<1>6. ASSUME NEW w \in Workers, EndWrite(w) PROVE Written
  <2> DEFINE rec == Outcome(w)
  <2>1. /\ wJob[w] \in Orders /\ store' = [store EXCEPT ![wJob[w]] = rec]
        /\ True(wJob[w], wSnap[w]) /\ executed[wJob[w]] > 0
    BY <1>0, <1>6
    DEF EndWrite, WriteBack, WorkerGoto, Truth, WorkerCopyTrue, Handling, AfterRun
  <2>2. True(wJob[w], rec) /\ rec \in Records
    BY <1>0, <2>1, TrueWrites, RecordTypes DEF Statuses, Outcome, Raises
  <2> QED BY <1>t, <2>1, <2>2
<1>7. ASSUME NEW w \in Workers, RecWrite(w) PROVE Written
  <2> DEFINE f == job[wJob[w]].retryOf
             rec == MarkedRecovered(wSnap[w], wJob[w])
  <2>1. /\ store' = [store EXCEPT ![f] = rec] /\ True(f, wSnap[w])
        /\ wJob[w] \in Orders /\ f \in Orders /\ executed[wJob[w]] > 0
    BY <1>0, <1>7 DEF RecWrite, WriteBack, WorkerGoto, Truth, WorkerCopyTrue, Handling,
       AfterRun, TypeInv, Targets, Jobs
  <2>2. True(f, rec) /\ rec \in Records
    BY <1>0, <2>1, TrueWrites, RecordTypes
  <2> QED BY <1>t, <2>1, <2>2
<1>8. ASSUME NEW o \in Orders,
             PushRecent(o) \/ TrimRecent(o) \/ SendOrder(o) \/ AckPublish(o)
               \/ MarkFailedRead(o) \/ LinkRead(o)
      PROVE  store' = store
  BY <1>8 DEF PushRecent, TrimRecent, SendOrder, AckPublish, MarkFailedRead, LinkRead, redis
<1>9. ASSUME NEW w \in Workers,
             \/ \E p \in Partitions : Fetch(w, p)
             \/ CheckExists(w) \/ RunRead(w) \/ EndRead(w) \/ RecRead(w)
             \/ Commit(w) \/ CommitFails(w) \/ DrainExit(w)
      PROVE  store' = store
  BY <1>9 DEF Fetch, CheckExists, RunRead, EndRead, RecRead, Commit, CommitFails, DrainExit, redis
<1>10. ASSUME Faults PROVE store' = store \/ store' = [o \in Orders |-> Absent]
  BY <1>10 DEF Faults, SendRefused, PublishFailed, ApiCrash, WorkerCrash, Sigterm, Evict,
     RedisLoss, BrokerLoss, redis
<1>11. ASSUME \/ Client \/ Waiting \/ UNCHANGED vars
              \/ \E o \in Orders, p \in Partitions : BrokerAppend(o, p)
              \/ \E w \in Workers, p \in Partitions : Assign(w, p)
       PROVE  store' = store
  BY <1>11 DEF Client, PlaceOrder, RetryOrder, BrokerAppend, Assign, Waiting, vars, redis
<1> HIDE DEF Written
<1>12. store' = store \/ store' = [o \in Orders |-> Absent] \/ Written
  BY <1>1, <1>2, <1>3, <1>4, <1>5, <1>6, <1>7, <1>8, <1>9, <1>10, <1>11
  DEF Next, ApiStep, WorkerStep
<1> QED BY <1>12 DEF Written

(***************************************************************************)
(* A copy is the record just read or the copy from before the step.        *)
(***************************************************************************)
LEMMA CopySteps ==
  ASSUME TypeInv, [Next]_vars, NEW x \in Orders
  PROVE  /\ apiPc'[x] = "markWrite" =>
              \/ apiSnap'[x] = store[x]
              \/ apiPc[x] = "markWrite" /\ apiSnap'[x] = apiSnap[x]
         /\ apiPc'[x] = "linkWrite" =>
              \/ apiPc[x] = "linkRead" /\ apiSnap'[x] = store[job[x].retryOf]
              \/ apiPc[x] = "linkWrite" /\ apiSnap'[x] = apiSnap[x]
<1> DEFINE Goal ==
         /\ apiPc'[x] = "markWrite" =>
              \/ apiSnap'[x] = store[x]
              \/ apiPc[x] = "markWrite" /\ apiSnap'[x] = apiSnap[x]
         /\ apiPc'[x] = "linkWrite" =>
              \/ apiPc[x] = "linkRead" /\ apiSnap'[x] = store[job[x].retryOf]
              \/ apiPc[x] = "linkWrite" /\ apiSnap'[x] = apiSnap[x]
<1>0. apiPc \in [Orders -> ApiPcs] /\ apiSnap \in [Orders -> Records]
  BY DEF TypeInv, TypeOK
<1>1. ASSUME UNCHANGED <<apiPc, apiSnap>> PROVE Goal
  BY <1>1
<1>2. ASSUME NEW o \in Orders, ApiStep(o) PROVE Goal
  <2>1. CASE MarkFailedRead(o)
    BY <1>0, <2>1 DEF MarkFailedRead, ApiGoto
  <2>2. CASE LinkRead(o)
    BY <1>0, <2>2 DEF LinkRead, ApiGoto
  <2>3. CASE MarkFailedWrite(o) \/ LinkWrite(o)
    BY <1>0, <2>3 DEF MarkFailedWrite, LinkWrite, ApiGoto
  <2>4. CASE SetRecord(o) \/ PushRecent(o) \/ TrimRecent(o) \/ SendOrder(o) \/ AckPublish(o)
    BY <1>0, <2>4 DEF SetRecord, PushRecent, TrimRecent, SendOrder, AckPublish, ApiGoto
  <2> QED BY <1>2, <2>1, <2>2, <2>3, <2>4 DEF ApiStep
<1>3. ASSUME Client PROVE Goal
  BY <1>0, <1>3 DEF Client, PlaceOrder, RetryOrder, ApiGoto
<1>4. ASSUME Faults PROVE Goal
  <2>1. ASSUME NEW o \in Orders, NEW lost \in BOOLEAN,
               SendRefused(o) \/ PublishFailed(o, lost) \/ ApiCrash(o, lost) PROVE Goal
    BY <1>0, <2>1 DEF SendRefused, PublishFailed, ApiCrash, ApiGoto
  <2>2. ASSUME \/ \E w \in Workers : WorkerCrash(w) \/ Sigterm(w)
               \/ \E w \in Workers, p \in Partitions : Evict(w, p)
               \/ RedisLoss \/ BrokerLoss
        PROVE  UNCHANGED <<apiPc, apiSnap>>
    BY <2>2 DEF WorkerCrash, Sigterm, Evict, RedisLoss, BrokerLoss, api
  <2> QED BY <1>1, <1>4, <2>1, <2>2 DEF Faults
<1>5. ASSUME NEW w \in Workers, WorkerStep(w) PROVE UNCHANGED <<apiPc, apiSnap>>
  BY <1>5 DEF WorkerStep, Fetch, CheckExists, SaveJob, RunRead, RunWrite, EndRead, EndWrite,
     RecRead, RecWrite, Commit, CommitFails, DrainExit, WriteBack, api
<1>6. ASSUME \/ \E o \in Orders, p \in Partitions : BrokerAppend(o, p)
             \/ \E w \in Workers, p \in Partitions : Assign(w, p)
             \/ Waiting \/ UNCHANGED vars
      PROVE  UNCHANGED <<apiPc, apiSnap>>
  BY <1>6 DEF BrokerAppend, Assign, Waiting, vars, api
<1> HIDE DEF Goal
<1>7. Goal
  BY <1>1, <1>2, <1>3, <1>4, <1>5, <1>6 DEF Next
<1> QED BY <1>7 DEF Goal

LEMMA WorkerCopySteps ==
  ASSUME TypeInv, [Next]_vars, NEW v \in Workers
  PROVE  /\ wPc'[v] \in {"runWrite", "endWrite"} =>
              /\ wPc[v] # "idle" /\ wJob'[v] = wJob[v]
              /\ \/ wSnap'[v] = store[wJob[v]]
                 \/ wPc[v] \in {"runWrite", "endWrite"} /\ wSnap'[v] = wSnap[v]
         /\ wPc'[v] = "recWrite" =>
              /\ wPc[v] \in {"recRead", "recWrite"} /\ wJob'[v] = wJob[v]
              /\ \/ wSnap'[v] = store[job[wJob[v]].retryOf]
                 \/ wPc[v] = "recWrite" /\ wSnap'[v] = wSnap[v]
<1> DEFINE Goal ==
         /\ wPc'[v] \in {"runWrite", "endWrite"} =>
              /\ wPc[v] # "idle" /\ wJob'[v] = wJob[v]
              /\ \/ wSnap'[v] = store[wJob[v]]
                 \/ wPc[v] \in {"runWrite", "endWrite"} /\ wSnap'[v] = wSnap[v]
         /\ wPc'[v] = "recWrite" =>
              /\ wPc[v] \in {"recRead", "recWrite"} /\ wJob'[v] = wJob[v]
              /\ \/ wSnap'[v] = store[job[wJob[v]].retryOf]
                 \/ wPc[v] = "recWrite" /\ wSnap'[v] = wSnap[v]
<1>0. /\ wPc \in [Workers -> WorkerPcs] /\ wSnap \in [Workers -> Records]
      /\ wJob \in [Workers -> Orders \cup {NoOrder}]
  BY DEF TypeInv, TypeOK
<1>1. ASSUME UNCHANGED <<wPc, wJob, wSnap>> PROVE Goal
  BY <1>1
<1>2. ASSUME NEW w \in Workers, Die(w) PROVE Goal
  BY <1>0, <1>2 DEF Die
<1>3. ASSUME NEW w \in Workers, WorkerStep(w) PROVE Goal
  <2>1. CASE RunRead(w) \/ EndRead(w) \/ RecRead(w)
    <3>1. \/ Die(w)
          \/ ReadInto(w, wJob[w], "runRead", "runWrite")
          \/ ReadInto(w, wJob[w], "endRead", "endWrite")
          \/ ReadInto(w, job[wJob[w]].retryOf, "recRead", "recWrite")
          \/ WorkerGoto(w, "recRead", "commit") /\ UNCHANGED <<wJob, wSnap>>
      BY <2>1 DEF RunRead, EndRead, RecRead
    <3> QED BY <1>0, <1>2, <3>1 DEF ReadInto, WorkerGoto
  <2>2. CASE RunWrite(w) \/ EndWrite(w) \/ RecWrite(w)
    BY <1>0, <2>2 DEF RunWrite, EndWrite, RecWrite, WriteBack, WorkerGoto
  <2>3. CASE CheckExists(w) \/ SaveJob(w) \/ \E p \in Partitions : Fetch(w, p)
    BY <1>0, <2>3 DEF CheckExists, SaveJob, Fetch, WorkerGoto
  <2>4. CASE Commit(w)
    BY <1>0, <2>4 DEF Commit, WorkerGoto
  <2>5. CASE CommitFails(w) \/ DrainExit(w)
    BY <1>2, <2>5 DEF CommitFails, DrainExit
  <2> QED BY <1>3, <2>1, <2>2, <2>3, <2>4, <2>5 DEF WorkerStep
<1>4. ASSUME Faults PROVE Goal
  <2>1. ASSUME \/ \E o \in Orders : SendRefused(o)
               \/ \E o \in Orders, lost \in BOOLEAN : PublishFailed(o, lost) \/ ApiCrash(o, lost)
               \/ \E w \in Workers : Sigterm(w)
               \/ \E w \in Workers, p \in Partitions : Evict(w, p)
               \/ RedisLoss \/ BrokerLoss
        PROVE  UNCHANGED <<wPc, wJob, wSnap>>
    BY <2>1 DEF SendRefused, PublishFailed, ApiCrash, Sigterm, Evict, RedisLoss, BrokerLoss, workers
  <2>2. ASSUME NEW w \in Workers, WorkerCrash(w) PROVE Goal
    BY <1>2, <2>2 DEF WorkerCrash
  <2> QED BY <1>1, <1>4, <2>1, <2>2 DEF Faults
<1>5. ASSUME \/ Client \/ Waiting \/ UNCHANGED vars
             \/ \E o \in Orders : ApiStep(o)
             \/ \E o \in Orders, p \in Partitions : BrokerAppend(o, p)
             \/ \E w \in Workers, p \in Partitions : Assign(w, p)
      PROVE  UNCHANGED <<wPc, wJob, wSnap>>
  BY <1>5 DEF Client, PlaceOrder, RetryOrder, ApiStep, SetRecord, PushRecent, TrimRecent,
     SendOrder, AckPublish, MarkFailedRead, MarkFailedWrite, LinkRead, LinkWrite,
     BrokerAppend, Assign, Waiting, vars, workers
<1> HIDE DEF Goal
<1>6. Goal
  BY <1>1, <1>3, <1>4, <1>5 DEF Next
<1> QED BY <1>6 DEF Goal

(***************************************************************************)
(* The invariant, and what follows from it.                                *)
(***************************************************************************)
LEMMA InitRecordInv == Init => RecordInv
<1> SUFFICES ASSUME Init PROVE RecordInv
  OBVIOUS
<1>1. QueueInv
  BY InitQueueInv
<1>2. \A o \in Orders : True(o, store[o]) /\ CopyTrue(o)
  BY <1>1, TrueWrites, RecordTypes DEF Init, CopyTrue
<1>3. \A w \in Workers : WorkerCopyTrue(w)
  BY DEF Init, WorkerCopyTrue
<1> QED BY <1>1, <1>2, <1>3 DEF RecordInv, Truth

LEMMA NextRecordInv == RecordInv /\ [Next]_vars => RecordInv'
<1> SUFFICES ASSUME RecordInv, [Next]_vars PROVE RecordInv'
  OBVIOUS
<1>0. /\ QueueInv /\ TypeInv /\ Sending /\ Handling /\ Truth
      /\ store \in [Orders -> Records] /\ job \in [Orders -> Jobs]
      /\ apiSnap \in [Orders -> Records] /\ wSnap \in [Workers -> Records]
      /\ \A w \in Workers : wPc[w] # "idle" => wJob[w] \in Orders /\ Logged(wJob[w])
  BY DEF RecordInv, QueueInv, TypeInv, TypeOK, Targets, Handling
<1>1. QueueInv'
  BY <1>0, NextQueueInv
<1>t. \A o \in Orders, rec \in Records : True(o, rec) => True(o, rec)'
  BY <1>0, TrueStays
<1>2. ASSUME NEW o \in Orders PROVE True(o, store[o])'
  <2>1. CASE store' = store
    BY <1>0, <1>t, <2>1 DEF Truth
  <2>2. CASE store' = [x \in Orders |-> Absent]
    BY <1>0, <1>t, <2>2, TrueWrites, RecordTypes
  <2>3. ASSUME NEW x \in Orders, NEW rec \in Records, True(x, rec)',
               store' = [store EXCEPT ![x] = rec]
        PROVE  True(o, store[o])'
    <3>1. CASE o = x
      BY <1>0, <2>3, <3>1
    <3>2. CASE o # x
      <4>1. store'[o] = store[o] /\ store[o] \in Records /\ True(o, store[o])
        BY <1>0, <2>3, <3>2 DEF Truth
      <4> QED BY <1>t, <4>1
    <3> QED BY <3>1, <3>2
  <2> QED BY <2>1, <2>2, <2>3, StoreSteps
<1>3. ASSUME NEW o \in Orders PROVE CopyTrue(o)'
  <2>1. apiPc'[o] = "markWrite" => True(o, apiSnap[o])'
    <3> SUFFICES ASSUME apiPc'[o] = "markWrite" PROVE True(o, apiSnap[o])'
      OBVIOUS
    <3>1. apiSnap'[o] \in Records /\ True(o, apiSnap'[o])
      BY <1>0, CopySteps DEF Truth, CopyTrue
    <3> QED BY <1>t, <3>1
  <2>2. apiPc'[o] = "linkWrite" => True(job[o].retryOf, apiSnap[o])'
    <3> SUFFICES ASSUME apiPc'[o] = "linkWrite" PROVE True(job[o].retryOf, apiSnap[o])'
      OBVIOUS
    <3>1. apiPc[o] \in {"linkRead", "linkWrite"}
      BY <1>0, CopySteps
    <3>2. job[o].retryOf \in Orders /\ job'[o] = job[o]
      BY <1>0, <3>1, JobStays DEF TypeInv, Targets, Jobs, Sending, Acked
    <3>3. apiSnap'[o] \in Records /\ True(job[o].retryOf, apiSnap'[o])
      BY <1>0, <3>2, CopySteps DEF Truth, CopyTrue
    <3> QED BY <1>t, <3>2, <3>3
  <2> QED BY <2>1, <2>2 DEF CopyTrue
<1>4. ASSUME NEW w \in Workers PROVE WorkerCopyTrue(w)'
  <2>1. wPc'[w] \in {"runWrite", "endWrite"} => True(wJob[w], wSnap[w])'
    <3> SUFFICES ASSUME wPc'[w] \in {"runWrite", "endWrite"} PROVE True(wJob[w], wSnap[w])'
      OBVIOUS
    <3>1. /\ wJob[w] \in Orders /\ wJob'[w] = wJob[w]
          /\ wSnap'[w] \in Records /\ True(wJob[w], wSnap'[w])
      BY <1>0, WorkerCopySteps DEF Truth, WorkerCopyTrue
    <3> QED BY <1>t, <3>1
  <2>2. wPc'[w] = "recWrite" => True(job[wJob[w]].retryOf, wSnap[w])'
    <3> SUFFICES ASSUME wPc'[w] = "recWrite" PROVE True(job[wJob[w]].retryOf, wSnap[w])'
      OBVIOUS
    <3> DEFINE f == job[wJob[w]].retryOf
    <3>1. wPc[w] \in {"recRead", "recWrite"} /\ wJob'[w] = wJob[w]
      BY <1>0, WorkerCopySteps
    <3>2. wJob[w] \in Orders /\ Logged(wJob[w]) /\ f \in Orders
      BY <1>0, <3>1 DEF TypeInv, Targets, Jobs
    <3>3. job'[wJob'[w]] = job[wJob[w]]
      BY <1>0, <3>1, <3>2, JobStays
    <3>4. wSnap'[w] \in Records /\ True(f, wSnap'[w])
      BY <1>0, <3>2, WorkerCopySteps DEF Truth, WorkerCopyTrue
    <3> QED BY <1>t, <3>2, <3>3, <3>4
  <2> QED BY <2>1, <2>2 DEF WorkerCopyTrue
<1> QED BY <1>1, <1>2, <1>3, <1>4 DEF RecordInv, Truth

LEMMA RecordInvariance == Spec => []RecordInv
BY InitRecordInv, NextRecordInv, PTL DEF Spec

\* The store shows no outcome that did not happen: a completed order ran and was
\* not told to fail, a failed one ran and was told to or its request was answered
\* 503, a recovered one has a retry that ran, a completed recovery link names one.
THEOREM OutcomesAreJustified == Spec => []StatusJustified
<1>1. RecordInv => StatusJustified
  BY DEF RecordInv, Truth, True, StatusJustified
<1> QED BY <1>1, RecordInvariance, PTL

\* A recovery link always names a retry of that order that got into the topic.
THEOREM LinksArePublished == Spec => []LinkPublished
<1>1. RecordInv => LinkPublished
  BY DEF RecordInv, Truth, True, LinkTrue, LinkPublished
<1> QED BY <1>1, RecordInvariance, PTL

\* Status, result and error of a stored record agree.
THEOREM RecordsAreConsistent == Spec => []RecordConsistent
<1>1. RecordInv => RecordConsistent
  BY DEF RecordInv, Truth, True, Consistent, RecordConsistent
<1> QED BY <1>1, RecordInvariance, PTL
===============================================================================
