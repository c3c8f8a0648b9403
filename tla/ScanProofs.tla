------------------------------ MODULE ScanProofs ------------------------------
(***************************************************************************)
(* What metrics() may conclude from records it reads one by one.           *)
(***************************************************************************)
EXTENDS SettleProofs, LoadGenerator

(***************************************************************************)
(* A record with a final status tells of an order that was executed or     *)
(* whose request was answered with an error, and neither is ever undone:   *)
(* so the status may have been read at any earlier moment.                 *)
(***************************************************************************)
Ended(o) == executed[o] > 0 \/ apiPc[o] = "rejected"

Tell ==
  /\ \A o \in Orders : store[o].status \in Final => Ended(o)
  /\ \A r \in Orders : job[r].retryOf # NoOrder => Ended(job[r].retryOf)

LEMMA EndedStays ==
  ASSUME QueueInv, [Next]_vars, NEW o \in Orders, Ended(o)
  PROVE  Ended(o)'
<1>1. CASE executed[o] > 0
  <2>1. Logged(o)
    BY <1>1 DEF QueueInv, Handling
  <2> QED BY <1>1, <2>1, JobStays DEF Ended
<1>2. CASE apiPc[o] = "rejected"
  <2>0. TypeInv /\ apiPc \in [Orders -> ApiPcs]
    BY DEF QueueInv, TypeInv, TypeOK
  <2>1. ASSUME NEW x \in Orders, SetRecord(x) \/ PushRecent(x) \/ TrimRecent(x)
        PROVE  apiPc'[o] = "rejected"
    BY <1>2, <2>0, <2>1 DEF SetRecord, PushRecent, TrimRecent, ApiGoto
  <2>2. ASSUME NEW x \in Orders, NEW to \in ApiPcs, Proceeds(x, to)
        PROVE  apiPc'[o] = "rejected"
    BY <1>2, <2>0, <2>2 DEF Proceeds, ApiActive
  <2> QED BY <1>2, <2>0, <2>1, <2>2, ApiMoves DEF Ended
<1> QED BY <1>1, <1>2 DEF Ended

LEMMA FinalWrites ==
  ASSUME QueueInv, Tell, [Next]_vars, NEW x \in Orders, store'[x].status \in Final
  PROVE  Ended(x)'
<1> DEFINE Goal == store'[x].status \in Final => Ended(x)'
<1>0. /\ TypeInv /\ store \in [Orders -> Records] /\ job \in [Orders -> Jobs]
      /\ apiPc \in [Orders -> ApiPcs]
      /\ \A w \in Workers : wPc[w] # "idle" => wJob[w] \in Orders
  BY DEF QueueInv, TypeInv, TypeOK, Targets
<1>s. \A o \in Orders : Ended(o) => Ended(o)'
  BY EndedStays
<1>1. ASSUME UNCHANGED store PROVE Goal
  BY <1>s, <1>1 DEF Tell
<1>w. ASSUME NEW o \in Orders, NEW rec, store' = [store EXCEPT ![o] = rec],
             rec.status \in Final => Ended(o)'
      PROVE  Goal
  BY <1>0, <1>s, <1>w DEF Tell
<1>2. ASSUME NEW o \in Orders, SetRecord(o) PROVE Goal
  <2>1. NewRecord.status \notin Final
    BY DEF NewRecord, Absent, Final
  <2> QED BY <1>2, <1>w, <2>1 DEF SetRecord
<1>3. ASSUME NEW o \in Orders, MarkFailedWrite(o) PROVE Goal
  <2>1. apiPc'[o] = "rejected"
    BY <1>0, <1>3 DEF MarkFailedWrite, ApiGoto
  <2> QED BY <1>3, <1>w, <2>1 DEF MarkFailedWrite, Ended
<1>4. ASSUME NEW o \in Orders, LinkWrite(o) PROVE Goal
  <2>1. job[o].retryOf \in Orders /\ Ended(job[o].retryOf)
    BY <1>0, <1>4 DEF LinkWrite, ApiGoto, TypeInv, Targets, Jobs, Tell
  <2> QED BY <1>4, <1>s, <1>w, <2>1 DEF LinkWrite
<1>5. ASSUME NEW w \in Workers, SaveJob(w) PROVE Goal
  <2>1. NewRecord.status \notin Final /\ wJob[w] \in Orders
    BY <1>0, <1>5 DEF SaveJob, WorkerGoto, NewRecord, Absent, Final
  <2> QED BY <1>5, <1>w, <2>1 DEF SaveJob
<1>6. ASSUME NEW w \in Workers, RunWrite(w) PROVE Goal
  <2>1. wJob[w] \in Orders /\ wSnap[w] \in Records
    BY <1>0, <1>6 DEF RunWrite, WriteBack, WorkerGoto, TypeInv, TypeOK
  <2>2. Updated(wSnap[w], "running", FALSE, FALSE).status \notin Final
    BY <2>1 DEF Updated, Records, Final
  <2> QED BY <1>6, <1>w, <2>1, <2>2 DEF RunWrite, WriteBack
<1>7. ASSUME NEW w \in Workers, EndWrite(w) PROVE Goal
  <2>1. wJob[w] \in Orders /\ Ended(wJob[w])
    BY <1>0, <1>7 DEF EndWrite, WriteBack, WorkerGoto, QueueInv, Handling, AfterRun, Ended
  <2> QED BY <1>7, <1>s, <1>w, <2>1 DEF EndWrite, WriteBack
<1>8. ASSUME NEW w \in Workers, RecWrite(w) PROVE Goal
  <2>1. job[wJob[w]].retryOf \in Orders /\ Ended(job[wJob[w]].retryOf)
    BY <1>0, <1>8 DEF RecWrite, WriteBack, WorkerGoto, TypeInv, Targets, Jobs, Tell
  <2> QED BY <1>8, <1>s, <1>w, <2>1 DEF RecWrite, WriteBack
<1>9. ASSUME RedisLoss PROVE Goal
  BY <1>9 DEF RedisLoss, Absent, Final
<1>10. ASSUME NEW o \in Orders,
              PushRecent(o) \/ TrimRecent(o) \/ SendOrder(o) \/ AckPublish(o)
                \/ MarkFailedRead(o) \/ LinkRead(o)
       PROVE  UNCHANGED store
  BY <1>10 DEF PushRecent, TrimRecent, SendOrder, AckPublish, MarkFailedRead, LinkRead, redis
<1>11. ASSUME NEW w \in Workers,
              \/ \E p \in Partitions : Fetch(w, p)
              \/ CheckExists(w) \/ RunRead(w) \/ EndRead(w) \/ RecRead(w)
              \/ Commit(w) \/ CommitFails(w) \/ DrainExit(w)
       PROVE  UNCHANGED store
  BY <1>11 DEF Fetch, CheckExists, RunRead, EndRead, RecRead, Commit, CommitFails, DrainExit, redis
<1>12. ASSUME \/ (Faults /\ ~RedisLoss) \/ Client \/ Waiting \/ UNCHANGED vars
              \/ \E o \in Orders, p \in Partitions : BrokerAppend(o, p)
              \/ \E w \in Workers, p \in Partitions : Assign(w, p)
       PROVE  UNCHANGED store
  BY <1>12 DEF Faults, SendRefused, PublishFailed, ApiCrash, WorkerCrash, Sigterm, Evict,
     BrokerLoss, Client, PlaceOrder, RetryOrder, BrokerAppend, Assign, Waiting, vars, redis
<1> HIDE DEF Goal
<1>13. Goal
  BY <1>1, <1>2, <1>3, <1>4, <1>5, <1>6, <1>7, <1>8, <1>9, <1>10, <1>11, <1>12
  DEF Next, ApiStep, WorkerStep
<1> QED BY <1>13 DEF Goal

LEMMA InitTell == Init => Tell
BY DEF Init, Tell, NoJob, Absent, Final

LEMMA NextTell ==
  ASSUME QueueInv, Tell, [Next]_vars
  PROVE  Tell'
<1>0. TypeInv
  BY DEF QueueInv
<1>1. \A o \in Orders : store'[o].status \in Final => Ended(o)'
  BY FinalWrites
<1>2. ASSUME NEW r \in Orders, job'[r].retryOf # NoOrder PROVE Ended(job[r].retryOf)'
  <2>1. job'[r].retryOf \in Orders /\ Ended(job'[r].retryOf)
    BY <1>0, <1>2, RetrySteps DEF TypeInv, TypeOK, Jobs, Tell, Final
  <2> QED BY <2>1, EndedStays
<1> QED BY <1>1, <1>2 DEF Tell

(***************************************************************************)
(* The scan.                                                               *)
(***************************************************************************)
Read ==
  /\ ids \in Seq(Orders) /\ seen \in Seq(Statuses) /\ Len(seen) <= Len(ids)
  /\ \A i \in 1..Len(seen) : seen[i] \in Final => Ended(ids[i])

Found ==
  /\ NoTwice(ids)
  /\ \A i \in 1..Len(ids) : Exists(store[ids[i]])
  /\ \A i \in 1..Len(seen) : seen[i] # "absent"

ScanInv == ListInv /\ Tell /\ Read /\ (Kept => Found)

LEMMA InitScanInv == ScanInit => ScanInv
<1> SUFFICES ASSUME ScanInit PROVE ScanInv
  OBVIOUS
<1>1. ListInv /\ Tell
  BY InitListInv, InitTell DEF ScanInit
<1>2. Read /\ Found
  BY DEF ScanInit, Read, Found, NoTwice
<1> QED BY <1>1, <1>2 DEF ScanInv

\* The pipeline moves, the scan does not.
LEMMA PipelineKeepsScanInv ==
  ASSUME ScanInv, [Next]_vars, UNCHANGED scan
  PROVE  ScanInv'
<1>0. /\ ListInv /\ QueueInv /\ TypeInv /\ Tell /\ Read
      /\ UNCHANGED <<ids, seen>>
      /\ \A i \in 1..Len(ids) : ids[i] \in Orders
      /\ Len(ids) \in Nat /\ Len(seen) \in Nat /\ Len(seen) <= Len(ids)
  BY ElementOfSeq, LenProperties DEF ScanInv, ListInv, QueueInv, Read, scan
<1>1. ListInv' /\ Tell'
  BY <1>0, NextListInv, NextTell
<1>2. \A i \in 1..Len(seen) : i \in 1..Len(ids)
  BY <1>0
<1>3. Read'
  <2>1. ASSUME NEW i \in 1..Len(seen), seen[i] \in Final PROVE Ended(ids[i])'
    <3>1. ids[i] \in Orders /\ Ended(ids[i])
      BY <1>0, <1>2, <2>1 DEF Read
    <3>2. Ended(ids[i])' <=> executed'[ids[i]] > 0 \/ apiPc'[ids[i]] = "rejected"
      BY <1>0 DEF Ended
    <3>3. \A o \in Orders : Ended(o) => executed'[o] > 0 \/ apiPc'[o] = "rejected"
      BY <1>0, EndedStays DEF Ended
    <3> QED BY <3>1, <3>2, <3>3
  <2> QED BY <1>0, <2>1 DEF Read
<1>4. ASSUME Kept' PROVE Found'
  <2>1. Kept /\ ~RedisLoss
    BY <1>0, <1>4, KeptSteps
  <2>2. Stored /\ Found
    BY <1>0, <2>1 DEF ScanInv, ListInv
  <2>3. \A o \in Orders : Exists(store[o]) => Exists(store'[o])
    BY <1>0, <2>1, <2>2, ListableSteps DEF Exists
  <2> QED BY <1>0, <2>2, <2>3 DEF Found, NoTwice, Exists
<1> QED BY <1>1, <1>3, <1>4 DEF ScanInv

LEMMA ScanKeepsScanInv ==
  ASSUME ScanInv, ScanStep
  PROVE  ScanInv'
<1>0. /\ ListInv /\ TypeInv /\ Tell /\ Read /\ UNCHANGED vars
      /\ ids \in Seq(Orders) /\ seen \in Seq(Statuses)
      /\ recent \in Seq(Orders) /\ store \in [Orders -> Records]
      /\ Len(ids) \in Nat /\ Len(seen) \in Nat /\ Len(recent) \in Nat
      /\ \A i \in 1..Len(ids) : ids[i] \in Orders
  BY ElementOfSeq, LenProperties
  DEF ScanInv, ListInv, QueueInv, TypeInv, TypeOK, Read, ScanStep
<1>v. UNCHANGED <<store, apiPc, executed, job, recent, budget>>
  BY <1>0 DEF vars, redis, api
<1>1. ListInv' /\ Tell'
  <2>1. [Next]_vars
    BY <1>0
  <2>2. QueueInv
    BY <1>0 DEF ListInv
  <2> QED BY <1>0, <2>1, <2>2, NextListInv, NextTell
<1>2. CASE BeginScan
  <2>1. /\ Len(seen') = 0 /\ seen' \in Seq(Statuses)
        /\ ids' = Newest(recent)
    BY <1>2 DEF BeginScan
  <2>2. /\ ids' \in Seq(Orders) /\ Len(ids') \in Nat /\ Len(ids') <= Len(recent)
        /\ \A i \in 1..Len(ids') : ids'[i] = recent[i]
    <3>1. Newest(recent) = Trimmed(recent, ScanLimit)
      BY DEF Newest, Trimmed
    <3>2. /\ Trimmed(recent, ScanLimit) \in Seq(Orders)
          /\ Len(Trimmed(recent, ScanLimit)) = IF Len(recent) > ScanLimit THEN ScanLimit ELSE Len(recent)
          /\ \A i \in 1..Len(Trimmed(recent, ScanLimit)) : Trimmed(recent, ScanLimit)[i] = recent[i]
      BY <1>0, ScanAssumption, TrimmedList
    <3> QED BY <1>0, <2>1, <3>1, <3>2, ScanAssumption
  <2>3. Read'
    BY <2>1, <2>2 DEF Read
  <2>4. ASSUME Kept' PROVE Found'
    <3>1. Kept /\ Listed
      BY <1>0, <1>v, <2>4 DEF Kept, Happened, ListInv
    <3>2. \A i \in 1..Len(ids') : i \in 1..Len(recent)
      BY <1>0, <2>2
    <3>3. NoTwice(ids')
      BY <2>2, <3>1, <3>2 DEF Listed, NoTwice
    <3>4. \A i \in 1..Len(ids') : store'[ids'[i]].status # "absent"
      BY <1>v, <2>2, <3>1, <3>2 DEF Listed, Exists
    <3>5. \A i \in 1..Len(seen') : FALSE
      BY <2>1
    <3> QED BY <3>3, <3>4, <3>5 DEF Found, NoTwice, Exists
  <2> QED BY <1>1, <2>3, <2>4 DEF ScanInv
<1>3. CASE GetNext
  <2> DEFINE n  == Len(seen) + 1
             st == store[ids[n]].status
  <2>1. n \in 1..Len(ids) /\ ids' = ids
    BY <1>0, <1>3 DEF GetNext, Complete, Read
  <2>2. ids[n] \in Orders /\ st \in Statuses /\ (st \in Final => Ended(ids[n]))
    BY <1>0, <2>1 DEF Records, Tell
  <2>3. seen' = Append(seen, st)
    BY <1>3 DEF GetNext
  <2> HIDE DEF st
  <2>4. /\ seen' \in Seq(Statuses) /\ Len(seen') = n /\ seen'[n] = st
        /\ \A i \in 1..Len(seen) : seen'[i] = seen[i]
    BY <1>0, <2>2, <2>3, AppendProperties
  <2>5. \A i \in 1..Len(seen') : i = n \/ i \in 1..Len(seen)
    BY <1>0, <2>4
  <2>6. Read'
    <3>1. ASSUME NEW i \in 1..Len(seen'), seen'[i] \in Final PROVE Ended(ids'[i])
      BY <1>0, <2>1, <2>2, <2>4, <2>5, <3>1 DEF Read
    <3>2. \A x : Ended(x)' <=> Ended(x)
      BY <1>v DEF Ended
    <3>3. \A i \in 1..Len(seen') : seen'[i] \in Final => executed'[ids'[i]] > 0 \/ apiPc'[ids'[i]] = "rejected"
      BY <1>v, <3>1 DEF Ended
    <3> QED BY <1>0, <2>1, <2>4, <3>3 DEF Read, Ended
  <2>7. ASSUME Kept' PROVE Found'
    <3>1. Kept /\ Found
      BY <1>v, <2>7 DEF Kept, Happened, ScanInv
    <3>2. st # "absent"
      BY <2>1, <3>1 DEF Found, Exists, st
    <3> QED BY <1>v, <2>1, <2>4, <2>5, <3>1, <3>2 DEF Found, NoTwice, Exists
  <2> QED BY <1>1, <2>6, <2>7 DEF ScanInv
<1> QED BY <1>2, <1>3 DEF ScanStep

LEMMA NextScanInv == ScanInv /\ [ScanNext]_scanVars => ScanInv'
<1>1. ASSUME ScanInv, UNCHANGED scanVars PROVE ScanInv'
  BY <1>1, PipelineKeepsScanInv DEF scanVars
<1> QED BY <1>1, PipelineKeepsScanInv, ScanKeepsScanInv DEF ScanNext

LEMMA ScanInvariance == ScanSpec => []ScanInv
BY InitScanInv, NextScanInv, PTL DEF ScanSpec

\* A count of 0 means that there is nothing to count.
LEMMA CountZero ==
  ASSUME seen \in Seq(Statuses), NEW status
  PROVE  /\ Count(status) \in Nat
         /\ Count(status) = 0 => \A i \in 1..Len(seen) : seen[i] # status
<1> DEFINE S == {i \in 1..Len(seen) : seen[i] = status}
<1>1. Len(seen) \in Nat
  BY LenProperties
<1>2. IsFiniteSet(1..Len(seen)) /\ S \subseteq 1..Len(seen)
  BY <1>1, FS_Interval
<1>3. IsFiniteSet(S)
  BY <1>2, FS_Subset
<1> QED BY <1>3, FS_CardinalityType, FS_EmptySet DEF Count

LEMMA ZeroMeansServedHolds == ScanInv => ZeroMeansServed
<1> SUFFICES ASSUME ScanInv, Kept, Complete, Backlog = 0,
                    NEW i \in 1..Len(ids), apiPc[ids[i]] = "accepted"
             PROVE  executed[ids[i]] > 0
  BY DEF ZeroMeansServed, Kept
<1>1. seen \in Seq(Statuses) /\ i \in 1..Len(seen) /\ seen[i] \in Statuses
  BY ElementOfSeq DEF ScanInv, Read, Complete
<1>2. Count("queued") \in Nat /\ Count("running") \in Nat
  BY <1>1, CountZero
<1>3. Count("queued") = 0 /\ Count("running") = 0
  BY <1>2 DEF Backlog
<1>4. seen[i] # "queued" /\ seen[i] # "running"
  BY <1>1, <1>3, CountZero
<1>5. seen[i] # "absent"
  BY <1>1 DEF ScanInv, Found
<1>6. Ended(ids[i])
  BY <1>1, <1>4, <1>5 DEF ScanInv, Read, Statuses, Final
<1> QED BY <1>6 DEF Ended

LEMMA TotalIsListedHolds == ScanInv => TotalIsListed
<1> SUFFICES ASSUME ScanInv, Kept PROVE TotalIsListed
  BY DEF TotalIsListed, Kept
<1>0. Found /\ Read
  BY DEF ScanInv
<1>1. ASSUME Complete PROVE Total = Len(ids)
  <2>1. {i \in 1..Len(seen) : seen[i] # "absent"} = 1..Len(seen)
    BY <1>0 DEF Found
  <2>2. Len(seen) \in Nat
    BY <1>0, LenProperties DEF Read
  <2>3. \A n \in Nat : Cardinality(1..n) = n
    BY FS_Interval
  <2> QED BY <1>1, <2>1, <2>2, <2>3 DEF Total, Complete
<1> QED BY <1>0, <1>1 DEF TotalIsListed, Found, NoTwice

(***************************************************************************)
(* The load generator drives the pipeline; what it does besides is         *)
(* invisible to the records, but for a connection that it gives up.        *)
(***************************************************************************)
Disconnects ==
  /\ Spend("client")
  /\ UNCHANGED <<redis, api, kafka, workers, executed, scan>>

LEMMA LoadSteps == [LoadNext]_loadVars => [ScanNext]_scanVars \/ Disconnects
<1> SUFFICES ASSUME [LoadNext]_loadVars PROVE [ScanNext]_scanVars \/ Disconnects
  OBVIOUS
<1>1. ASSUME NEW o \in Orders, GeneratorStep(o), UNCHANGED scan
      PROVE  [ScanNext]_scanVars \/ Disconnects
  <2>1. CASE StartRequest(o)
    BY <1>1, <2>1 DEF StartRequest, ScanNext, Next, Client
  <2>2. CASE RequestRefused(o) \/ TimesOut(o)
    BY <1>1, <2>2 DEF RequestRefused, TimesOut, ClientFails, Disconnects
  <2>3. CASE Answered(o) \/ Collect(o)
    BY <1>1, <2>3 DEF Answered, Collect, scanVars
  <2> QED BY <1>1, <2>1, <2>2, <2>3 DEF GeneratorStep
<1>2. ASSUME Leave, UNCHANGED scan PROVE UNCHANGED scanVars
  BY <1>2 DEF Leave, scanVars
<1>3. ASSUME PipelineStep, UNCHANGED scan PROVE ScanNext
  BY <1>3 DEF PipelineStep, ScanNext, Next
<1>4. ASSUME ScanStep PROVE ScanNext
  BY <1>4 DEF ScanNext
<1>5. ASSUME UNCHANGED loadVars PROVE UNCHANGED scanVars
  BY <1>5 DEF loadVars
<1> QED BY <1>1, <1>2, <1>3, <1>4, <1>5 DEF LoadNext

LEMMA DisconnectKeepsListInv ==
  ASSUME ListInv, Disconnects
  PROVE  /\ ListInv'
         /\ \A k : Happened(k)' <=> Happened(k) \/ k = "client"
         /\ budget'.lost = budget.lost
<1>0. UNCHANGED <<redis, api, kafka, workers, executed>> /\ QueueInv /\ TypeInv
  BY DEF Disconnects, ListInv, QueueInv
<1> USE <1>0 DEF redis, api, kafka, workers
<1>1. /\ BudgetOK' /\ \A k : Happened(k)' <=> Happened(k) \/ k = "client"
      /\ budget'.lost = budget.lost
  BY SpendType DEF Disconnects, FaultKinds
<1>2. QueueInv'
  <2>1. TypeInv'
    BY <1>1 DEF TypeInv, TypeOK, BudgetOK, Targets
  <2>2. Sending' /\ Handling'
    BY <1>1 DEF QueueInv, Sending, Handling, Holds, Logged, InLog, PublishedOnce, AtLeastOnce
  <2> QED BY <2>1, <2>2 DEF QueueInv
<1>3. Kept' <=> Kept
  BY <1>1 DEF Kept
<1>4. Stored => Stored'
  BY <1>1 DEF Stored, Logged, InLog
<1>5. Listed => Listed'
  BY DEF Listed, NoTwice, Listable
<1> QED BY <1>1, <1>2, <1>3, <1>4, <1>5 DEF ListInv

LEMMA DisconnectKeepsScanInv ==
  ASSUME ScanInv, Disconnects
  PROVE  ScanInv'
<1>0. UNCHANGED <<redis, api, kafka, workers, executed, scan>> /\ ListInv
  BY DEF Disconnects, ScanInv
<1> USE <1>0 DEF redis, api, kafka, workers, scan
<1>1. ListInv' /\ (Kept' <=> Kept)
  BY DisconnectKeepsListInv DEF Kept
<1>2. Tell' /\ Read'
  BY DEF ScanInv, Tell, Read, Ended
<1>3. Found => Found'
  BY DEF Found, NoTwice
<1> QED BY <1>1, <1>2, <1>3 DEF ScanInv

LEMMA DisconnectKeepsSettleInv ==
  ASSUME SettleInv, Disconnects
  PROVE  SettleInv'
<1>0. UNCHANGED <<redis, api, kafka, workers, executed>> /\ ListInv /\ RecordInv
  BY DEF Disconnects, SettleInv
<1> USE <1>0 DEF redis, api, kafka, workers
<1>1. /\ ListInv' /\ \A k : k # "client" => (Happened(k)' <=> Happened(k))
      /\ budget'.lost = budget.lost
  BY DisconnectKeepsListInv
<1>2. /\ (Redelivery' <=> Redelivery) /\ (Kept' <=> Kept) /\ (Quiet' <=> Quiet)
      /\ (Evicted' <=> Evicted) /\ (Happened("workerCrash")' <=> Happened("workerCrash"))
  BY <1>1 DEF Redelivery, Evicted, Kept, Quiet
<1>3. RecordInv'
  <2>1. Truth'
    BY <1>1 DEF RecordInv, Truth, CopyTrue, WorkerCopyTrue, True, ClaimsTrue, LinkTrue,
       Consistent, Logged, InLog
  <2> QED BY <1>1, <2>1 DEF RecordInv, ListInv
<1>4. \A o \in Orders : /\ Over(o)' <=> Over(o)
                        /\ Mid(o)' <=> Mid(o)
                        /\ Retried(o)' <=> Retried(o)
                        /\ InLog(o)' <=> InLog(o)
  BY DEF Over, CommittedOrders, Mid, Retried, InLog
<1>5. Owning' /\ Unretried' /\ NoneLost' /\ NoneRejected'
  BY <1>1, <1>2 DEF SettleInv, Owning, Unretried, NoneLost, NoneRejected
<1>6. RejectedFinal' /\ OverFinal' /\ FinalOver'
  BY <1>1, <1>2, <1>4 DEF SettleInv, RejectedFinal, OverFinal, FinalOver
<1>7. RetriedFailed' /\ RetriedLinked' /\ CompletedRecovered'
  BY <1>2, <1>4 DEF SettleInv, RetriedFailed, RetriedLinked, CompletedRecovered
<1>8. UnfinishedShown'
  BY <1>2, <1>4 DEF SettleInv, UnfinishedShown, Exists
<1> QED BY <1>1, <1>3, <1>5, <1>6, <1>7, <1>8 DEF SettleInv

LEMMA LoadInvariance == LoadSpec => []ScanInv
<1>1. LoadInit => ScanInv
  BY InitScanInv DEF LoadInit
<1>2. ScanInv /\ [LoadNext]_loadVars => ScanInv'
  BY LoadSteps, NextScanInv, DisconnectKeepsScanInv
<1> QED BY <1>1, <1>2, PTL DEF LoadSpec

\* A backlog of 0 in the metrics means that every accepted order the scan
\* listed has been processed, whatever clients the pipeline has, retries and
\* faults included, and under the load generator.
THEOREM ZeroBacklogIsServed == (ScanSpec => []ZeroMeansServed) /\ (LoadSpec => []ZeroMeansServed)
BY ScanInvariance, LoadInvariance, ZeroMeansServedHolds, PTL

\* The metrics' total is the number of ids the scan listed, and they differ.
THEOREM TotalCountsEachOnce == (ScanSpec => []TotalIsListed) /\ (LoadSpec => []TotalIsListed)
BY ScanInvariance, LoadInvariance, TotalIsListedHolds, PTL

(***************************************************************************)
(* The pipeline keeps its promises to the load generator and next to the   *)
(* controller's scans, not only on its own.                                *)
(***************************************************************************)
Promises ==
  /\ AtLeastOnce /\ AcceptedNotLost /\ PublishedOnce
  /\ StatusJustified /\ LinkPublished /\ RecordConsistent
  /\ ListedOnce /\ Settled /\ RetryLeavesTrace

LEMMA PromisesHold == SettleInv => Promises
<1> SUFFICES ASSUME SettleInv PROVE Promises
  OBVIOUS
<1>1. RecordInv /\ ListInv /\ QueueInv
  BY DEF SettleInv, RecordInv
<1>2. AtLeastOnce /\ PublishedOnce
  BY <1>1 DEF QueueInv, Handling, Sending
<1>3. StatusJustified /\ LinkPublished /\ RecordConsistent
  BY <1>1 DEF RecordInv, Truth, True, LinkTrue, Consistent,
              StatusJustified, LinkPublished, RecordConsistent
<1>4. ListedOnce
  BY <1>1 DEF ListInv, Kept, Listed, NoTwice, Listable, ListedOnce
<1> QED BY <1>1, <1>2, <1>3, <1>4, AcceptedNotLostHolds, SettledHolds, RetryLeavesTraceHolds
        DEF Promises

\* Scanned by the controller and loaded by load_generator.py, whose requests time
\* out and are refused, the pipeline keeps every promise proved of Spec.
THEOREM ComposedPromises == (ScanSpec => []Promises) /\ (LoadSpec => []Promises)
<1>1. ScanInit => SettleInv
  BY InitSettleInv DEF ScanInit
<1>2. SettleInv /\ [ScanNext]_scanVars => SettleInv'
  <2>1. [ScanNext]_scanVars => [Next]_vars
    BY DEF ScanNext, ScanStep, scanVars
  <2> QED BY <2>1, NextSettleInv
<1>3. LoadInit => SettleInv
  BY <1>1 DEF LoadInit
<1>4. SettleInv /\ [LoadNext]_loadVars => SettleInv'
  BY <1>2, LoadSteps, DisconnectKeepsSettleInv
<1> QED BY <1>1, <1>2, <1>3, <1>4, PromisesHold, PTL DEF ScanSpec, LoadSpec

(***************************************************************************)
(* What the load generator reports.                                        *)
(***************************************************************************)
Reported ==
  /\ LoadTypeOK
  /\ \A o \in Orders : future[o] = "ok" => apiPc[o] = "accepted"
  /\ \A o \in submitted : future[o] = "ok"
  /\ main = "printed" => submitted = Orders

LoadInv == TypeInv /\ Reported

LEMMA AcceptedStays ==
  ASSUME TypeInv, [Next]_vars, NEW o \in Orders, apiPc[o] = "accepted"
  PROVE  apiPc'[o] = "accepted"
<1>0. apiPc \in [Orders -> ApiPcs]
  BY DEF TypeInv, TypeOK
<1>1. ASSUME NEW x \in Orders, SetRecord(x) \/ PushRecent(x) \/ TrimRecent(x)
      PROVE  apiPc'[o] = "accepted"
  BY <1>0, <1>1 DEF SetRecord, PushRecent, TrimRecent, ApiGoto
<1>2. ASSUME NEW x \in Orders, NEW to \in ApiPcs, Proceeds(x, to)
      PROVE  apiPc'[o] = "accepted"
  BY <1>0, <1>2 DEF Proceeds, ApiActive
<1> QED BY <1>1, <1>2, ApiMoves

LEMMA NextLoadInv == LoadInv /\ [LoadNext]_loadVars => LoadInv'
<1> SUFFICES ASSUME LoadInv, [LoadNext]_loadVars PROVE LoadInv'
  OBVIOUS
<1>0. /\ TypeInv /\ Reported /\ LoadTypeOK
      /\ future \in [Orders -> Futures] /\ submitted \subseteq Orders /\ main \in Mains
  BY DEF LoadInv, Reported, LoadTypeOK
<1>1. [Next]_vars \/ Disconnects
  BY LoadSteps DEF ScanNext, ScanStep, scanVars
<1>2. TypeInv'
  <2>1. ASSUME Disconnects PROVE TypeInv'
    <3>1. BudgetOK'
      BY <1>0, <2>1, SpendType DEF Disconnects, FaultKinds
    <3> QED BY <1>0, <2>1, <3>1
            DEF Disconnects, redis, api, kafka, workers, TypeInv, TypeOK, BudgetOK, Targets
  <2> QED BY <1>0, <1>1, <2>1, NextTypeInv
<1>3. \A o \in Orders : apiPc[o] = "accepted" => apiPc'[o] = "accepted"
  BY <1>0, <1>1, AcceptedStays DEF Disconnects, api
<1>4. ASSUME UNCHANGED load PROVE Reported'
  BY <1>0, <1>3, <1>4 DEF load, Reported, LoadTypeOK
<1>5. ASSUME NEW o \in Orders, StartRequest(o) PROVE Reported'
  BY <1>0, <1>3, <1>5 DEF StartRequest, Resolve, Reported, LoadTypeOK, Futures
<1>6. ASSUME NEW o \in Orders, RequestRefused(o) \/ TimesOut(o) PROVE Reported'
  BY <1>0, <1>3, <1>6
  DEF RequestRefused, TimesOut, ClientFails, Resolve, Reported, LoadTypeOK, Futures
<1>7. ASSUME NEW o \in Orders, Answered(o) PROVE Reported'
  <2>1. /\ apiPc' = apiPc /\ UNCHANGED <<main, submitted>> /\ future[o] = "running"
        /\ future' = [future EXCEPT ![o] = IF apiPc[o] = "accepted" THEN "ok" ELSE "error"]
    BY <1>7 DEF Answered, Resolve, vars, api
  <2> QED BY <1>0, <2>1 DEF Reported, LoadTypeOK, Futures
<1>8. ASSUME NEW o \in Orders, Collect(o) PROVE Reported'
  BY <1>0, <1>3, <1>8 DEF Collect, Reported, LoadTypeOK, Mains
<1>9. ASSUME Leave PROVE Reported'
  BY <1>0, <1>3, <1>9 DEF Leave, Reported, LoadTypeOK, Mains
<1>10. UNCHANGED load \/ Leave \/ \E o \in Orders : GeneratorStep(o)
  BY DEF LoadNext, loadVars
<1> QED BY <1>0, <1>2, <1>3, <1>4, <1>5, <1>6, <1>7, <1>8, <1>9, <1>10 DEF GeneratorStep, LoadInv

LEMMA LoadTypesInvariance == LoadSpec => []LoadInv
<1>1. LoadInit => LoadInv
  BY InitTypeInv DEF LoadInit, ScanInit, LoadInv, Reported, LoadTypeOK, Futures, Mains
<1> QED BY <1>1, NextLoadInv, PTL DEF LoadSpec

\* The load generator's variables keep their types.
THEOREM LoadTypeCorrect == LoadSpec => []LoadTypeOK
<1>1. LoadInv => LoadTypeOK
  BY DEF LoadInv, Reported
<1> QED BY <1>1, LoadTypesInvariance, PTL

\* The script prints its last line only if every order was accepted, for any
\* number of orders, threads and faults.
THEOREM ReportsAreTrue == LoadSpec => []ReportIsTrue
<1>1. LoadInv => ReportIsTrue
  BY DEF LoadInv, Reported, ReportIsTrue
<1> QED BY <1>1, LoadTypesInvariance, PTL
===============================================================================
