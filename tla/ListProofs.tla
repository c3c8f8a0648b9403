------------------------------ MODULE ListProofs ------------------------------
(***************************************************************************)
(* What jobs:recent lists, and which records are there to be listed.       *)
(***************************************************************************)
EXTENDS RecordProofs, FiniteSetTheorems

(***************************************************************************)
(* The list functions of JobStore, entry by entry.                         *)
(***************************************************************************)
LEMMA PushedList ==
  ASSUME NEW list \in Seq(Orders), NEW o \in Orders
  PROVE  /\ Pushed(list, o) \in Seq(Orders)
         /\ Len(Pushed(list, o)) = Len(list) + 1
         /\ Pushed(list, o)[1] = o
         /\ \A i \in 1..Len(list) : Pushed(list, o)[i + 1] = list[i]
<1>1. <<o>> \in Seq(Orders) /\ Len(<<o>>) = 1 /\ <<o>>[1] = o
  OBVIOUS
<1>2. Len(list) \in Nat
  BY LenProperties
<1> QED BY <1>1, <1>2, ConcatProperties DEF Pushed

LEMMA TrimmedList ==
  ASSUME NEW list \in Seq(Orders), NEW cap \in Nat \ {0}
  PROVE  /\ Trimmed(list, cap) \in Seq(Orders)
         /\ Len(Trimmed(list, cap)) = IF Len(list) > cap THEN cap ELSE Len(list)
         /\ \A i \in 1..Len(Trimmed(list, cap)) : Trimmed(list, cap)[i] = list[i]
<1>1. Len(list) \in Nat /\ \A i \in 1..Len(list) : list[i] \in Orders
  BY LenProperties, ElementOfSeq
<1>2. CASE Len(list) > cap
  <2>1. /\ SubSeq(list, 1, cap) \in Seq(Orders)
        /\ Len(SubSeq(list, 1, cap)) = cap
        /\ \A i \in 1..cap : SubSeq(list, 1, cap)[i] = list[i]
    BY <1>1, <1>2, SubSeqProperties
  <2> QED BY <1>2, <2>1 DEF Trimmed
<1>3. CASE ~(Len(list) > cap)
  BY <1>1, <1>3 DEF Trimmed
<1> QED BY <1>2, <1>3

(***************************************************************************)
(* What a step does to the program counters of the handlers, the list, the *)
(* faults that happened, and the records.                                  *)
(***************************************************************************)
Late == {"send", "await", "markRead", "markWrite", "rejected", "linkRead", "linkWrite", "accepted"}

Proceeds(o, to) ==
  /\ apiPc' = [apiPc EXCEPT ![o] = to]
  /\ UNCHANGED recent
  /\ \/ apiPc[o] = "unused" /\ to = "set"
     \/ apiPc[o] \in Late \cap ApiActive /\ to \in Late
     \/ apiPc[o] \in ApiActive /\ to = "crashed"

LEMMA ApiMoves ==
  ASSUME TypeInv, [Next]_vars
  PROVE  \/ UNCHANGED apiPc
         \/ \E o \in Orders : SetRecord(o) \/ PushRecent(o) \/ TrimRecent(o)
         \/ \E o \in Orders, to \in ApiPcs : Proceeds(o, to)
<1> DEFINE Goal == \/ UNCHANGED apiPc
                   \/ \E o \in Orders : SetRecord(o) \/ PushRecent(o) \/ TrimRecent(o)
                   \/ \E o \in Orders, to \in ApiPcs : Proceeds(o, to)
<1> USE DEF ApiGoto, ApiPcs, ApiActive, ApiDone, Late, redis
<1>1. ASSUME NEW o \in Orders, NEW ff \in BOOLEAN, PlaceOrder(o, ff) PROVE Goal
  <2>1. Proceeds(o, "set")
    BY <1>1 DEF PlaceOrder, Proceeds
  <2> QED BY <2>1
<1>2. ASSUME NEW o \in Orders, NEW f \in Orders, RetryOrder(o, f) PROVE Goal
  <2>1. Proceeds(o, "set")
    BY <1>2 DEF RetryOrder, Proceeds
  <2> QED BY <2>1
<1>3. ASSUME NEW o \in Orders, ApiStep(o) PROVE Goal
  <2>1. CASE SetRecord(o) \/ PushRecent(o) \/ TrimRecent(o)
    BY <2>1
  <2>2. CASE SendOrder(o)
    <3>1. Proceeds(o, "await")
      BY <2>2 DEF SendOrder, Proceeds
    <3> QED BY <3>1
  <2>3. CASE AckPublish(o)
    <3>1. Proceeds(o, "accepted") \/ Proceeds(o, "linkRead")
      BY <2>3 DEF AckPublish, Proceeds
    <3> QED BY <3>1
  <2>4. CASE MarkFailedRead(o)
    <3>1. Proceeds(o, "markWrite") \/ Proceeds(o, "rejected")
      BY <2>4 DEF MarkFailedRead, Proceeds
    <3> QED BY <3>1
  <2>5. CASE MarkFailedWrite(o)
    <3>1. Proceeds(o, "rejected")
      BY <2>5 DEF MarkFailedWrite, Proceeds
    <3> QED BY <3>1
  <2>6. CASE LinkRead(o)
    <3>1. Proceeds(o, "linkWrite") \/ Proceeds(o, "accepted")
      BY <2>6 DEF LinkRead, Proceeds
    <3> QED BY <3>1
  <2>7. CASE LinkWrite(o)
    <3>1. Proceeds(o, "accepted")
      BY <2>7 DEF LinkWrite, Proceeds
    <3> QED BY <3>1
  <2> QED BY <1>3, <2>1, <2>2, <2>3, <2>4, <2>5, <2>6, <2>7 DEF ApiStep
<1>4. ASSUME NEW o \in Orders, SendRefused(o) PROVE Goal
  <2>1. Proceeds(o, "markRead")
    BY <1>4 DEF SendRefused, Proceeds
  <2> QED BY <2>1
<1>5. ASSUME NEW o \in Orders, NEW lost \in BOOLEAN, PublishFailed(o, lost) PROVE Goal
  <2>1. Proceeds(o, "markRead")
    BY <1>5 DEF PublishFailed, Proceeds
  <2> QED BY <2>1
<1>6. ASSUME NEW o \in Orders, NEW lost \in BOOLEAN, ApiCrash(o, lost) PROVE Goal
  <2>1. Proceeds(o, "crashed")
    BY <1>6 DEF ApiCrash, Proceeds
  <2> QED BY <2>1
<1>7. ASSUME NEW w \in Workers, WorkerStep(w) PROVE Goal
  BY <1>7 DEF WorkerStep, Fetch, CheckExists, SaveJob, RunRead, RunWrite, EndRead, EndWrite,
     RecRead, RecWrite, Commit, CommitFails, DrainExit, WriteBack, api
<1>8. ASSUME \/ \E w \in Workers : WorkerCrash(w) \/ Sigterm(w)
             \/ \E w \in Workers, p \in Partitions : Evict(w, p) \/ Assign(w, p)
             \/ \E o \in Orders, p \in Partitions : BrokerAppend(o, p)
             \/ RedisLoss \/ BrokerLoss \/ Waiting \/ UNCHANGED vars
      PROVE  Goal
  BY <1>8 DEF WorkerCrash, Sigterm, Evict, Assign, BrokerAppend, RedisLoss, BrokerLoss, Waiting,
     vars, api
<1> HIDE DEF Goal
<1>9. Goal
  BY <1>1, <1>2, <1>3, <1>4, <1>5, <1>6, <1>7, <1>8 DEF Next, Client, Faults
<1> QED BY <1>9 DEF Goal

LEMMA RecentMoves ==
  ASSUME [Next]_vars
  PROVE  \/ UNCHANGED recent
         \/ \E o \in Orders : PushRecent(o) \/ TrimRecent(o)
         \/ \E w \in Workers : SaveJob(w)
         \/ RedisLoss
<1>1. ASSUME NEW o \in Orders, ApiStep(o)
      PROVE  UNCHANGED recent \/ PushRecent(o) \/ TrimRecent(o)
  BY <1>1 DEF ApiStep, SetRecord, SendOrder, AckPublish, MarkFailedRead, MarkFailedWrite,
     LinkRead, LinkWrite, redis
<1>2. ASSUME NEW w \in Workers, WorkerStep(w) PROVE UNCHANGED recent \/ SaveJob(w)
  BY <1>2 DEF WorkerStep, Fetch, CheckExists, RunRead, RunWrite, EndRead, EndWrite,
     RecRead, RecWrite, Commit, CommitFails, DrainExit, WriteBack, redis
<1>3. ASSUME Faults PROVE UNCHANGED recent \/ RedisLoss
  BY <1>3 DEF Faults, SendRefused, PublishFailed, ApiCrash, WorkerCrash, Sigterm, Evict,
     BrokerLoss, redis
<1>4. ASSUME \/ Client \/ Waiting \/ UNCHANGED vars
             \/ \E o \in Orders, p \in Partitions : BrokerAppend(o, p)
             \/ \E w \in Workers, p \in Partitions : Assign(w, p)
      PROVE  UNCHANGED recent
  BY <1>4 DEF Client, PlaceOrder, RetryOrder, Waiting, vars, BrokerAppend, Assign, redis
<1> QED BY <1>1, <1>2, <1>3, <1>4 DEF Next

\* The list grows by pushes, each of which waits for its trim.
Pending == {o \in Orders : apiPc[o] \in {"trim", "crashed"}}

ListBound == IsFiniteSet(Pending) /\ Len(recent) <= ListCap + Cardinality(Pending)

LEMMA InitListBound == Init => ListBound
<1> SUFFICES ASSUME Init PROVE ListBound
  OBVIOUS
<1>1. Pending = {} /\ Len(recent) = 0
  BY DEF Init, Pending
<1> QED BY <1>1, FS_EmptySet, PipelineAssumption DEF ListBound

LEMMA NextListBound == TypeInv /\ ListBound /\ [Next]_vars => ListBound'
<1> SUFFICES ASSUME TypeInv, ListBound, [Next]_vars PROVE ListBound'
  OBVIOUS
<1>0. /\ recent \in Seq(Orders) /\ Len(recent) \in Nat /\ ListCap \in Nat \ {0}
      /\ apiPc \in [Orders -> ApiPcs] /\ IsFiniteSet(Pending) /\ Cardinality(Pending) \in Nat
      /\ Len(recent) <= ListCap + Cardinality(Pending)
  BY PipelineAssumption, LenProperties, FS_CardinalityType DEF TypeInv, TypeOK, ListBound
<1>a. ASSUME NEW o \in Orders
      PROVE  /\ IsFiniteSet(Pending \cup {o}) /\ Cardinality(Pending \cup {o}) \in Nat
             /\ Cardinality(Pending \cup {o}) >= Cardinality(Pending)
             /\ o \notin Pending => Cardinality(Pending \cup {o}) = Cardinality(Pending) + 1
  <2>1. /\ IsFiniteSet(Pending \cup {o})
        /\ Cardinality(Pending \cup {o})
             = IF o \in Pending THEN Cardinality(Pending) ELSE Cardinality(Pending) + 1
    BY <1>0, FS_AddElement
  <2> QED BY <1>0, <2>1
<1>c. ASSUME NEW S, IsFiniteSet(S), Pending' = S, Len(recent') <= ListCap + Cardinality(S)
      PROVE  ListBound'
  BY <1>c DEF ListBound
<1>b. ASSUME Len(recent') \in Nat, Len(recent') <= ListCap, IsFiniteSet(Pending') PROVE ListBound'
  <2>1. Cardinality(Pending') \in Nat
    BY <1>b, FS_CardinalityType
  <2> QED BY <1>0, <1>b, <2>1 DEF ListBound
<1>1. ASSUME NEW o \in Orders, PushRecent(o) PROVE ListBound'
  <2>1. Pending' = Pending \cup {o} /\ o \notin Pending
    BY <1>0, <1>1 DEF PushRecent, ApiGoto, Pending
  <2>2. Len(recent') = Len(recent) + 1
    BY <1>0, <1>1, PushedList DEF PushRecent
  <2> DEFINE n == Cardinality(Pending \cup {o})
  <2>3. n \in Nat /\ n = Cardinality(Pending) + 1
    BY <1>a, <2>1
  <2> HIDE DEF n
  <2>4. Len(recent') <= ListCap + n
    BY <1>0, <2>2, <2>3
  <2> QED BY <1>a, <1>c, <2>1, <2>4 DEF n
<1>2. ASSUME NEW o \in Orders, TrimRecent(o) PROVE ListBound'
  <2>1. Pending' = Pending \ {o}
    BY <1>0, <1>2 DEF TrimRecent, ApiGoto, Pending
  <2>2. Len(recent') \in Nat /\ Len(recent') <= ListCap
    BY <1>0, <1>2, TrimmedList DEF TrimRecent
  <2>3. IsFiniteSet(Pending')
    BY <1>0, <2>1, FS_RemoveElement
  <2> QED BY <1>b, <2>2, <2>3
<1>3. ASSUME NEW w \in Workers, SaveJob(w) PROVE ListBound'
  <2>1. Pending' = Pending
    BY <1>3 DEF SaveJob, api, Pending
  <2>2. wJob[w] \in Orders
    BY <1>3 DEF SaveJob, WorkerGoto, TypeInv, Targets
  <2>3. Len(recent') \in Nat /\ Len(recent') <= ListCap
    <3> DEFINE longer == Pushed(recent, wJob[w])
    <3>1. longer \in Seq(Orders) /\ Len(longer) = Len(recent) + 1
      BY <1>0, <2>2, PushedList
    <3> HIDE DEF longer
    <3>2. Len(Trimmed(longer, ListCap)) = IF Len(longer) > ListCap THEN ListCap ELSE Len(longer)
      BY <1>0, <3>1, TrimmedList
    <3>3. recent' = Trimmed(longer, ListCap)
      BY <1>3 DEF SaveJob, longer
    <3> QED BY <1>0, <3>1, <3>2, <3>3
  <2> QED BY <1>0, <1>b, <2>1, <2>3
<1>4. CASE RedisLoss
  <2>1. Pending' = Pending /\ Len(recent') = 0
    BY <1>4 DEF RedisLoss, api, Pending
  <2> QED BY <1>0, <1>b, <2>1
<1>5. ASSUME UNCHANGED recent, \A o \in Orders : ~TrimRecent(o) PROVE ListBound'
  <2>1. Pending' = Pending \/ \E o \in Orders : Pending' = Pending \cup {o}
    <3>1. CASE UNCHANGED apiPc
      BY <3>1 DEF Pending
    <3>2. ASSUME NEW o \in Orders, PushRecent(o) PROVE FALSE
      <4>1. Len(recent') = Len(recent) + 1
        BY <1>0, <3>2, PushedList DEF PushRecent
      <4> QED BY <1>0, <1>5, <4>1
    <3>3. ASSUME NEW o \in Orders, SetRecord(o) PROVE Pending' = Pending
      BY <1>0, <3>3 DEF SetRecord, ApiGoto, Pending
    <3>4. ASSUME NEW o \in Orders, NEW to \in ApiPcs, Proceeds(o, to)
          PROVE  Pending' = Pending \/ Pending' = Pending \cup {o}
      BY <1>0, <3>4 DEF Proceeds, Late, ApiActive, Pending
    <3> QED BY <1>5, <3>1, <3>2, <3>3, <3>4, ApiMoves
  <2>2. CASE Pending' = Pending
    BY <1>0, <1>5, <1>c, <2>2
  <2>3. ASSUME NEW o \in Orders, Pending' = Pending \cup {o} PROVE ListBound'
    <3> DEFINE n == Cardinality(Pending \cup {o})
    <3>1. n \in Nat /\ n >= Cardinality(Pending)
      BY <1>a
    <3> HIDE DEF n
    <3>2. Len(recent') <= ListCap + n
      BY <1>0, <1>5, <3>1
    <3> QED BY <1>a, <1>c, <2>3, <3>2 DEF n
  <2> QED BY <2>1, <2>2, <2>3
<1> QED BY <1>1, <1>2, <1>3, <1>4, <1>5, RecentMoves

\* jobs:recent exceeds its cap only by the pushes whose trim is pending or lost,
\* for any number of orders, workers and faults.
THEOREM ListIsBounded == Spec => []RecentBounded
<1>1. ListBound => RecentBounded
  BY DEF ListBound, RecentBounded, Pending
<1> QED BY <1>1, InitTypeInv, NextTypeInv, InitListBound, NextListBound, PTL DEF Spec

(***************************************************************************)
(* As long as Redis keeps its data, an order that has been published or    *)
(* retried has a record, no record disappears, and no worker saves a job.  *)
(***************************************************************************)
Kept == ~Happened("redisLoss")

\* What has happened has happened, and a fault is on record once it has.
LEMMA HappenedSteps ==
  ASSUME TypeInv, [Next]_vars
  PROVE  /\ \A kind : Happened(kind) => Happened(kind)'
         /\ RedisLoss => Happened("redisLoss")'
         /\ BrokerLoss => Happened("brokerLoss")'
         /\ \A w \in Workers : WorkerCrash(w) => Happened("workerCrash")'
         /\ \A w \in Workers, p \in Partitions : Evict(w, p) => Happened("evict")'
         /\ \A o \in Orders : SendRefused(o) => Happened("publish")'
         /\ \A o \in Orders, lost \in BOOLEAN : PublishFailed(o, lost) => Happened("publish")'
<1>1. ASSUME NEW kind \in FaultKinds, Spend(kind)
      PROVE  \A k : Happened(k)' <=> Happened(k) \/ k = kind
  BY <1>1, SpendType
<1>k. {"publish", "apiCrash", "workerCrash", "evict", "sigterm", "redisLoss", "brokerLoss"}
        \subseteq FaultKinds
  BY DEF FaultKinds
<1>2. /\ RedisLoss => Happened("redisLoss")'
      /\ BrokerLoss => Happened("brokerLoss")'
      /\ \A w \in Workers : WorkerCrash(w) => Happened("workerCrash")'
      /\ \A w \in Workers, p \in Partitions : Evict(w, p) => Happened("evict")'
      /\ \A o \in Orders : SendRefused(o) => Happened("publish")'
      /\ \A o \in Orders, lost \in BOOLEAN : PublishFailed(o, lost) => Happened("publish")'
  BY <1>1, <1>k DEF RedisLoss, BrokerLoss, WorkerCrash, Evict, SendRefused, PublishFailed
<1> DEFINE Grows == \A kind : Happened(kind) => Happened(kind)'
<1>3. CASE Faults
  <2>1. \E kind \in FaultKinds : Spend(kind)
    BY <1>3 DEF Faults, SendRefused, PublishFailed, ApiCrash, WorkerCrash, Sigterm, Evict,
       RedisLoss, BrokerLoss, FaultKinds
  <2> QED BY <1>1, <1>2, <2>1
<1>4. CASE Client
  <2>1. budget' = budget \/ budget' = [budget EXCEPT !.left["retry"] = @ - 1]
    BY <1>4 DEF Client, PlaceOrder, RetryOrder
  <2>2. budget'.spent = budget.spent
    BY <2>1 DEF TypeInv, TypeOK
  <2> QED BY <1>2, <2>2 DEF Happened
<1>5. ASSUME NEW o \in Orders, ApiStep(o) PROVE UNCHANGED budget
  BY <1>5 DEF ApiStep, SetRecord, PushRecent, TrimRecent, SendOrder, AckPublish, MarkFailedRead,
     MarkFailedWrite, LinkRead, LinkWrite
<1>6. ASSUME NEW w \in Workers, WorkerStep(w) PROVE UNCHANGED budget
  BY <1>6 DEF WorkerStep, Fetch, CheckExists, SaveJob, RunRead, RunWrite, EndRead, EndWrite,
     RecRead, RecWrite, Commit, CommitFails, DrainExit, WriteBack
<1>7. ASSUME \/ \E o \in Orders, p \in Partitions : BrokerAppend(o, p)
             \/ \E w \in Workers, p \in Partitions : Assign(w, p)
             \/ Waiting \/ UNCHANGED vars
      PROVE  UNCHANGED budget
  BY <1>7 DEF BrokerAppend, Assign, Waiting, vars
<1>8. ASSUME UNCHANGED budget PROVE Grows
  BY <1>8 DEF Happened
<1>9. Grows
  BY <1>3, <1>4, <1>5, <1>6, <1>7, <1>8 DEF Next
<1> QED BY <1>2, <1>9

LEMMA KeptSteps ==
  ASSUME TypeInv, [Next]_vars
  PROVE  Kept' => Kept /\ ~RedisLoss
BY HappenedSteps DEF Kept

Stored ==
  /\ \A o \in Orders : apiPc[o] \in {"unused", "set"} => ~Exists(store[o])
  /\ \A o \in Orders : apiPc[o] \notin {"unused", "set", "crashed"} => Exists(store[o])
  /\ \A o \in Orders : o \in buffer \/ Logged(o) => Exists(store[o])
  /\ \A o \in Orders : job[o].retryOf # NoOrder => Exists(store[job[o].retryOf])
  /\ \A o \in Orders : apiPc[o] = "linkWrite" => Exists(apiSnap[o])
  /\ \A w \in Workers : wPc[w] # "save"

LEMMA StoreKept ==
  ASSUME QueueInv, Stored, [Next]_vars, ~RedisLoss
  PROVE  \A x \in Orders : Exists(store[x])' <=> Exists(store[x]) \/ SetRecord(x)
<1> DEFINE Same == \A x \in Orders : Exists(store[x])' <=> Exists(store[x])
<1>0. /\ TypeInv /\ store \in [Orders -> Records] /\ job \in [Orders -> Jobs]
      /\ \A w \in Workers : wPc[w] # "idle" => wJob[w] \in Orders /\ Exists(store[wJob[w]])
  BY DEF QueueInv, TypeInv, TypeOK, Targets, Handling, Stored
<1>w. ASSUME NEW o \in Orders, NEW rec, Exists(rec), Exists(store[o]),
             store' = [store EXCEPT ![o] = rec]
      PROVE  Same
  BY <1>0, <1>w
<1>1. ASSUME NEW o \in Orders, SetRecord(o)
      PROVE  \A x \in Orders : Exists(store[x])' <=> Exists(store[x]) \/ SetRecord(x)
  <2>1. \A x \in Orders : Exists(store[x])' <=> Exists(store[x]) \/ x = o
    BY <1>0, <1>1 DEF SetRecord, NewRecord, Absent, Exists
  <2>2. \A x \in Orders : SetRecord(x) => x = o
    BY <1>0, <1>1 DEF SetRecord, ApiGoto, TypeInv, TypeOK
  <2> QED BY <1>1, <2>1, <2>2
<1>2. ASSUME NEW o \in Orders, MarkFailedWrite(o) PROVE Same
  <2>1. Exists(store[o])
    BY <1>2 DEF MarkFailedWrite, ApiGoto, Stored
  <2>2. Exists(MarkedFailed(apiSnap[o]))
    BY DEF MarkedFailed, Exists, QueueInv, TypeInv, TypeOK, Records
  <2> QED BY <1>2, <1>w, <2>1, <2>2 DEF MarkFailedWrite
<1>3. ASSUME NEW o \in Orders, LinkWrite(o) PROVE Same
  <2>1. job[o].retryOf \in Orders /\ Exists(store[job[o].retryOf])
    BY <1>0, <1>3 DEF LinkWrite, ApiGoto, Stored, TypeInv, Targets, Jobs
  <2>2. Exists(Linked(apiSnap[o], o))
    BY <1>0, <1>3 DEF LinkWrite, ApiGoto, Stored, Linked, Exists, TypeInv, TypeOK, Records
  <2> QED BY <1>3, <1>w, <2>1, <2>2 DEF LinkWrite
<1>4. ASSUME NEW w \in Workers, RunWrite(w) PROVE Same
  <2>1. Exists(Updated(wSnap[w], "running", FALSE, FALSE))
    BY DEF Updated, Exists, QueueInv, TypeInv, TypeOK, Records
  <2> QED BY <1>0, <1>4, <1>w, <2>1 DEF RunWrite, WriteBack, WorkerGoto
<1>5. ASSUME NEW w \in Workers, EndWrite(w) PROVE Same
  <2>1. Exists(Outcome(w))
    BY DEF Outcome, Updated, Exists, QueueInv, TypeInv, TypeOK, Records
  <2> QED BY <1>0, <1>5, <1>w, <2>1 DEF EndWrite, WriteBack, WorkerGoto
<1>6. ASSUME NEW w \in Workers, RecWrite(w) PROVE Same
  <2>1. wJob[w] \in Orders /\ job[wJob[w]].retryOf \in Orders
    BY <1>0, <1>6 DEF RecWrite, WriteBack, WorkerGoto, TypeInv, Targets, Jobs
  <2>2. Exists(MarkedRecovered(wSnap[w], wJob[w])) /\ Exists(store[job[wJob[w]].retryOf])
    BY <2>1, NoOrderAssumption
    DEF MarkedRecovered, Exists, QueueInv, TypeInv, TypeOK, Records, Stored
  <2> QED BY <1>6, <1>w, <2>1, <2>2 DEF RecWrite, WriteBack
<1>7. ASSUME UNCHANGED store PROVE Same
  BY <1>7
<1>8. ASSUME NEW o \in Orders,
             PushRecent(o) \/ TrimRecent(o) \/ SendOrder(o) \/ AckPublish(o)
               \/ MarkFailedRead(o) \/ LinkRead(o)
      PROVE  UNCHANGED store
  BY <1>8 DEF PushRecent, TrimRecent, SendOrder, AckPublish, MarkFailedRead, LinkRead, redis
<1>9. ASSUME NEW w \in Workers,
             \/ \E p \in Partitions : Fetch(w, p)
             \/ CheckExists(w) \/ RunRead(w) \/ EndRead(w) \/ RecRead(w)
             \/ Commit(w) \/ CommitFails(w) \/ DrainExit(w)
      PROVE  UNCHANGED store
  BY <1>9 DEF Fetch, CheckExists, RunRead, EndRead, RecRead, Commit, CommitFails, DrainExit, redis
<1>10. ASSUME \/ Faults \/ Client \/ Waiting \/ UNCHANGED vars
              \/ \E o \in Orders, p \in Partitions : BrokerAppend(o, p)
              \/ \E w \in Workers, p \in Partitions : Assign(w, p)
       PROVE  UNCHANGED store
  BY <1>10 DEF Faults, SendRefused, PublishFailed, ApiCrash, WorkerCrash, Sigterm, Evict,
     BrokerLoss, Client, PlaceOrder, RetryOrder, BrokerAppend, Assign, Waiting, vars, redis
<1>11. ASSUME NEW w \in Workers PROVE ~SaveJob(w)
  BY DEF SaveJob, WorkerGoto, Stored
<1> HIDE DEF Same
<1>12. Same \/ \E o \in Orders : SetRecord(o)
  BY <1>2, <1>3, <1>4, <1>5, <1>6, <1>7, <1>8, <1>9, <1>10, <1>11 DEF Next, ApiStep, WorkerStep
<1>13. ASSUME NEW x \in Orders, SetRecord(x) PROVE Exists(store[x])'
  BY <1>1, <1>13
<1> QED BY <1>1, <1>12, <1>13 DEF Same

LEMMA BufferSteps ==
  ASSUME [Next]_vars
  PROVE  \A o \in buffer' : o \in buffer \/ apiPc[o] \in {"send"} \cup Unanswered
<1>1. ASSUME NEW o \in Orders, ApiStep(o)
      PROVE  buffer' = buffer \/ (apiPc[o] = "send" /\ buffer' = buffer \cup {o})
  BY <1>1 DEF ApiStep, SetRecord, PushRecent, TrimRecent, SendOrder, AckPublish, MarkFailedRead,
     MarkFailedWrite, LinkRead, LinkWrite, ApiGoto, kafka
<1>2. ASSUME NEW w \in Workers, WorkerStep(w) PROVE buffer' = buffer
  BY <1>2 DEF WorkerStep, Fetch, CheckExists, SaveJob, RunRead, RunWrite, EndRead, EndWrite,
     RecRead, RecWrite, Commit, CommitFails, DrainExit, WriteBack, kafka
<1>3. ASSUME NEW o \in Orders, NEW lost \in BOOLEAN,
             SendRefused(o) \/ PublishFailed(o, lost) \/ ApiCrash(o, lost)
      PROVE  buffer' \subseteq buffer
  BY <1>3 DEF SendRefused, PublishFailed, ApiCrash, kafka
<1>4. ASSUME \/ \E w \in Workers : WorkerCrash(w) \/ Sigterm(w)
             \/ \E w \in Workers, p \in Partitions : Evict(w, p) \/ Assign(w, p)
             \/ Client \/ RedisLoss \/ Waiting \/ UNCHANGED vars
      PROVE  buffer' = buffer
  BY <1>4 DEF WorkerCrash, Sigterm, Evict, Assign, Client, PlaceOrder, RetryOrder, RedisLoss,
     Waiting, vars, kafka
<1>5. ASSUME NEW o \in Orders, NEW p \in Partitions, BrokerAppend(o, p)
      PROVE  buffer' \subseteq buffer
  BY <1>5 DEF BrokerAppend
<1>6. ASSUME BrokerLoss
      PROVE  \A o \in buffer' : o \in buffer \/ apiPc[o] \in Unanswered
  BY <1>6 DEF BrokerLoss
<1> QED BY <1>1, <1>2, <1>3, <1>4, <1>5, <1>6 DEF Next, Faults

LEMMA RetrySteps ==
  ASSUME TypeInv, [Next]_vars, NEW o \in Orders
  PROVE  \/ job'[o].retryOf = job[o].retryOf
         \/ job'[o].retryOf \in Orders /\ store[job'[o].retryOf].status = "failed"
<1>0. job \in [Orders -> Jobs]
  BY DEF TypeInv, TypeOK
<1>1. ASSUME NEW x \in Orders, NEW ff \in BOOLEAN, PlaceOrder(x, ff)
      PROVE  job'[o].retryOf = job[o].retryOf
  <2>1. job' = [job EXCEPT ![x] = [job[x] EXCEPT !.forceFail = ff]]
    BY <1>1 DEF PlaceOrder
  <2>2. \A j \in Jobs : [j EXCEPT !.forceFail = ff].retryOf = j.retryOf
    BY DEF Jobs
  <2> QED BY <1>0, <2>1, <2>2
<1>2. ASSUME NEW x \in Orders, NEW f \in Orders, RetryOrder(x, f)
      PROVE  \/ job'[o].retryOf = job[o].retryOf
             \/ job'[o].retryOf \in Orders /\ store[job'[o].retryOf].status = "failed"
  <2>1. job' = [job EXCEPT ![x] = RetryJob(f)] /\ store[f].status = "failed"
    BY <1>2 DEF RetryOrder
  <2>2. RetryJob(f).retryOf = f
    BY DEF RetryJob
  <2> QED BY <1>0, <2>1, <2>2
<1>3. ASSUME UNCHANGED job PROVE job'[o].retryOf = job[o].retryOf
  BY <1>3
<1>4. ASSUME ~Client PROVE UNCHANGED job
  <2>1. ASSUME NEW x \in Orders, ApiStep(x) PROVE UNCHANGED job
    BY <2>1 DEF ApiStep, SetRecord, PushRecent, TrimRecent, SendOrder, AckPublish,
       MarkFailedRead, MarkFailedWrite, LinkRead, LinkWrite
  <2>2. ASSUME NEW w \in Workers, WorkerStep(w) PROVE UNCHANGED job
    BY <2>2 DEF WorkerStep, Fetch, CheckExists, SaveJob, RunRead, RunWrite, EndRead, EndWrite,
       RecRead, RecWrite, Commit, CommitFails, DrainExit, WriteBack, api
  <2>3. ASSUME Faults PROVE UNCHANGED job
    BY <2>3 DEF Faults, SendRefused, PublishFailed, ApiCrash, WorkerCrash, Sigterm, Evict,
       RedisLoss, BrokerLoss, api
  <2>4. ASSUME \/ \E x \in Orders, p \in Partitions : BrokerAppend(x, p)
               \/ \E w \in Workers, p \in Partitions : Assign(w, p)
               \/ Waiting \/ UNCHANGED vars
        PROVE  UNCHANGED job
    BY <2>4 DEF BrokerAppend, Assign, Waiting, vars, api
  <2> QED BY <1>4, <2>1, <2>2, <2>3, <2>4 DEF Next
<1> QED BY <1>1, <1>2, <1>3, <1>4 DEF Client

LEMMA SaveSteps ==
  ASSUME TypeInv, [Next]_vars, NEW w \in Workers, wPc'[w] = "save"
  PROVE  wPc[w] = "save" \/ (wPc[w] = "exists" /\ ~Exists(store[wJob[w]]))
<1> DEFINE Goal == wPc'[w] = "save" =>
                     wPc[w] = "save" \/ (wPc[w] = "exists" /\ ~Exists(store[wJob[w]]))
<1>0. wPc \in [Workers -> WorkerPcs]
  BY DEF TypeInv, TypeOK
<1>1. ASSUME NEW v \in Workers, Die(v) PROVE Goal
  BY <1>0, <1>1 DEF Die
<1>2. ASSUME NEW v \in Workers, WorkerStep(v) PROVE Goal
  <2>1. CASE CheckExists(v)
    BY <1>0, <2>1 DEF CheckExists, WorkerGoto
  <2>2. CASE RunRead(v) \/ EndRead(v) \/ RecRead(v)
    BY <1>0, <1>1, <2>2 DEF RunRead, EndRead, RecRead, ReadInto, WorkerGoto
  <2>3. CASE RunWrite(v) \/ EndWrite(v) \/ RecWrite(v)
    BY <1>0, <2>3 DEF RunWrite, EndWrite, RecWrite, WriteBack, WorkerGoto
  <2>4. CASE SaveJob(v) \/ Commit(v) \/ \E p \in Partitions : Fetch(v, p)
    BY <1>0, <2>4 DEF SaveJob, Commit, Fetch, WorkerGoto
  <2>5. CASE CommitFails(v) \/ DrainExit(v)
    BY <1>1, <2>5 DEF CommitFails, DrainExit
  <2> QED BY <1>2, <2>1, <2>2, <2>3, <2>4, <2>5 DEF WorkerStep
<1>3. ASSUME UNCHANGED wPc PROVE Goal
  BY <1>3
<1>4. ASSUME Faults PROVE Goal
  <2>1. (\E v \in Workers : Die(v)) \/ UNCHANGED wPc
    BY <1>4 DEF Faults, SendRefused, PublishFailed, ApiCrash, WorkerCrash, Sigterm, Evict,
       RedisLoss, BrokerLoss, workers
  <2> QED BY <1>1, <1>3, <2>1
<1>5. ASSUME \/ Client \/ Waiting \/ UNCHANGED vars
             \/ \E o \in Orders : ApiStep(o)
             \/ \E o \in Orders, p \in Partitions : BrokerAppend(o, p)
             \/ \E v \in Workers, p \in Partitions : Assign(v, p)
      PROVE  UNCHANGED wPc
  BY <1>5 DEF Client, PlaceOrder, RetryOrder, ApiStep, SetRecord, PushRecent, TrimRecent,
     SendOrder, AckPublish, MarkFailedRead, MarkFailedWrite, LinkRead, LinkWrite,
     BrokerAppend, Assign, Waiting, vars, workers
<1> HIDE DEF Goal
<1>6. Goal
  BY <1>2, <1>3, <1>4, <1>5 DEF Next
<1> QED BY <1>6 DEF Goal

LEMMA InitStored == Init => Stored
<1> SUFFICES ASSUME Init PROVE Stored
  OBVIOUS
<1>1. \A o \in Orders : ~Logged(o)
  <2>1. budget.lost = {} /\ \A p \in Partitions : Len(log[p]) = 0
    BY DEF Init
  <2> QED BY <2>1 DEF InLog, Logged
<1> QED BY <1>1 DEF Init, Stored, NoJob, Absent, Exists

LEMMA NextStored ==
  ASSUME QueueInv, Stored, [Next]_vars, ~RedisLoss
  PROVE  Stored'
<1>0. /\ TypeInv /\ Sending /\ Handling /\ apiPc \in [Orders -> ApiPcs]
      /\ \A w \in Workers : wPc[w] # "idle" => wJob[w] \in Orders /\ Logged(wJob[w])
      /\ job \in [Orders -> Jobs]
  BY DEF QueueInv, TypeInv, TypeOK, Targets, Handling
<1>k. \A x \in Orders : Exists(store[x])' <=> Exists(store[x]) \/ SetRecord(x)
  BY StoreKept
<1>1. ASSUME NEW o \in Orders
      PROVE  /\ apiPc'[o] \in {"unused", "set"} => ~Exists(store[o])'
             /\ apiPc'[o] \notin {"unused", "set", "crashed"} => Exists(store[o])'
  <2>1. CASE SetRecord(o)
    <3>1. apiPc'[o] = "push"
      BY <1>0, <2>1 DEF SetRecord, ApiGoto
    <3> QED BY <1>k, <2>1, <3>1
  <2>2. ASSUME ~SetRecord(o)
        PROVE  /\ apiPc'[o] \in {"unused", "set"} => apiPc[o] \in {"unused", "set"}
               /\ apiPc'[o] \notin {"unused", "set", "crashed"} =>
                    apiPc[o] \notin {"unused", "set", "crashed"}
    <3>1. ASSUME NEW x \in Orders, SetRecord(x) \/ PushRecent(x) \/ TrimRecent(x)
          PROVE  apiPc'[o] = apiPc[o]
                   \/ {apiPc[o], apiPc'[o]} \subseteq {"push", "trim", "send"}
      BY <1>0, <2>2, <3>1 DEF SetRecord, PushRecent, TrimRecent, ApiGoto
    <3>2. ASSUME NEW x \in Orders, NEW to \in ApiPcs, Proceeds(x, to)
          PROVE  \/ apiPc'[o] = apiPc[o]
                 \/ apiPc[o] = "unused" /\ apiPc'[o] = "set"
                 \/ {apiPc[o], apiPc'[o]} \subseteq Late
                 \/ apiPc'[o] = "crashed"
      BY <1>0, <3>2 DEF Proceeds
    <3> QED BY <1>0, <3>1, <3>2, ApiMoves DEF Late
  <2> QED BY <1>k, <2>1, <2>2 DEF Stored
<1>2. ASSUME NEW o \in Orders, (o \in buffer \/ Logged(o))' PROVE Exists(store[o])'
  <2>1. o \in buffer' => Exists(store[o])
    BY BufferSteps DEF Stored, Unanswered
  <2>2. Logged(o)' => Exists(store[o])
    <3>1. CASE UNCHANGED log /\ budget'.lost = budget.lost
      BY <3>1 DEF InLog, Logged, Stored
    <3>2. ASSUME NEW x \in Orders, NEW p \in Partitions, BrokerAppend(x, p)
          PROVE  Logged(o)' => Exists(store[o])
      BY <1>0, <3>2, AppendedInLog DEF BrokerAppend, Logged, Stored
    <3>3. CASE BrokerLoss
      BY <1>0, <3>3, LossEmpties DEF Stored
    <3> QED BY <1>0, <3>1, <3>2, <3>3, SendingSteps, LostSteps DEF Advances
  <2> QED BY <1>2, <1>k, <2>1, <2>2
<1>3. ASSUME NEW o \in Orders, job'[o].retryOf # NoOrder
      PROVE  Exists(store[job[o].retryOf])'
  <2>1. job'[o].retryOf \in Orders /\ Exists(store[job'[o].retryOf])
    BY <1>0, <1>3, RetrySteps DEF Stored, Exists, Jobs
  <2> QED BY <1>k, <2>1
<1>4. ASSUME NEW o \in Orders, apiPc'[o] = "linkWrite" PROVE Exists(apiSnap[o])'
  <2>1. CASE apiPc[o] = "linkRead" /\ apiSnap'[o] = store[job[o].retryOf]
    BY <1>0, <2>1 DEF Stored, TypeInv, Targets
  <2>2. CASE apiPc[o] = "linkWrite" /\ apiSnap'[o] = apiSnap[o]
    BY <2>2 DEF Stored
  <2> QED BY <1>0, <1>4, <2>1, <2>2, CopySteps
<1>5. ASSUME NEW w \in Workers PROVE wPc'[w] # "save"
  BY <1>0, SaveSteps DEF Stored
<1> QED BY <1>1, <1>2, <1>3, <1>4, <1>5 DEF Stored

(***************************************************************************)
(* The list and the records agree.                                         *)
(***************************************************************************)
NoTwice(list) == \A i, k \in 1..Len(list) : list[i] = list[k] => i = k

Listable(o) == Exists(store[o]) /\ apiPc[o] \notin {"push", "crashed"}

Listed ==
  /\ \A i \in 1..Len(recent) :
       Exists(store[recent[i]]) /\ apiPc[recent[i]] \notin {"unused", "set", "push"}
  /\ NoTwice(recent)
  /\ Len(recent) < ListCap =>
       \A o \in Orders : Listable(o) => \E i \in 1..Len(recent) : recent[i] = o

ListInv == QueueInv /\ (Kept => Stored /\ Listed)

LEMMA InitListInv == Init => ListInv
<1> SUFFICES ASSUME Init PROVE ListInv
  OBVIOUS
<1>1. QueueInv /\ Stored
  BY InitQueueInv, InitStored
<1>2. Listed
  <2>1. Len(recent) = 0 /\ \A o \in Orders : ~Exists(store[o])
    BY DEF Init, Absent, Exists
  <2> QED BY <2>1 DEF Listed, NoTwice, Listable
<1> QED BY <1>1, <1>2 DEF ListInv

LEMMA ListableSteps ==
  ASSUME QueueInv, Stored, [Next]_vars, ~RedisLoss, NEW o \in Orders
  PROVE  /\ Listable(o)' => Listable(o) \/ PushRecent(o)
         /\ Exists(store[o]) => Exists(store[o])'
         /\ apiPc[o] \notin {"unused", "set", "push"} => apiPc'[o] \notin {"unused", "set", "push"}
<1>0. apiPc \in [Orders -> ApiPcs]
  BY DEF QueueInv, TypeInv, TypeOK
<1>1. Exists(store[o])' <=> Exists(store[o]) \/ SetRecord(o)
  BY StoreKept
<1>2. \/ apiPc'[o] = apiPc[o]
      \/ SetRecord(o) /\ apiPc'[o] = "push"
      \/ PushRecent(o) /\ apiPc'[o] = "trim"
      \/ apiPc[o] = "trim" /\ apiPc'[o] = "send"
      \/ apiPc[o] = "unused" /\ apiPc'[o] = "set"
      \/ apiPc[o] \in Late /\ apiPc'[o] \in Late
      \/ apiPc'[o] = "crashed"
  <2>1. ASSUME NEW x \in Orders, SetRecord(x) \/ PushRecent(x) \/ TrimRecent(x)
        PROVE  \/ apiPc'[o] = apiPc[o]
               \/ SetRecord(o) /\ apiPc'[o] = "push"
               \/ PushRecent(o) /\ apiPc'[o] = "trim"
               \/ apiPc[o] = "trim" /\ apiPc'[o] = "send"
    <3>1. CASE x = o
      BY <1>0, <2>1, <3>1 DEF SetRecord, PushRecent, TrimRecent, ApiGoto
    <3>2. CASE x # o
      BY <1>0, <2>1, <3>2 DEF SetRecord, PushRecent, TrimRecent, ApiGoto
    <3> QED BY <3>1, <3>2
  <2>2. ASSUME NEW x \in Orders, NEW to \in ApiPcs, Proceeds(x, to)
        PROVE  \/ apiPc'[o] = apiPc[o]
               \/ apiPc[o] = "unused" /\ apiPc'[o] = "set"
               \/ apiPc[o] \in Late /\ apiPc'[o] \in Late
               \/ apiPc'[o] = "crashed"
    BY <1>0, <2>2 DEF Proceeds
  <2>3. TypeInv
    BY DEF QueueInv
  <2> QED BY <2>1, <2>2, <2>3, ApiMoves
<1>3. SetRecord(o) => apiPc[o] = "set" /\ apiPc'[o] = "push"
  BY <1>0 DEF SetRecord, ApiGoto
<1>4. PushRecent(o) => apiPc[o] = "push"
  BY DEF PushRecent, ApiGoto
<1> QED BY <1>1, <1>2, <1>3, <1>4 DEF Listable, Late, Stored

LEMMA NextListed ==
  ASSUME QueueInv, Stored, Stored', Listed, [Next]_vars, ~RedisLoss
  PROVE  Listed'
<1>0. /\ recent \in Seq(Orders) /\ Len(recent) \in Nat /\ ListCap \in Nat \ {0}
      /\ \A i \in 1..Len(recent) : recent[i] \in Orders
      /\ apiPc \in [Orders -> ApiPcs]
  BY PipelineAssumption, LenProperties, ElementOfSeq DEF QueueInv, TypeInv, TypeOK
<1>2. \A i \in 1..Len(recent) :
        store'[recent[i]].status # "absent" /\ apiPc'[recent[i]] \notin {"unused", "set", "push"}
  BY <1>0, ListableSteps DEF Listed, Exists
<1>3. ASSUME NEW o \in Orders, PushRecent(o) PROVE Listed'
  <2>1. /\ Len(recent') = Len(recent) + 1 /\ recent'[1] = o
        /\ \A i \in 1..Len(recent) : recent'[i + 1] = recent[i]
    BY <1>0, <1>3, PushedList DEF PushRecent
  <2>2. /\ apiPc[o] = "push" /\ apiPc'[o] = "trim" /\ Exists(store[o])'
        /\ \A x \in Orders : PushRecent(x) => x = o
    BY <1>0, <1>3 DEF PushRecent, ApiGoto, Stored
  <2>3. \A i \in 1..Len(recent') : i = 1 \/ (i - 1 \in 1..Len(recent) /\ recent'[i] = recent[i - 1])
    BY <1>0, <2>1
  <2>4. \A i \in 1..Len(recent) : recent[i] # o
    BY <2>2 DEF Listed
  <2>5. ASSUME NEW i \in 1..Len(recent')
        PROVE  (Exists(store[recent[i]]) /\ apiPc[recent[i]] \notin {"unused", "set", "push"})'
    BY <1>2, <2>1, <2>2, <2>3 DEF Exists
  <2>6. NoTwice(recent)'
    <3> SUFFICES ASSUME NEW i \in 1..Len(recent'), NEW k \in 1..Len(recent'),
                        recent'[i] = recent'[k]
                 PROVE  i = k
      BY DEF NoTwice
    <3>1. CASE i = 1 \/ k = 1
      BY <2>1, <2>3, <2>4, <3>1
    <3>2. CASE i # 1 /\ k # 1
      <4>1. /\ i - 1 \in 1..Len(recent) /\ k - 1 \in 1..Len(recent)
            /\ recent[i - 1] = recent[k - 1]
        BY <2>3, <3>2
      <4>2. i - 1 = k - 1
        BY <4>1 DEF Listed, NoTwice
      <4> QED BY <1>0, <2>1, <4>2
    <3> QED BY <3>1, <3>2
  <2>7. ASSUME Len(recent') < ListCap, NEW x \in Orders, Listable(x)'
        PROVE  \E i \in 1..Len(recent') : recent'[i] = x
    <3>1. CASE x = o
      BY <1>0, <2>1, <3>1
    <3>2. CASE x # o
      <4>1. Listable(x) /\ Len(recent) < ListCap
        BY <1>0, <2>1, <2>2, <2>7, <3>2, ListableSteps
      <4>2. PICK i \in 1..Len(recent) : recent[i] = x
        BY <4>1 DEF Listed
      <4> QED BY <1>0, <2>1, <4>2
    <3> QED BY <3>1, <3>2
  <2> QED BY <2>5, <2>6, <2>7 DEF Listed
<1>4. ASSUME NEW o \in Orders, TrimRecent(o) PROVE Listed'
  <2>1. /\ Len(recent') = IF Len(recent) > ListCap THEN ListCap ELSE Len(recent)
        /\ \A i \in 1..Len(recent') : recent'[i] = recent[i]
    BY <1>0, <1>4, TrimmedList DEF TrimRecent
  <2>2. \A i \in 1..Len(recent') : i \in 1..Len(recent)
    BY <1>0, <2>1
  <2>3. \A x \in Orders : ~PushRecent(x)
    BY <1>0, <1>4 DEF TrimRecent, PushRecent, ApiGoto
  <2>4. Len(recent') < ListCap => Len(recent') = Len(recent)
    BY <1>0, <2>1
  <2>5. ASSUME NEW i \in 1..Len(recent')
        PROVE  (Exists(store[recent[i]]) /\ apiPc[recent[i]] \notin {"unused", "set", "push"})'
    BY <1>2, <2>1, <2>2 DEF Exists
  <2>6. NoTwice(recent)'
    BY <2>1, <2>2 DEF Listed, NoTwice
  <2>7. ASSUME Len(recent') < ListCap, NEW x \in Orders, Listable(x)'
        PROVE  \E i \in 1..Len(recent') : recent'[i] = x
    <3>1. Listable(x)
      BY <2>3, <2>7, ListableSteps
    <3> QED BY <2>1, <2>4, <2>7, <3>1 DEF Listed
  <2> QED BY <2>5, <2>6, <2>7 DEF Listed
<1>5. ASSUME UNCHANGED recent PROVE Listed'
  <2>1. \A o \in Orders : ~PushRecent(o)
    <3>1. ASSUME NEW o \in Orders, PushRecent(o) PROVE Len(recent') = Len(recent) + 1
      BY <1>0, <3>1, PushedList DEF PushRecent
    <3> QED BY <1>0, <1>5, <3>1
  <2>2. \A x \in Orders : Listable(x)' => Listable(x)
    BY <2>1, ListableSteps
  <2> QED BY <1>2, <1>5, <2>2 DEF Listed, NoTwice, Exists
<1>6. ASSUME NEW w \in Workers PROVE ~SaveJob(w)
  BY DEF SaveJob, WorkerGoto, Stored
<1> QED BY <1>3, <1>4, <1>5, <1>6, RecentMoves

LEMMA NextListInv == ListInv /\ [Next]_vars => ListInv'
<1> SUFFICES ASSUME ListInv, [Next]_vars PROVE ListInv'
  OBVIOUS
<1>1. QueueInv /\ TypeInv
  BY DEF ListInv, QueueInv
<1>2. QueueInv' /\ (Kept' => Kept /\ ~RedisLoss)
  BY <1>1, NextQueueInv, KeptSteps
<1>3. ASSUME Kept' PROVE Stored' /\ Listed'
  BY <1>1, <1>2, <1>3, NextStored, NextListed DEF ListInv
<1> QED BY <1>2, <1>3 DEF ListInv

\* jobs:recent lists no order twice and, as long as nothing was trimmed, every
\* record whose push is not pending or lost, for any number of orders, workers
\* and faults, until Redis loses its data.
THEOREM RecordsAreListedOnce == Spec => []ListedOnce
<1>1. ListInv => ListedOnce
  BY DEF ListInv, Kept, Listed, NoTwice, Listable, ListedOnce
<1> QED BY <1>1, InitListInv, NextListInv, PTL DEF Spec
===============================================================================
