---------------------------- MODULE DashboardProofs ----------------------------
(***************************************************************************)
(* Theorems about Dashboard, for any number of orders, loops and polls.    *)
(***************************************************************************)
EXTENDS Dashboard, FiniteSetTheorems, TLAPS

\* RetryGuarded is inductive together with the little typing it needs: the
\* program counters form a function, and the panel is a record whose button can
\* be switched off alone.
GuardInv ==
  /\ pc \in [Handlers -> {"idle", "posting", "polling"}]
  /\ retryInFlight \in BOOLEAN
  /\ detail = [order |-> detail.order, enabled |-> detail.enabled]
  /\ RetryGuarded

LEMMA InitGuardInv == Init => GuardInv
<1> SUFFICES ASSUME Init PROVE GuardInv
  OBVIOUS
<1>1. pc = [h \in Handlers |-> "idle"] /\ retryInFlight = FALSE
  BY DEF Init
<1>2. detail = Detail(NoEntry, FALSE)
  BY DEF Init
<1>3. detail = [order |-> detail.order, enabled |-> detail.enabled] /\ ~detail.enabled
  BY <1>2 DEF Detail, NoEntry
<1> QED BY <1>1, <1>3 DEF GuardInv, RetryGuarded, Handlers

\* The two ways a panel is rendered: with the flag as it is while the handler's
\* state stays, or with the flag cleared when the retry is over.
LEMMA RenderGuarded ==
  ASSUME GuardInv, NEW e, pc' \in [Handlers -> {"idle", "posting", "polling"}],
         \/ /\ detail' = Detail(e, retryInFlight)
            /\ UNCHANGED retryInFlight
            /\ pc'["retry"] = pc["retry"]
         \/ /\ detail' = Detail(e, FALSE)
            /\ retryInFlight' = FALSE
            /\ pc'["retry"] = "idle"
  PROVE  GuardInv'
<1>1. PICK b \in BOOLEAN : detail' = Detail(e, b)
  BY DEF GuardInv
<1>2. detail' = [order |-> detail'.order, enabled |-> detail'.enabled]
  BY <1>1 DEF Detail
<1>3. detail'.order = e /\ (detail'.enabled => e.status = "failed")
  BY <1>1 DEF Detail
<1>4. detail'.enabled => pc'["retry"] = "idle"
  <2>1. CASE /\ detail' = Detail(e, retryInFlight)
             /\ UNCHANGED retryInFlight
             /\ pc'["retry"] = pc["retry"]
    <3>1. detail'.enabled => ~retryInFlight
      BY <2>1 DEF Detail
    <3> QED BY <2>1, <3>1 DEF GuardInv, RetryGuarded
  <2>2. CASE pc'["retry"] = "idle"
    BY <2>2
  <2> QED BY <2>1, <2>2
<1>5. retryInFlight' \in BOOLEAN
  BY Zenon DEF GuardInv
<1>6. retryInFlight' <=> pc'["retry"] # "idle"
  <2>1. retryInFlight <=> pc["retry"] # "idle"
    BY DEF GuardInv, RetryGuarded
  <2>2. CASE retryInFlight' = retryInFlight /\ pc'["retry"] = pc["retry"]
    BY ONLY <2>1, <2>2
  <2>3. CASE retryInFlight' = FALSE /\ pc'["retry"] = "idle"
    BY ONLY <2>3
  <2> QED BY <2>2, <2>3
<1> QED BY <1>2, <1>3, <1>4, <1>5, <1>6 DEF GuardInv, RetryGuarded

\* A step that leaves the panel and the flag alone and does not touch the
\* retry's own program counter.
LEMMA FrameGuarded ==
  ASSUME GuardInv, UNCHANGED <<detail, retryInFlight>>,
         pc' \in [Handlers -> {"idle", "posting", "polling"}],
         pc'["retry"] = pc["retry"]
  PROVE  GuardInv'
BY DEF GuardInv, RetryGuarded

LEMMA NextGuardInv == GuardInv /\ [Next]_vars => GuardInv'
<1> SUFFICES ASSUME GuardInv, [Next]_vars
             PROVE  GuardInv'
  OBVIOUS
<1>0. pc \in [Handlers -> {"idle", "posting", "polling"}]
  BY DEF GuardInv
<1>1. CASE SubmitOrder \/ RunBurst
  <2>1. UNCHANGED <<detail, retryInFlight>> /\ pc'["retry"] = pc["retry"]
    BY <1>0, <1>1 DEF SubmitOrder, RunBurst, Clicked, page, Handlers
  <2>2. pc' \in [Handlers -> {"idle", "posting", "polling"}]
    BY <1>0, <1>1 DEF SubmitOrder, RunBurst, Clicked
  <2> QED BY <2>1, <2>2, FrameGuarded
<1>2. CASE SubmitAnswered \/ BurstPosted
  <2>1. UNCHANGED <<detail, retryInFlight>> /\ pc'["retry"] = pc["retry"]
    BY <1>0, <1>2 DEF SubmitAnswered, BurstPosted, page, Handlers
  <2>2. pc' \in [Handlers -> {"idle", "posting", "polling"}]
    BY <1>0, <1>2 DEF SubmitAnswered, BurstPosted
  <2> QED BY <2>1, <2>2, FrameGuarded
<1>3. CASE RetrySelectedOrder
  BY <1>0, <1>3 DEF RetrySelectedOrder, Clicked, GuardInv, RetryGuarded, Handlers
<1>4. CASE RetryAnswered
  <2>1. CASE post["retry"].state = "ok"
    BY <1>0, <1>4, <2>1 DEF RetryAnswered, GuardInv, RetryGuarded, Handlers
  <2>2. CASE post["retry"].state # "ok"
    <3>1. /\ detail' = Detail(Found(orders, selected, retryOrder), FALSE)
          /\ retryInFlight' = FALSE
          /\ pc' = [pc EXCEPT !["retry"] = "idle"]
      BY <1>4, <2>2 DEF RetryAnswered, Finally
    <3> QED BY ONLY <1>0, <3>1, GuardInv, RenderGuarded DEF Handlers
  <2> QED BY <2>1, <2>2
<1>5. CASE \E o \in Ids : SelectRow(o)
  <2>1. PICK o \in Ids : SelectRow(o)
    BY <1>5
  <2> QED BY <1>0, <2>1, RenderGuarded DEF SelectRow
<1>6. CASE \E i \in Pollers : PollDone(i)
  <2>1. PICK i \in Pollers : PollDone(i)
    BY <1>6
  <2>2. HandlerDone(i)
    BY <2>1 DEF PollDone
  <2>3. PICK s, r : AfterPoll(i, orders', s, Detail(r, retryInFlight))
    BY <2>1 DEF PollDone
  <2> QED BY <1>0, <2>2, <2>3, RenderGuarded DEF HandlerDone, AfterPoll, Finally, Handlers
<1>7. CASE \E i \in Pollers : PollFails(i)
  <2>1. PICK i \in Pollers : PollFails(i)
    BY <1>7
  <2>2. HandlerDone(i) /\ AfterPoll(i, orders, selected, detail)
    BY <2>1 DEF PollFails
  <2>3. CASE i = "retry"
    BY <1>0, <2>2, <2>3, RenderGuarded DEF HandlerDone, AfterPoll, Finally, Handlers
  <2>4. CASE i # "retry"
    BY <1>0, <2>2, <2>4, FrameGuarded DEF HandlerDone, AfterPoll, Handlers
  <2> QED BY <2>3, <2>4
<1>8. CASE \/ \E l \in Loops : LoopAnswered(l)
           \/ \E k \in Posters : Respond(k)
           \/ \E i \in Pollers : AnswerPoll(i)
           \/ \E i \in FreePolls : FreePoll(i)
           \/ \E o \in Ids : Progress(o)
           \/ UNCHANGED vars
  <2>1. UNCHANGED <<detail, retryInFlight, pc>>
    BY <1>8 DEF LoopAnswered, Respond, Accept, Refuse, FailPost, AnswerPoll, FreePoll,
                Progress, vars, page
  <2> QED BY <1>0, <2>1, FrameGuarded
<1> QED BY <1>1, <1>2, <1>3, <1>4, <1>5, <1>6, <1>7, <1>8
        DEF Next, User, Script, Resolve

\* The retry button can be pressed only while no retry is under way and for an
\* order shown as failed, however polls, row clicks and failing requests
\* interleave with retrySelectedOrder.
THEOREM RetryIsGuarded == Spec => []RetryGuarded
<1>1. GuardInv => RetryGuarded
  BY DEF GuardInv
<1> QED BY <1>1, InitGuardInv, NextGuardInv, PTL DEF Spec
-------------------------------------------------------------------------------
(***************************************************************************)
(* Type correctness.  The counts of a burst stay within BurstCount only    *)
(* because they add up, so the two are one invariant.                      *)
(***************************************************************************)
Waiting == {l \in Loops : post[l].state # "none"}
Counted == submitted + failed + jobs + Cardinality(Waiting)

BurstInv ==
  /\ submitted \in Nat /\ failed \in Nat /\ jobs \in Nat
  /\ Counted <= BurstCount
  /\ pc["burst"] # "idle" => Counted = BurstCount

\* No list names an order twice, so that its entry for an order is unique.
Distinct(list) == \A i, j \in 1..Len(list) : list[i].id = list[j].id => i = j

ListsInv == Distinct(orders) /\ \A i \in Pollers : Distinct(poll[i].list)

PageInv == TypeOK /\ BurstInv /\ ListsInv

LEMMA FunctionIsSequence ==
  ASSUME NEW S, NEW n \in Nat, NEW f \in [1..n -> S]
  PROVE  f \in Seq(S) /\ Len(f) = n
OBVIOUS

LEMMA EntryOfListed ==
  ASSUME NEW list \in Seq(Entries), NEW id, Listed(list, id)
  PROVE  Entry(list, id) \in Entries /\ Entry(list, id).id = id
<1>1. PICK i \in 1..Len(list) : list[i].id = id
  BY DEF Listed
<1>2. \E j \in 1..Len(list) : Entry(list, id) = list[j] /\ list[j].id = id
  BY <1>1 DEF Entry
<1> QED BY <1>2

LEMMA FoundTyped ==
  ASSUME NEW list \in Seq(Entries), NEW id, NEW e \in Entries \cup {NoEntry}
  PROVE  Found(list, id, e) \in Entries \cup {NoEntry}
BY EntryOfListed DEF Found

\* What renderOrders selects and shows is the entry of the list for the order
\* it selects.
LEMMA SelectionShown ==
  ASSUME NEW list \in Seq(Entries), NEW id \in Ids \cup {NoOrder}
  PROVE  /\ Selection(list, id) \in Ids \cup {NoOrder}
         /\ Shown(list, id) \in Entries \cup {NoEntry}
         /\ Distinct(list) /\ list # <<>> =>
              Shown(list, id) = Entry(list, Shown(list, id).id)
<1>1. CASE list = <<>>
  BY <1>1 DEF Selection, Shown
<1>2. CASE list # <<>>
  <2>1. 1 \in 1..Len(list) /\ list[1] \in Entries
    BY <1>2
  <2>2. Shown(list, id) = Found(list, id, list[1])
    BY <1>2 DEF Shown
  <2>3. Selection(list, id) = Shown(list, id).id
    BY <1>2, <2>2 DEF Selection
  <2>4. CASE Listed(list, id)
    <3>1. Shown(list, id) = Entry(list, id)
      BY <2>2, <2>4 DEF Found
    <3>2. Entry(list, id) \in Entries /\ Entry(list, id).id = id
      BY <2>4, EntryOfListed
    <3> QED BY <1>2, <2>3, <3>1, <3>2 DEF Entries
  <2>5. CASE ~Listed(list, id)
    <3>1. Shown(list, id) = list[1]
      BY <2>2, <2>5 DEF Found
    <3>2. Distinct(list) => Entry(list, list[1].id) = list[1]
      BY <2>1 DEF Distinct, Entry
    <3> QED BY <1>2, <2>1, <2>3, <3>1, <3>2 DEF Entries
  <2> QED BY <2>4, <2>5
<1> QED BY <1>1, <1>2

LEMMA DetailTyped ==
  ASSUME NEW e \in Entries \cup {NoEntry}, NEW b \in BOOLEAN
  PROVE  Detail(e, b) \in [order : Entries \cup {NoEntry}, enabled : BOOLEAN]
BY DEF Detail

LEMMA ListingOK == ASSUME TypeOK PROVE Listing \in Seq(Entries) /\ Distinct(Listing)
<1> DEFINE n == IF created < ListLimit THEN created ELSE ListLimit
<1>1. n \in Nat /\ n <= created /\ created \in 0..MaxOrders /\ MaxOrders \in Nat
  BY DashboardAssumption DEF TypeOK
<1>2. Listing = [i \in 1..n |-> [id |-> created + 1 - i, status |-> status[created + 1 - i]]]
  BY DEF Listing
<1>3. \A i \in 1..n : created + 1 - i \in Ids
  BY <1>1 DEF Ids
<1>4. \A i \in 1..n : [id |-> created + 1 - i, status |-> status[created + 1 - i]] \in Entries
  BY <1>3 DEF TypeOK, Entries
<1> HIDE DEF n
<1>5. Listing \in Seq(Entries) /\ Len(Listing) = n
  BY <1>1, <1>2, <1>4, FunctionIsSequence
<1>6. \A i \in 1..n : Listing[i].id = created + 1 - i
  BY <1>2
<1> QED BY <1>1, <1>5, <1>6 DEF Distinct

LEMMA InitPageInv == Init => PageInv
<1> SUFFICES ASSUME Init PROVE PageInv
  OBVIOUS
<1>1. TypeOK
  <2>1. Detail(NoEntry, FALSE) \in [order : Entries \cup {NoEntry}, enabled : BOOLEAN]
    BY DetailTyped
  <2>2. clicks \in [Handlers -> Nat]
    BY DashboardAssumption DEF Init
  <2>3. created \in 0..MaxOrders /\ faults \in 0..MaxFaults /\ status \in [Ids -> Statuses]
    BY DashboardAssumption DEF Init, Statuses
  <2>4. jobs \in 0..BurstCount /\ submitted \in 0..BurstCount /\ failed \in 0..BurstCount
    BY DashboardAssumption DEF Init
  <2>5. post \in [Posters -> Posts]
    BY DEF Init, NoPost, Posts, NoOrder
  <2>6. NoPoll \in [state : {"none", "sent", "read"}, list : Seq(Entries)]
    BY DEF NoPoll
  <2>7. poll \in [Pollers -> [state : {"none", "sent", "read"}, list : Seq(Entries)]]
    BY <2>6 DEF Init
  <2>8. pc \in [Handlers -> {"idle", "posting", "polling"}]
    BY DEF Init
  <2>9. orders \in Seq(Entries) /\ selected \in Ids \cup {NoOrder}
    BY DEF Init
  <2> QED BY <2>1, <2>2, <2>3, <2>4, <2>5, <2>7, <2>8, <2>9 DEF Init, TypeOK
<1>2. BurstInv
  <2>1. Waiting = {}
    BY DEF Init, Waiting, NoPost, Posters
  <2> QED BY <2>1, FS_EmptySet, DashboardAssumption DEF Init, BurstInv, Counted, Handlers
<1>3. ListsInv
  BY DEF Init, ListsInv, Distinct, NoPoll
<1> QED BY <1>1, <1>2, <1>3 DEF PageInv

PollType == [state : {"none", "sent", "read"}, list : Seq(Entries)]

LEMMA PollsTyped ==
  ASSUME TypeOK, NEW i \in Pollers
  PROVE  /\ StartedPoll(i) \in [Pollers -> PollType]
         /\ [poll EXCEPT ![i] = NoPoll] \in [Pollers -> PollType]
         /\ poll[i].list \in Seq(Entries)
         /\ [poll EXCEPT ![i] = [state |-> "read", list |-> Listing]] \in [Pollers -> PollType]
<1>1. poll \in [Pollers -> PollType]
  BY DEF TypeOK, PollType
<1>2. [state |-> "sent", list |-> <<>>] \in PollType /\ NoPoll \in PollType
  BY DEF PollType, NoPoll
<1>3. [state |-> "read", list |-> Listing] \in PollType
  BY ListingOK DEF PollType
<1>4. poll[i] \in PollType
  BY <1>1
<1> QED BY <1>1, <1>2, <1>3, <1>4 DEF StartedPoll, PollType

LEMMA PostsTyped ==
  ASSUME TypeOK, NEW k \in Posters, NEW p \in Posts
  PROVE  [post EXCEPT ![k] = p] \in [Posters -> Posts]
BY DEF TypeOK

LEMMA SomePosts ==
  /\ NoPost \in Posts
  /\ [NoPost EXCEPT !.state = "sent"] \in Posts
  /\ [state |-> "error", id |-> NoOrder] \in Posts
  /\ \A o \in Ids \cup {NoOrder} : [state |-> "ok", id |-> o] \in Posts
BY DEF NoPost, Posts, NoOrder

\* What the finally block of a retry leaves, and what a rendered list leaves.
LEMMA FinallyTyped ==
  ASSUME TypeOK, NEW list \in Seq(Entries), NEW sel, Finally(list, sel)
  PROVE  /\ retryInFlight' \in BOOLEAN /\ retryOrder' \in Entries \cup {NoEntry}
         /\ detail' \in [order : Entries \cup {NoEntry}, enabled : BOOLEAN]
<1>1. Found(list, sel, retryOrder) \in Entries \cup {NoEntry}
  BY FoundTyped DEF TypeOK
<1> QED BY <1>1, DetailTyped DEF Finally

LEMMA AfterPollTyped ==
  ASSUME TypeOK, NEW i, NEW list \in Seq(Entries), NEW sel,
         NEW rendered \in [order : Entries \cup {NoEntry}, enabled : BOOLEAN],
         AfterPoll(i, list, sel, rendered)
  PROVE  /\ retryInFlight' \in BOOLEAN /\ retryOrder' \in Entries \cup {NoEntry}
         /\ detail' \in [order : Entries \cup {NoEntry}, enabled : BOOLEAN]
<1>1. CASE i = "retry"
  BY <1>1, FinallyTyped DEF AfterPoll
<1>2. CASE i # "retry"
  <2>1. detail' = rendered /\ retryInFlight' = retryInFlight /\ retryOrder' = retryOrder
    BY <1>2 DEF AfterPoll
  <2>2. retryInFlight \in BOOLEAN /\ retryOrder \in Entries \cup {NoEntry}
    BY DEF TypeOK
  <2> QED BY <2>1, <2>2
<1> QED BY <1>1, <1>2

\* Waiting after the POST of one loop changed.
LEMMA WaitingFinite == IsFiniteSet(Waiting) /\ Cardinality(Waiting) \in Nat
<1>1. Waiting \subseteq Loops /\ IsFiniteSet(Loops)
  BY DashboardAssumption DEF Waiting
<1> QED BY <1>1, FS_Subset, FS_CardinalityType

LEMMA CountedSum ==
  ASSUME PageInv
  PROVE  /\ submitted \in Nat /\ failed \in Nat /\ jobs \in Nat
         /\ BurstCount \in Nat
         /\ submitted + failed + jobs + Cardinality(Waiting) <= BurstCount
         /\ pc["burst"] # "idle" =>
              submitted + failed + jobs + Cardinality(Waiting) = BurstCount
BY DashboardAssumption DEF PageInv, BurstInv, Counted

\* A step that changes no count and no POST of a loop from or to "none", and
\* does not start the burst.
LEMMA BurstFrame ==
  ASSUME PageInv, UNCHANGED <<jobs, submitted, failed>>,
         \A l \in Loops : post'[l].state = "none" <=> post[l].state = "none",
         pc'["burst"] # "idle" => pc["burst"] # "idle"
  PROVE  BurstInv'
<1>1. Waiting' = Waiting
  BY DEF Waiting
<1> QED BY <1>1 DEF PageInv, BurstInv, Counted

LEMMA LoopCounts ==
  ASSUME PageInv, NEW l \in Loops, LoopAnswered(l)
  PROVE  /\ BurstInv'
         /\ jobs' \in 0..BurstCount /\ submitted' \in 0..BurstCount /\ failed' \in 0..BurstCount
<1>1. post \in [Posters -> Posts] /\ l \in Posters
  BY DEF PageInv, TypeOK, Posters
<1>2. l \in Waiting
  BY DEF LoopAnswered, Waiting
<1>3. /\ submitted' + failed' = submitted + failed + 1
      /\ submitted' \in Nat /\ failed' \in Nat
      /\ pc' = pc
  BY CountedSum DEF LoopAnswered
<1>4. /\ Cardinality(Waiting') \in Nat
      /\ jobs' \in Nat /\ jobs' + Cardinality(Waiting') + 1 = jobs + Cardinality(Waiting)
  <2>1. CASE jobs > 0
    <3>1. post'[l].state = "sent" /\ \A k \in Loops \ {l} : post'[k] = post[k]
      BY <1>1, <2>1 DEF LoopAnswered, NoPost, Posters
    <3>2. Waiting' = Waiting
      BY <1>2, <3>1 DEF Waiting
    <3>3. jobs' = jobs - 1
      BY <2>1 DEF LoopAnswered
    <3> QED BY <2>1, <3>2, <3>3, CountedSum, WaitingFinite
  <2>2. CASE ~(jobs > 0)
    <3>1. post'[l].state = "none" /\ \A k \in Loops \ {l} : post'[k] = post[k]
      BY <1>1, <2>2 DEF LoopAnswered, NoPost, Posters
    <3>2. Waiting' = Waiting \ {l}
      BY <1>2, <3>1 DEF Waiting
    <3>3. jobs' = jobs
      BY <2>2 DEF LoopAnswered
    <3>4. Cardinality(Waiting') = Cardinality(Waiting) - 1 /\ Cardinality(Waiting') \in Nat
      BY <1>2, <3>2, WaitingFinite, FS_RemoveElement, FS_CardinalityType
    <3> QED BY <3>3, <3>4, CountedSum, WaitingFinite
  <2> QED BY <2>1, <2>2
<1>5. submitted' + failed' + jobs' + Cardinality(Waiting')
        = submitted + failed + jobs + Cardinality(Waiting)
  BY <1>3, <1>4, CountedSum, WaitingFinite
<1>6. submitted' + failed' + jobs' + Cardinality(Waiting') <= BurstCount
  BY <1>5, CountedSum
<1> QED BY <1>3, <1>4, <1>5, <1>6, CountedSum DEF BurstInv, Counted

LEMMA BurstStarts ==
  ASSUME PageInv, RunBurst
  PROVE  BurstInv' /\ jobs' \in 0..BurstCount
<1>1. Loops \subseteq Posters /\ Cardinality(Loops) \in 1..BurstCount /\ BurstCount \in Nat
  BY DashboardAssumption DEF Posters
<1>2. Waiting' = Loops
  BY <1>1 DEF RunBurst, Waiting, NoPost
<1> QED BY <1>1, <1>2 DEF RunBurst, BurstInv, Counted

LEMMA ApiTyped ==
  ASSUME PageInv, NEW k \in Posters, Respond(k)
  PROVE  TypeOK' /\ BurstInv'
<1>1. TypeOK /\ MaxOrders \in Nat /\ MaxFaults \in Nat
  BY DashboardAssumption DEF PageInv
<1>2. /\ created' \in 0..MaxOrders /\ status' \in [Ids -> Statuses]
      /\ faults' \in 0..MaxFaults
  <2>1. CASE Accept(k) \/ Refuse(k)
    BY <1>1, <2>1 DEF Accept, Refuse, TypeOK, Ids, Statuses, api
  <2>2. ASSUME NEW left \in {"nothing", "queued", "failed"}, FailPost(k, left)
        PROVE  /\ created' \in 0..MaxOrders /\ status' \in [Ids -> Statuses]
               /\ faults' \in 0..MaxFaults
    <3>1. CASE left = "nothing"
      BY <1>1, <2>2, <3>1 DEF FailPost, TypeOK
    <3>2. CASE left # "nothing"
      <4>1. created + 1 \in Ids /\ left \in Statuses
        BY <1>1, <2>2, <3>2 DEF FailPost, TypeOK, Ids, Statuses
      <4> QED BY <1>1, <2>2, <3>2, <4>1 DEF FailPost, TypeOK
    <3> QED BY <3>1, <3>2
  <2> QED BY <2>1, <2>2 DEF Respond
<1>3. \E p \in Posts : p.state # "none" /\ post' = [post EXCEPT ![k] = p]
  <2>1. CASE Accept(k)
    <3>1. (IF k \in Loops THEN NoOrder ELSE created + 1) \in Ids \cup {NoOrder}
      BY <1>1, <2>1 DEF Accept, TypeOK, Ids
    <3> QED BY <2>1, <3>1, SomePosts DEF Accept
  <2>2. CASE Refuse(k) \/ \E left \in {"nothing", "queued", "failed"} : FailPost(k, left)
    BY <2>2, SomePosts DEF Refuse, FailPost
  <2> QED BY <2>1, <2>2 DEF Respond
<1>4. post[k].state = "sent"
  BY DEF Respond, Accept, Refuse, FailPost
<1>5. UNCHANGED <<page, pc, burst, poll, clicks>>
  BY DEF Respond, Accept, Refuse, FailPost
<1>6. post' \in [Posters -> Posts]
  BY <1>1, <1>3, PostsTyped
<1>7. TypeOK'
  BY <1>1, <1>2, <1>5, <1>6 DEF TypeOK, page, burst
<1>8. \A l \in Loops : post'[l].state = "none" <=> post[l].state = "none"
  BY <1>1, <1>3, <1>4 DEF TypeOK, Posters
<1> QED BY <1>5, <1>7, <1>8, BurstFrame DEF burst

LEMMA PollTyped ==
  ASSUME PageInv, NEW i \in Pollers, Resolve(i)
  PROVE  TypeOK' /\ BurstInv'
<1>1. TypeOK /\ MaxFaults \in Nat
  BY DashboardAssumption DEF PageInv
<1>2. UNCHANGED <<api, burst, post, clicks>>
  BY DEF Resolve, AnswerPoll, PollDone, PollFails
<1>3. poll' \in [Pollers -> PollType]
  BY <1>1, PollsTyped DEF Resolve, AnswerPoll, PollDone, PollFails
<1>4. faults' \in 0..MaxFaults
  BY <1>1 DEF Resolve, AnswerPoll, PollDone, PollFails, TypeOK
<1>5. pc' \in [Handlers -> {"idle", "posting", "polling"}]
      /\ (pc'["burst"] # "idle" => pc["burst"] # "idle")
  BY <1>1 DEF Resolve, AnswerPoll, PollDone, PollFails, HandlerDone, TypeOK, Handlers
<1>6. /\ orders' \in Seq(Entries) /\ selected' \in Ids \cup {NoOrder}
      /\ retryInFlight' \in BOOLEAN /\ retryOrder' \in Entries \cup {NoEntry}
      /\ detail' \in [order : Entries \cup {NoEntry}, enabled : BOOLEAN]
  <2>1. CASE AnswerPoll(i)
    BY <1>1, <2>1 DEF AnswerPoll, TypeOK, page
  <2>2. CASE PollDone(i)
    <3>1. orders' \in Seq(Entries)
      BY <1>1, <2>2, PollsTyped DEF PollDone
    <3>2. selected \in Ids \cup {NoOrder} /\ retryInFlight \in BOOLEAN
      BY <1>1 DEF TypeOK
    <3>3. /\ Selection(orders', selected) \in Ids \cup {NoOrder}
          /\ Shown(orders', selected) \in Entries \cup {NoEntry}
      BY <3>1, <3>2, SelectionShown
    <3>4. selected' = Selection(orders', selected)
      BY <2>2 DEF PollDone
    <3>5. Detail(Shown(orders', selected), retryInFlight)
            \in [order : Entries \cup {NoEntry}, enabled : BOOLEAN]
      BY <3>2, <3>3, DetailTyped
    <3>6. AfterPoll(i, orders', selected', Detail(Shown(orders', selected), retryInFlight))
      BY <2>2 DEF PollDone
    <3> QED BY <1>1, <3>1, <3>3, <3>4, <3>5, <3>6, AfterPollTyped
  <2>3. CASE PollFails(i)
    <3>1. /\ orders' = orders /\ selected' = selected
          /\ AfterPoll(i, orders, selected, detail)
      BY <2>3 DEF PollFails
    <3>2. /\ orders \in Seq(Entries) /\ selected \in Ids \cup {NoOrder}
          /\ detail \in [order : Entries \cup {NoEntry}, enabled : BOOLEAN]
      BY <1>1 DEF TypeOK
    <3> QED BY <1>1, <3>1, <3>2, AfterPollTyped
  <2> QED BY <2>1, <2>2, <2>3 DEF Resolve
<1>7. TypeOK'
  BY <1>1, <1>2, <1>3, <1>4, <1>5, <1>6 DEF TypeOK, PollType, api, burst
<1> QED BY <1>2, <1>5, <1>7, BurstFrame DEF burst

\* The handlers of the page, up to their first await and after it.
LEMMA ScriptTyped ==
  ASSUME PageInv, Script \/ SubmitOrder \/ RetrySelectedOrder \/ RunBurst
  PROVE  TypeOK' /\ BurstInv'
<1>1. TypeOK
  BY DEF PageInv
<1>2. "submit" \in Posters \ Loops /\ "retry" \in Posters \ Loops /\ Handlers \subseteq Pollers
  BY DashboardAssumption DEF Posters, Handlers, Pollers
<1>3. \A h \in Handlers : Clicked(h) =>
        /\ clicks' \in [Handlers -> Nat]
        /\ pc' = [pc EXCEPT ![h] = "posting"]
        /\ pc' \in [Handlers -> {"idle", "posting", "polling"}]
  BY <1>1 DEF Clicked, TypeOK
<1>4. \A k \in {"submit", "retry"} : \A p \in Posts :
        post' = [post EXCEPT ![k] = p] =>
          /\ post' \in [Posters -> Posts]
          /\ \A l \in Loops : post'[l] = post[l]
  BY <1>1, <1>2, PostsTyped DEF TypeOK
<1>5. CASE SubmitOrder
  <2>1. Clicked("submit") /\ UNCHANGED <<api, page, burst, poll, faults>>
    BY <1>5 DEF SubmitOrder
  <2>2. \E p \in Posts : post' = [post EXCEPT !["submit"] = p]
    <3>0. post["submit"] \in Posts
      BY <1>1, <1>2 DEF TypeOK
    <3>1. [post["submit"] EXCEPT !.state = "sent"] \in Posts
      BY <3>0 DEF Posts
    <3>2. post' = [post EXCEPT !["submit"] = [post["submit"] EXCEPT !.state = "sent"]]
      BY <1>1, <1>2, <1>5 DEF SubmitOrder, TypeOK, Posts
    <3> QED BY <3>1, <3>2
  <2>3. TypeOK'
    BY <1>1, <1>3, <1>4, <2>1, <2>2 DEF TypeOK, api, page, burst, Handlers
  <2> QED BY <1>1, <1>3, <1>4, <2>1, <2>2, <2>3, BurstFrame DEF burst, Handlers, TypeOK
<1>6. CASE RetrySelectedOrder
  <2>1. /\ Clicked("retry") /\ UNCHANGED <<api, orders, selected, burst, poll, faults>>
        /\ retryInFlight' = TRUE /\ retryOrder' = Entry(orders, selected)
        /\ detail' = [detail EXCEPT !.enabled = FALSE]
        /\ Listed(orders, selected)
    BY <1>6 DEF RetrySelectedOrder
  <2>2. \E p \in Posts : post' = [post EXCEPT !["retry"] = p]
    <3>0. post["retry"] \in Posts
      BY <1>1, <1>2 DEF TypeOK
    <3>1. [post["retry"] EXCEPT !.state = "sent"] \in Posts
      BY <3>0 DEF Posts
    <3>2. post' = [post EXCEPT !["retry"] = [post["retry"] EXCEPT !.state = "sent"]]
      BY <1>1, <1>2, <1>6 DEF RetrySelectedOrder, TypeOK, Posts
    <3> QED BY <3>1, <3>2
  <2>3. retryOrder' \in Entries
    BY <1>1, <2>1, EntryOfListed DEF TypeOK
  <2>4. detail' \in [order : Entries \cup {NoEntry}, enabled : BOOLEAN]
    BY <1>1, <2>1 DEF TypeOK
  <2>5. TypeOK'
    BY <1>1, <1>3, <1>4, <2>1, <2>2, <2>3, <2>4 DEF TypeOK, api, burst, Handlers
  <2> QED BY <1>1, <1>3, <1>4, <2>1, <2>2, <2>5, BurstFrame DEF burst, Handlers, TypeOK
<1>7. CASE RunBurst
  <2>1. Clicked("burst") /\ UNCHANGED <<api, page, poll, faults>>
        /\ submitted' = 0 /\ failed' = 0
    BY <1>7 DEF RunBurst
  <2>2. post' \in [Posters -> Posts]
    BY <1>1, <1>7, SomePosts DEF RunBurst, TypeOK
  <2>3. BurstInv' /\ jobs' \in 0..BurstCount
    BY <1>7, BurstStarts
  <2>4. submitted' \in 0..BurstCount /\ failed' \in 0..BurstCount
    BY <2>1, DashboardAssumption
  <2>5. TypeOK'
    BY <1>1, <1>3, <2>1, <2>2, <2>3, <2>4 DEF TypeOK, api, page, Handlers
  <2> QED BY <2>3, <2>5
<1>8. CASE SubmitAnswered
  <2>1. /\ UNCHANGED <<api, orders, detail, retryInFlight, retryOrder, burst, clicks, faults>>
        /\ post' = [post EXCEPT !["submit"] = NoPost]
    BY <1>8 DEF SubmitAnswered
  <2>2. post["submit"].id \in Ids \cup {NoOrder}
    BY <1>1, <1>2 DEF TypeOK, Posts
  <2>3. selected' \in Ids \cup {NoOrder}
    BY <1>1, <1>8, <2>2 DEF SubmitAnswered, TypeOK
  <2>4. poll' \in [Pollers -> PollType]
    <3>1. poll \in [Pollers -> PollType] /\ "submit" \in Pollers
      BY <1>1, <1>2 DEF TypeOK, PollType, Handlers
    <3>2. poll' = poll \/ poll' = StartedPoll("submit")
      BY <1>8 DEF SubmitAnswered
    <3> QED BY <1>1, <3>1, <3>2, PollsTyped
  <2>5. pc' \in [Handlers -> {"idle", "posting", "polling"}]
        /\ pc'["burst"] = pc["burst"]
    BY <1>1, <1>8 DEF SubmitAnswered, TypeOK, Handlers
  <2>6. TypeOK'
    BY <1>1, <1>4, <2>1, <2>3, <2>4, <2>5, SomePosts DEF TypeOK, api, burst, PollType
  <2> QED BY <1>4, <2>1, <2>5, <2>6, SomePosts, BurstFrame DEF burst
<1>9. CASE RetryAnswered
  <2>1. /\ UNCHANGED <<api, orders, burst, clicks, faults>>
        /\ post' = [post EXCEPT !["retry"] = NoPost]
    BY <1>9 DEF RetryAnswered
  <2>2. post["retry"].id \in Ids \cup {NoOrder}
    BY <1>1, <1>2 DEF TypeOK, Posts
  <2>3. selected' \in Ids \cup {NoOrder}
    BY <1>1, <1>9, <2>2 DEF RetryAnswered, TypeOK
  <2>4. poll' \in [Pollers -> PollType]
    <3>1. poll \in [Pollers -> PollType] /\ "retry" \in Pollers
      BY <1>1, <1>2 DEF TypeOK, PollType, Handlers
    <3>2. poll' = poll \/ poll' = StartedPoll("retry")
      BY <1>9 DEF RetryAnswered
    <3> QED BY <1>1, <3>1, <3>2, PollsTyped
  <2>5. pc' \in [Handlers -> {"idle", "posting", "polling"}]
        /\ pc'["burst"] = pc["burst"]
    BY <1>1, <1>9 DEF RetryAnswered, TypeOK, Handlers
  <2>6. /\ retryInFlight' \in BOOLEAN /\ retryOrder' \in Entries \cup {NoEntry}
        /\ detail' \in [order : Entries \cup {NoEntry}, enabled : BOOLEAN]
    <3>1. CASE Finally(orders, selected)
      BY <1>1, <3>1, FinallyTyped DEF TypeOK
    <3>2. CASE UNCHANGED <<retryInFlight, retryOrder, detail>>
      BY <1>1, <3>2 DEF TypeOK
    <3> QED BY <1>9, <3>1, <3>2 DEF RetryAnswered
  <2>7. TypeOK'
    BY <1>1, <1>4, <2>1, <2>3, <2>4, <2>5, <2>6, SomePosts DEF TypeOK, api, burst, PollType
  <2> QED BY <1>4, <2>1, <2>5, <2>7, SomePosts, BurstFrame DEF burst
<1>10. CASE BurstPosted
  <2>1. UNCHANGED <<api, page, burst, post, clicks, faults>> /\ pc["burst"] = "posting"
    BY <1>10 DEF BurstPosted
  <2>2. poll' \in [Pollers -> PollType]
    BY <1>2, <1>10, <1>1, PollsTyped DEF BurstPosted, Handlers
  <2>3. pc' \in [Handlers -> {"idle", "posting", "polling"}]
    BY <1>1, <1>10 DEF BurstPosted, TypeOK
  <2>4. TypeOK'
    BY <1>1, <2>1, <2>2, <2>3 DEF TypeOK, api, page, burst, PollType
  <2> QED BY <2>1, <2>4, BurstFrame DEF burst
<1>11. CASE \E l \in Loops : LoopAnswered(l)
  <2>1. PICK l \in Loops : LoopAnswered(l)
    BY <1>11
  <2>2. UNCHANGED <<api, page, pc, poll, clicks, faults>>
    BY <2>1 DEF LoopAnswered
  <2>3. post' \in [Posters -> Posts]
    <3>1. l \in Posters
      BY DEF Posters
    <3> QED BY <1>1, <2>1, <3>1, SomePosts, PostsTyped DEF LoopAnswered
  <2>4. TypeOK'
    BY <1>1, <2>1, <2>2, <2>3, LoopCounts DEF TypeOK, api, page
  <2> QED BY <2>1, <2>4, LoopCounts
<1> QED BY <1>5, <1>6, <1>7, <1>8, <1>9, <1>10, <1>11 DEF Script

LEMMA RestTyped ==
  ASSUME PageInv,
         \/ \E o \in Ids : SelectRow(o) \/ Progress(o)
         \/ \E i \in FreePolls : FreePoll(i)
         \/ UNCHANGED vars
  PROVE  TypeOK' /\ BurstInv'
<1>1. TypeOK /\ created \in Nat /\ MaxOrders \in Nat
  BY DashboardAssumption DEF PageInv, TypeOK
<1>2. CASE \E o \in Ids : SelectRow(o)
  <2>1. PICK o \in Ids : SelectRow(o)
    BY <1>2
  <2>2. Entry(orders, o) \in Entries
    BY <1>1, <2>1, EntryOfListed DEF SelectRow, TypeOK
  <2>3. detail' \in [order : Entries \cup {NoEntry}, enabled : BOOLEAN]
    BY <1>1, <2>1, <2>2, DetailTyped DEF SelectRow, TypeOK
  <2>4. TypeOK'
    BY <1>1, <2>1, <2>3 DEF SelectRow, TypeOK, api, burst
  <2> QED BY <2>1, <2>4, BurstFrame DEF SelectRow, burst
<1>3. CASE \E o \in Ids : Progress(o)
  <2>1. PICK o \in Ids : Progress(o)
    BY <1>3
  <2>2. status' \in [Ids -> Statuses]
    BY <1>1, <2>1 DEF Progress, TypeOK, Statuses
  <2>3. TypeOK'
    BY <1>1, <2>1, <2>2 DEF Progress, TypeOK, page, burst
  <2> QED BY <2>1, <2>3, BurstFrame DEF Progress, burst
<1>4. CASE \E i \in FreePolls : FreePoll(i)
  <2>1. PICK i \in FreePolls : FreePoll(i)
    BY <1>4
  <2>2. poll' \in [Pollers -> PollType]
    BY <1>1, <2>1, PollsTyped DEF FreePoll, Pollers
  <2>3. TypeOK'
    BY <1>1, <2>1, <2>2 DEF FreePoll, TypeOK, PollType, api, page, burst
  <2> QED BY <2>1, <2>3, BurstFrame DEF FreePoll, burst
<1>5. CASE UNCHANGED vars
  <2>1. TypeOK'
    BY <1>1, <1>5 DEF vars, api, page, burst, TypeOK
  <2> QED BY <1>5, <2>1, BurstFrame DEF vars, api, page, burst
<1> QED BY <1>2, <1>3, <1>4, <1>5

\* Every list a poll brings is a listing of the API.
LEMMA ListsStep == ASSUME PageInv, [Next]_vars PROVE ListsInv'
<1>1. TypeOK /\ ListsInv /\ Distinct(Listing) /\ Distinct(<<>>)
  BY ListingOK DEF PageInv, Distinct
<1>2. poll \in [Pollers -> PollType]
  BY <1>1 DEF TypeOK, PollType
<1> DEFINE Kept == \E i \in Pollers, s \in {"none", "sent", "read"}, l \in {<<>>, Listing} :
                     poll' = [poll EXCEPT ![i] = [state |-> s, list |-> l]]
<1>3. poll' = poll \/ Kept
  <2>1. Handlers \subseteq Pollers /\ FreePolls \subseteq Pollers
    BY DEF Pollers
  <2>2. \A i \in Pollers : poll' \in {StartedPoll(i), [poll EXCEPT ![i] = NoPoll],
                                      [poll EXCEPT ![i] = [state |-> "read", list |-> Listing]]}
                             => Kept
    BY DEF StartedPoll, NoPoll
  <2> HIDE DEF Kept
  <2>3. CASE Script \/ User
    BY <2>1, <2>2, <2>3 DEF Script, User, SubmitAnswered, RetryAnswered, BurstPosted, LoopAnswered,
         SubmitOrder, RetrySelectedOrder, RunBurst, SelectRow, Handlers
  <2>4. CASE \E k \in Posters : Respond(k)
    BY <2>4 DEF Respond, Accept, Refuse, FailPost
  <2>5. CASE \E i \in Pollers : Resolve(i)
    BY <2>2, <2>5 DEF Resolve, AnswerPoll, PollDone, PollFails
  <2>6. CASE (\E i \in FreePolls : FreePoll(i)) \/ (\E o \in Ids : Progress(o)) \/ UNCHANGED vars
    BY <2>1, <2>2, <2>6 DEF FreePoll, Progress, vars
  <2> QED BY <2>3, <2>4, <2>5, <2>6 DEF Next
<1>4. \A i \in Pollers : Distinct(poll'[i].list)
  BY <1>1, <1>2, <1>3 DEF ListsInv
<1>5. orders' = orders \/ \E i \in Pollers : orders' = poll[i].list
  BY DEF Next, Script, User, Respond, Resolve, SubmitAnswered, RetryAnswered, BurstPosted,
         LoopAnswered, SubmitOrder, RetrySelectedOrder, RunBurst, SelectRow, Accept, Refuse,
         FailPost, AnswerPoll, PollDone, PollFails, FreePoll, Progress, vars, page
<1>6. Distinct(orders')
  BY <1>1, <1>5 DEF ListsInv
<1> QED BY <1>4, <1>6 DEF ListsInv

LEMMA NextPageInv == PageInv /\ [Next]_vars => PageInv'
<1> SUFFICES ASSUME PageInv, [Next]_vars PROVE PageInv'
  OBVIOUS
<1>1. ListsInv'
  BY ListsStep
<1>2. TypeOK' /\ BurstInv'
  <2>1. CASE Script \/ SubmitOrder \/ RetrySelectedOrder \/ RunBurst
    BY <2>1, ScriptTyped
  <2>2. CASE \E k \in Posters : Respond(k)
    BY <2>2, ApiTyped
  <2>3. CASE \E i \in Pollers : Resolve(i)
    BY <2>3, PollTyped
  <2>4. CASE \/ \E o \in Ids : SelectRow(o) \/ Progress(o)
             \/ \E i \in FreePolls : FreePoll(i)
             \/ UNCHANGED vars
    BY <2>4, RestTyped
  <2> QED BY <2>1, <2>2, <2>3, <2>4 DEF Next, User
<1> QED BY <1>1, <1>2 DEF PageInv

\* Every variable of the page keeps its type; the counts of a burst never pass
\* the number of its orders.
THEOREM PageTypeCorrect == Spec => []TypeOK
<1>1. PageInv => TypeOK
  BY DEF PageInv
<1> QED BY <1>1, InitPageInv, NextPageInv, PTL DEF Spec

\* A burst posts each of its orders exactly once, for any number of loops
\* sharing its index, in whatever order their answers and errors come.
THEOREM BurstIsAccounted == Spec => []BurstAccounted
<1>1. PageInv => BurstAccounted
  BY DEF PageInv, BurstInv, Counted, Waiting, BurstAccounted
<1> QED BY <1>1, InitPageInv, NextPageInv, PTL DEF Spec

-------------------------------------------------------------------------------
(***************************************************************************)
(* The panel and the table                                                 *)
(***************************************************************************)
\* A retry waits for its poll until its program counter says so.
RetryPolls ==
  /\ pc \in [Handlers -> {"idle", "posting", "polling"}]
  /\ poll \in [Pollers -> PollType]
  /\ poll["retry"].state # "none" => pc["retry"] = "polling"

LEMMA RetryPollsStep == ASSUME PageInv, PageInv', RetryPolls, [Next]_vars PROVE RetryPolls'
<1>1. /\ "retry" \in Pollers \ FreePolls /\ Handlers \subseteq Pollers
      /\ "retry" \in Handlers
  BY DashboardAssumption DEF Pollers, Handlers
<1>2. /\ pc' \in [Handlers -> {"idle", "posting", "polling"}]
      /\ poll' \in [Pollers -> PollType]
  BY DEF PageInv, TypeOK, PollType
<1>3. CASE SubmitOrder \/ RunBurst \/ SubmitAnswered \/ BurstPosted
  <2>1. pc'["retry"] = pc["retry"]
    BY <1>3 DEF RetryPolls, SubmitOrder, RunBurst, SubmitAnswered, BurstPosted, Clicked, Handlers
  <2>2. poll'["retry"] = poll["retry"]
    BY <1>1, <1>3 DEF RetryPolls, SubmitOrder, RunBurst, SubmitAnswered, BurstPosted, StartedPoll
  <2> QED BY <1>2, <2>1, <2>2 DEF RetryPolls
<1>4. CASE RetrySelectedOrder
  BY <1>1, <1>2, <1>4 DEF RetryPolls, RetrySelectedOrder, Clicked
<1>5. CASE RetryAnswered
  BY <1>1, <1>2, <1>5 DEF RetryPolls, RetryAnswered, StartedPoll
<1>6. CASE \E i \in Pollers : PollDone(i) \/ PollFails(i)
  <2>1. PICK i \in Pollers : PollDone(i) \/ PollFails(i)
    BY <1>6
  <2>2. poll' = [poll EXCEPT ![i] = NoPoll] /\ HandlerDone(i)
    BY <2>1 DEF PollDone, PollFails
  <2> QED BY <1>1, <1>2, <2>2 DEF RetryPolls, HandlerDone, NoPoll
<1>7. CASE \E i \in Pollers : AnswerPoll(i)
  BY <1>1, <1>2, <1>7 DEF RetryPolls, AnswerPoll
<1>8. CASE \E i \in FreePolls : FreePoll(i)
  BY <1>1, <1>2, <1>8 DEF RetryPolls, FreePoll, StartedPoll
<1>9. CASE \/ \E o \in Ids : SelectRow(o) \/ Progress(o)
           \/ \E l \in Loops : LoopAnswered(l)
           \/ \E k \in Posters : Respond(k)
           \/ UNCHANGED vars
  <2>1. UNCHANGED <<pc, poll>>
    BY <1>9 DEF SelectRow, Progress, LoopAnswered, Respond, Accept, Refuse, FailPost, vars
  <2> QED BY <1>2, <2>1 DEF RetryPolls
<1> QED BY <1>3, <1>4, <1>5, <1>6, <1>7, <1>8, <1>9 DEF Next, User, Script, Resolve

\* A panel drawn from the table agrees with it; the finally block draws it from
\* the table if the selected order is there.
LEMMA FinallyAgrees ==
  ASSUME NEW list \in Seq(Entries), NEW sel, Finally(list, sel), orders' = list, selected' = sel
  PROVE  Agree' \/ ~Listed(orders', selected')
<1>1. SUFFICES ASSUME Listed(list, sel) PROVE Agree'
  OBVIOUS
<1>2. Entry(list, sel).id = sel
  BY <1>1, EntryOfListed
<1>3. detail'.order = Entry(list, sel)
  BY <1>1 DEF Finally, Found, Detail
<1> QED BY <1>2, <1>3 DEF Agree

LEMMA PanelStep ==
  ASSUME PageInv, PageInv', RetryPolls, [Next]_vars, Agree, ~Agree'
  PROVE  RetryEnds /\ ~Listed(orders', selected')
<1>1. orders \in Seq(Entries) /\ orders' \in Seq(Entries) /\ Distinct(orders')
  BY DEF PageInv, TypeOK, ListsInv
<1>2. ~(orders' = orders /\ detail'.order = detail.order)
  BY DEF Agree
<1>3. ~\E o \in Ids : SelectRow(o)
  <2> SUFFICES ASSUME NEW o \in Ids, SelectRow(o) PROVE FALSE
    OBVIOUS
  <2>1. detail'.order = Entry(orders, o) /\ orders' = orders /\ Listed(orders, o)
    BY DEF SelectRow, Detail
  <2> QED BY <1>1, <2>1, EntryOfListed DEF Agree
<1>4. CASE RetryAnswered
  <2>1. CASE UNCHANGED detail
    BY <1>2, <1>4, <2>1 DEF RetryAnswered
  <2>2. CASE Finally(orders, selected) /\ selected' = selected /\ pc' = [pc EXCEPT !["retry"] = "idle"]
    <3>1. RetryEnds
      BY <1>4, <2>2 DEF RetryAnswered, RetryEnds, RetryPolls, Handlers
    <3> QED BY <1>1, <1>4, <2>2, <3>1, FinallyAgrees DEF RetryAnswered
  <2> QED BY <1>4, <2>1, <2>2 DEF RetryAnswered
<1>5. CASE \E i \in Pollers : PollDone(i) \/ PollFails(i)
  <2>1. PICK i \in Pollers : PollDone(i) \/ PollFails(i)
    BY <1>5
  <2>2. CASE i = "retry"
    <3>1. Finally(orders', selected')
      BY <2>1, <2>2 DEF PollDone, PollFails, AfterPoll
    <3>2. RetryEnds
      BY <2>1, <2>2 DEF PollDone, PollFails, HandlerDone, RetryEnds, RetryPolls, Handlers
    <3> QED BY <1>1, <3>1, <3>2, FinallyAgrees
  <2>3. CASE i # "retry"
    <3>1. PollDone(i)
      BY <1>2, <2>1, <2>3 DEF PollFails, AfterPoll
    <3>2. detail'.order = Shown(orders', selected)
      BY <2>3, <3>1 DEF PollDone, AfterPoll, Detail
    <3>3. selected \in Ids \cup {NoOrder}
      BY DEF PageInv, TypeOK
    <3>4. CASE orders' = <<>>
      BY <3>4 DEF Agree, Listed
    <3>5. CASE orders' # <<>>
      BY <1>1, <3>2, <3>3, <3>5, SelectionShown DEF Agree
    <3> QED BY <3>4, <3>5
  <2> QED BY <2>2, <2>3
<1>6. CASE RetrySelectedOrder
  BY <1>2, <1>6 DEF RetrySelectedOrder, PageInv, TypeOK
<1>7. CASE \/ SubmitOrder \/ RunBurst \/ SubmitAnswered \/ BurstPosted
           \/ \E l \in Loops : LoopAnswered(l)
           \/ \E k \in Posters : Respond(k)
           \/ \E i \in Pollers : AnswerPoll(i)
           \/ \E i \in FreePolls : FreePoll(i)
           \/ \E o \in Ids : Progress(o)
           \/ UNCHANGED vars
  BY <1>2, <1>7 DEF SubmitOrder, RunBurst, SubmitAnswered, BurstPosted, LoopAnswered, Respond,
     Accept, Refuse, FailPost, AnswerPoll, FreePoll, Progress, vars, page
<1> QED BY <1>3, <1>4, <1>5, <1>6, <1>7 DEF Next, User, Script, Resolve

\* However polls overlap and their answers are reordered, only the end of a
\* retry can make the panel and the table disagree.
THEOREM PanelAgrees == Spec => DetailAgrees
<1>1. Init => RetryPolls
  <2>1. "retry" \in Pollers /\ NoPoll \in PollType
    BY DEF Pollers, Handlers, NoPoll, PollType
  <2> QED BY <2>1 DEF Init, RetryPolls, NoPoll
<1>2. PageInv /\ PageInv' /\ RetryPolls /\ [Next]_vars => RetryPolls'
  BY RetryPollsStep
<1>3. PageInv /\ PageInv' /\ RetryPolls /\ [Next]_vars
        => [Agree /\ ~Agree' => RetryEnds /\ ~Listed(orders', selected')]_vars
  BY PanelStep
<1> QED BY <1>1, <1>2, <1>3, InitPageInv, NextPageInv, PTL DEF Spec, DetailAgrees
===============================================================================
