------------------------------- MODULE Dashboard -------------------------------
(***************************************************************************)
(* The browser page in front of the Order API.  Its script has one thread, *)
(* but its handlers await answers: polls started by the timer, by the      *)
(* Refresh button and at the end of other handlers overlap, answers arrive *)
(* in any order, and the user clicks in between.  A step is what runs      *)
(* between two awaits.                                                     *)
(*                                                                         *)
(* Orders are numbered as the API creates them; GET /orders lists the      *)
(* newest ListLimit of them.  Metrics and readiness, fetched by the same   *)
(* poll and only displayed, are left out.                                  *)
(***************************************************************************)
EXTENDS Integers, Sequences, FiniteSets

CONSTANTS MaxOrders,    \* orders the API creates before it refuses more
          ListLimit,    \* the dashboard's limit (14 in the code)
          BurstCount,   \* orders of one burst
          Loops,        \* workerLoops of one burst: min(concurrency, count)
          FreePolls,    \* bound on overlapping polls of the timer, the Refresh
                        \* button and boot()
          Clicks,       \* the scenarios: how many submissions, retries, bursts
          MaxFaults     \* bound on failing requests

Handlers == {"submit", "retry", "burst"}

ASSUME DashboardAssumption ==
  /\ MaxOrders \in Nat \ {0} /\ ListLimit \in Nat \ {0} /\ BurstCount \in Nat \ {0}
  /\ Clicks \subseteq [Handlers -> Nat] /\ MaxFaults \in Nat
  /\ IsFiniteSet(Loops) /\ Cardinality(Loops) \in 1..BurstCount
  /\ Handlers \cap (Loops \cup FreePolls) = {}

Posters  == {"submit", "retry"} \cup Loops   \* who waits for a POST
Pollers  == Handlers \cup FreePolls          \* who waits for pollPlatform()
Ids      == 1..MaxOrders
NoOrder  == 0

VARIABLES
  created, status,  \* the API: orders 1..created exist, each with a status
  orders,           \* state.orders
  selected,         \* state.selectedOrderId
  detail,           \* the order last given to renderDetail, and the button
  retryInFlight, retryOrder,
  pc,               \* where submitOrder, retrySelectedOrder and runBurst are
  jobs, submitted, failed,  \* of the current burst
  post,             \* per poster, its POST
  poll,             \* per poller, its poll
  clicks,           \* per handler, clicks to come
  faults

api  == <<created, status>>
page == <<orders, selected, detail, retryInFlight, retryOrder>>
burst == <<jobs, submitted, failed>>
vars == <<api, page, pc, burst, post, poll, clicks, faults>>

Statuses == {"queued", "completed", "failed", "recovered"}
Entries  == [id : Ids, status : Statuses]
NoEntry  == [id |-> NoOrder, status |-> "queued"]

NoPost == [state |-> "none", id |-> NoOrder]
Posts  == [state : {"none", "sent", "ok", "error"}, id : Ids \cup {NoOrder}]
NoPoll == [state |-> "none", list |-> <<>>]

-------------------------------------------------------------------------------
(***************************************************************************)
(* Rendering                                                               *)
(***************************************************************************)
Listed(list, id) == \E i \in 1..Len(list) : list[i].id = id
Entry(list, id)  == list[CHOOSE i \in 1..Len(list) : list[i].id = id]

\* state.orders.find(...) || fallback
Found(list, id, fallback) == IF Listed(list, id) THEN Entry(list, id) ELSE fallback

\* Mutated form: renderDetail does not look at retryInFlight.
Detail_IgnoresRetry(entry, retrying) ==
  [order |-> entry, enabled |-> entry.status = "failed"]

\* renderDetail: what the panel shows, and whether the retry button is enabled.
Detail(entry, retrying) ==
  [order |-> entry, enabled |-> entry.status = "failed" /\ ~retrying]

\* Mutated form: the selection stays although its order has left the list.
Selection_Kept(list, id) == id

\* renderOrders: a selection that is not in the list falls back to the newest.
Selection(list, id) == IF list = <<>> THEN id ELSE Found(list, id, list[1]).id
Shown(list, id)     == IF list = <<>> THEN NoEntry ELSE Found(list, id, list[1])

-------------------------------------------------------------------------------
(***************************************************************************)
(* Requests                                                                *)
(***************************************************************************)
\* The newest orders as they are at one moment: listRecent reads the ids and then
\* one record after the other, which a poll that mixes two moments would show.
Listing ==
  [i \in 1..(IF created < ListLimit THEN created ELSE ListLimit) |->
     [id |-> created + 1 - i, status |-> status[created + 1 - i]]]

\* POST /orders and POST /orders/{id}/retry answer; the retry of an order that
\* is not failed is refused with 409.  A burst does not look at the new ids.
Accept(k) ==
  /\ post[k].state = "sent" /\ created < MaxOrders
  /\ k = "retry" => status[retryOrder.id] = "failed"
  /\ created' = created + 1
  /\ status' = [status EXCEPT ![created + 1] = "queued"]
  /\ post' = [post EXCEPT ![k] = [state |-> "ok",
                                   id    |-> IF k \in Loops THEN NoOrder ELSE created + 1]]
  /\ UNCHANGED <<page, pc, burst, poll, clicks, faults>>

Refuse(k) ==
  /\ post[k].state = "sent"
  /\ created = MaxOrders \/ (k = "retry" /\ status[retryOrder.id] # "failed")
  /\ post' = [post EXCEPT ![k] = [state |-> "error", id |-> NoOrder]]
  /\ UNCHANGED <<api, page, pc, burst, poll, clicks, faults>>

\* The request fails: the connection does, before the order is stored or when only
\* the answer is lost; or the broker does, and the order is stored as failed.
FailPost(k, left) ==
  /\ post[k].state = "sent" /\ faults < MaxFaults
  /\ left # "nothing" => /\ created < MaxOrders
                         /\ k = "retry" => status[retryOrder.id] = "failed"
  /\ created' = IF left = "nothing" THEN created ELSE created + 1
  /\ status' = IF left = "nothing" THEN status ELSE [status EXCEPT ![created + 1] = left]
  /\ post' = [post EXCEPT ![k] = [state |-> "error", id |-> NoOrder]]
  /\ faults' = faults + 1
  /\ UNCHANGED <<page, pc, burst, poll, clicks>>

\* Workers finish orders; an order marked failed may still be delivered late,
\* or be recovered by a retry.
Progress(o) ==
  /\ o \in 1..created /\ status[o] \in {"queued", "failed"}
  /\ \E s \in IF status[o] = "queued" THEN {"completed", "failed"}
                                      ELSE {"completed", "recovered"} :
       status' = [status EXCEPT ![o] = s]
  /\ UNCHANGED <<created, page, pc, burst, post, poll, clicks, faults>>

\* GET /orders?limit=14 is answered; the poll still waits for its other three.
AnswerPoll(i) ==
  /\ poll[i].state = "sent"
  /\ poll' = [poll EXCEPT ![i] = [state |-> "read", list |-> Listing]]
  /\ UNCHANGED <<api, page, pc, burst, post, clicks, faults>>

StartedPoll(i) == [poll EXCEPT ![i] = [state |-> "sent", list |-> <<>>]]

-------------------------------------------------------------------------------
(***************************************************************************)
(* pollPlatform and what runs when it is done                              *)
(***************************************************************************)
\* The finally block of retrySelectedOrder: it clears the flag and shows the
\* selected order, or the one that was retried.
Finally(list, sel) ==
  /\ retryInFlight' = FALSE
  /\ detail' = Detail(Found(list, sel, retryOrder), FALSE)
  /\ retryOrder' = NoEntry

\* What is left of the step: the finally block, if the poll was the last await
\* of a retry, or else what the poll itself has rendered.
AfterPoll(i, list, sel, rendered) ==
  IF i = "retry" THEN Finally(list, sel)
                 ELSE detail' = rendered /\ UNCHANGED <<retryInFlight, retryOrder>>

\* The handler that awaited the poll is done.
HandlerDone(i) == pc' = IF i \in Handlers THEN [pc EXCEPT ![i] = "idle"] ELSE pc

\* Mutated form: the list is stored and only the status tiles are rendered.
PollDone_NotRendered(i) ==
  /\ poll[i].state = "read"
  /\ poll' = [poll EXCEPT ![i] = NoPoll]
  /\ orders' = poll[i].list
  /\ AfterPoll(i, orders', selected, detail)
  /\ HandlerDone(i)
  /\ UNCHANGED <<api, selected, burst, post, clicks, faults>>

\* All four answers are there: the list is replaced and rendered.
PollDone(i) ==
  /\ poll[i].state = "read"
  /\ poll' = [poll EXCEPT ![i] = NoPoll]
  /\ orders' = poll[i].list
  /\ selected' = Selection(orders', selected)
  /\ AfterPoll(i, orders', selected', Detail(Shown(orders', selected), retryInFlight))
  /\ HandlerDone(i)
  /\ UNCHANGED <<api, burst, post, clicks, faults>>

\* One of the four requests fails: only the status tiles change, and the
\* handler goes on as if the poll had worked.
PollFails(i) ==
  /\ poll[i].state # "none" /\ faults < MaxFaults
  /\ poll' = [poll EXCEPT ![i] = NoPoll]
  /\ faults' = faults + 1
  /\ AfterPoll(i, orders, selected, detail)
  /\ HandlerDone(i)
  /\ UNCHANGED <<api, orders, selected, burst, post, clicks>>

\* setInterval, the Refresh button and boot().
FreePoll(i) ==
  /\ poll[i].state = "none"
  /\ poll' = StartedPoll(i)
  /\ UNCHANGED <<api, page, pc, burst, post, clicks, faults>>

-------------------------------------------------------------------------------
(***************************************************************************)
(* The user                                                                *)
(***************************************************************************)
\* A click on a row of the table.
SelectRow(o) ==
  /\ Listed(orders, o)
  /\ selected' = o
  /\ detail' = Detail(Entry(orders, o), retryInFlight)
  /\ UNCHANGED <<api, orders, retryInFlight, retryOrder, pc, burst, post, poll, clicks, faults>>

Clicked(h) ==
  /\ pc[h] = "idle" /\ clicks[h] > 0
  /\ clicks' = [clicks EXCEPT ![h] = @ - 1]
  /\ pc' = [pc EXCEPT ![h] = "posting"]

\* submitOrder up to its await; the button is disabled until it is done.
SubmitOrder ==
  /\ Clicked("submit")
  /\ post' = [post EXCEPT !["submit"].state = "sent"]
  /\ UNCHANGED <<api, page, burst, poll, faults>>

\* The answer selects the new order; nothing is rendered before the poll.
SubmitAnswered ==
  /\ pc["submit"] = "posting"
  /\ post["submit"].state \in {"ok", "error"}
  /\ post' = [post EXCEPT !["submit"] = NoPost]
  /\ IF post["submit"].state = "ok"
       THEN /\ selected' = post["submit"].id
            /\ poll' = StartedPoll("submit")
            /\ pc' = [pc EXCEPT !["submit"] = "polling"]
       ELSE /\ pc' = [pc EXCEPT !["submit"] = "idle"]
            /\ UNCHANGED <<selected, poll>>
  /\ UNCHANGED <<api, orders, detail, retryInFlight, retryOrder, burst, clicks, faults>>

\* retrySelectedOrder up to its await.  It retries the selected order if the
\* list shows it as failed, and otherwise returns without a trace.
RetrySelectedOrder ==
  /\ detail.enabled /\ ~retryInFlight
  /\ Listed(orders, selected) /\ Entry(orders, selected).status = "failed"
  /\ retryOrder' = Entry(orders, selected)
  /\ retryInFlight' = TRUE
  /\ detail' = [detail EXCEPT !.enabled = FALSE]
  /\ Clicked("retry")
  /\ post' = [post EXCEPT !["retry"].state = "sent"]
  /\ UNCHANGED <<api, orders, selected, burst, poll, faults>>

\* Mutated form: no finally, the error branch only tells the user.
RetryAnswered_NoFinally ==
  /\ pc["retry"] = "posting"
  /\ post["retry"].state \in {"ok", "error"}
  /\ post' = [post EXCEPT !["retry"] = NoPost]
  /\ IF post["retry"].state = "ok"
       THEN /\ selected' = post["retry"].id
            /\ poll' = StartedPoll("retry")
            /\ pc' = [pc EXCEPT !["retry"] = "polling"]
       ELSE UNCHANGED <<pc, selected, poll>>
  /\ UNCHANGED <<api, orders, retryInFlight, detail, retryOrder, burst, clicks, faults>>

\* The answer selects the recovery job, and a poll follows; an error goes
\* straight to the finally block.
RetryAnswered ==
  /\ pc["retry"] = "posting"
  /\ post["retry"].state \in {"ok", "error"}
  /\ post' = [post EXCEPT !["retry"] = NoPost]
  /\ IF post["retry"].state = "ok"
       THEN /\ selected' = post["retry"].id
            /\ poll' = StartedPoll("retry")
            /\ pc' = [pc EXCEPT !["retry"] = "polling"]
            /\ UNCHANGED <<retryInFlight, retryOrder, detail>>
       ELSE /\ pc' = [pc EXCEPT !["retry"] = "idle"]
            /\ Finally(orders, selected)
            /\ UNCHANGED <<selected, poll>>
  /\ UNCHANGED <<api, orders, burst, clicks, faults>>

\* runBurst: every workerLoop shifts its first index and posts it.
RunBurst ==
  /\ Clicked("burst")
  /\ jobs' = BurstCount - Cardinality(Loops)
  /\ post' = [k \in Posters |-> IF k \in Loops THEN [NoPost EXCEPT !.state = "sent"]
                                               ELSE post[k]]
  /\ submitted' = 0 /\ failed' = 0
  /\ UNCHANGED <<api, page, poll, faults>>

\* Mutated forms: an error is not counted; the length is not tested again.
LoopAnswered_ErrorsNotCounted(l) ==
  /\ post[l].state \in {"ok", "error"}
  /\ submitted' = IF post[l].state = "ok" THEN submitted + 1 ELSE submitted
  /\ jobs' = IF jobs > 0 THEN jobs - 1 ELSE jobs
  /\ post' = [post EXCEPT ![l] = IF jobs > 0 THEN [NoPost EXCEPT !.state = "sent"] ELSE NoPost]
  /\ UNCHANGED <<api, page, pc, failed, poll, clicks, faults>>

LoopAnswered_NoTest(l) ==
  /\ post[l].state \in {"ok", "error"}
  /\ submitted' = IF post[l].state = "ok" THEN submitted + 1 ELSE submitted
  /\ failed' = IF post[l].state = "error" THEN failed + 1 ELSE failed
  /\ jobs' = jobs - 1
  /\ post' = [post EXCEPT ![l] = [NoPost EXCEPT !.state = "sent"]]
  /\ UNCHANGED <<api, page, pc, poll, clicks, faults>>

\* A workerLoop counts its answer and shifts the next index, if there is one.
LoopAnswered(l) ==
  /\ post[l].state \in {"ok", "error"}
  /\ submitted' = IF post[l].state = "ok" THEN submitted + 1 ELSE submitted
  /\ failed' = IF post[l].state = "error" THEN failed + 1 ELSE failed
  /\ jobs' = IF jobs > 0 THEN jobs - 1 ELSE jobs
  /\ post' = [post EXCEPT ![l] = IF jobs > 0 THEN [NoPost EXCEPT !.state = "sent"] ELSE NoPost]
  /\ UNCHANGED <<api, page, pc, poll, clicks, faults>>

\* All loops have ended: the result is reported and a poll follows.
BurstPosted ==
  /\ pc["burst"] = "posting"
  /\ \A l \in Loops : post[l].state = "none"
  /\ pc' = [pc EXCEPT !["burst"] = "polling"]
  /\ poll' = StartedPoll("burst")
  /\ UNCHANGED <<api, page, burst, post, clicks, faults>>

-------------------------------------------------------------------------------
Init ==
  /\ created = 0 /\ status = [o \in Ids |-> "queued"]
  /\ orders = <<>> /\ selected = NoOrder
  /\ detail = Detail(NoEntry, FALSE)
  /\ retryInFlight = FALSE /\ retryOrder = NoEntry
  /\ pc = [h \in Handlers |-> "idle"]
  /\ jobs = 0 /\ submitted = 0 /\ failed = 0
  /\ post = [k \in Posters |-> NoPost]
  /\ poll = [i \in Pollers |-> NoPoll]
  /\ clicks \in Clicks /\ faults = 0

Respond(k) ==
  \/ Accept(k) \/ Refuse(k)
  \/ \E left \in {"nothing", "queued", "failed"} : FailPost(k, left)

Resolve(i) == AnswerPoll(i) \/ PollDone(i) \/ PollFails(i)

Script ==
  \/ SubmitAnswered \/ RetryAnswered \/ BurstPosted
  \/ \E l \in Loops : LoopAnswered(l)

User == SubmitOrder \/ RetrySelectedOrder \/ RunBurst \/ \E o \in Ids : SelectRow(o)

Next ==
  \/ User
  \/ Script
  \/ \E k \in Posters : Respond(k)
  \/ \E i \in Pollers : Resolve(i)
  \/ \E i \in FreePolls : FreePoll(i)
  \/ \E o \in Ids : Progress(o)

Spec == Init /\ [][Next]_vars

\* Every request is answered or fails in the end, the browser runs what is
\* ready, and the interval timer goes on; nobody has to click.
Fairness ==
  /\ WF_vars(\E k \in Posters : Respond(k))
  /\ \A i \in Pollers : WF_vars(Resolve(i))
  /\ WF_vars(Script)
  /\ WF_vars(\E i \in FreePolls : FreePoll(i))

FairSpec == Spec /\ Fairness

-------------------------------------------------------------------------------
(***************************************************************************)
(* Properties                                                              *)
(***************************************************************************)
\* Every variable keeps its type.
TypeOK ==
  /\ created \in 0..MaxOrders /\ status \in [Ids -> Statuses]
  /\ orders \in Seq(Entries) /\ selected \in Ids \cup {NoOrder}
  /\ detail \in [order : Entries \cup {NoEntry}, enabled : BOOLEAN]
  /\ retryInFlight \in BOOLEAN /\ retryOrder \in Entries \cup {NoEntry}
  /\ pc \in [Handlers -> {"idle", "posting", "polling"}]
  /\ jobs \in 0..BurstCount /\ submitted \in 0..BurstCount /\ failed \in 0..BurstCount
  /\ post \in [Posters -> Posts]
  /\ poll \in [Pollers -> [state : {"none", "sent", "read"}, list : Seq(Entries)]]
  /\ clicks \in [Handlers -> Nat] /\ faults \in 0..MaxFaults

\* The retry button can be pressed only when no retry is under way, from the
\* click to the end of the poll that follows, whatever other polls and row
\* clicks render in between; and only for an order shown as failed.
RetryGuarded ==
  /\ detail.enabled => pc["retry"] = "idle" /\ detail.order.status = "failed"
  /\ retryInFlight <=> pc["retry"] # "idle"

\* The detail panel and the table agree on the order they both show.  Only the
\* end of a retry breaks that: when the selected order is not in the table, the
\* finally block shows the order it retried as it was before the click, and an
\* older poll, rendered after a newer one, may list it with another status.
\* No row click, no answer and no poll, in whatever order they come, does.
Agree == Listed(orders, detail.order.id) => detail.order = Entry(orders, detail.order.id)

RetryEnds == pc["retry"] # "idle" /\ pc'["retry"] = "idle"

DetailAgrees ==
  [][Agree /\ ~Agree' => RetryEnds /\ ~Listed(orders', selected')]_vars

\* A burst posts each of its orders exactly once: those counted, those still
\* waiting for an answer and those not yet posted always add up.
BurstAccounted ==
  pc["burst"] # "idle" =>
    submitted + failed + jobs + Cardinality({l \in Loops : post[l].state # "none"})
      = BurstCount

\* Every button comes back: a submission, a retry and a burst end, also when
\* their requests or their polls fail.
HandlersEnd == \A h \in Handlers : []<>(pc[h] = "idle")

\* The page catches up: in the end table and detail show what the API lists,
\* although older answers may be rendered after newer ones for a while.
PageCatchesUp ==
  <>[](/\ orders = Listing
       /\ orders # <<>> =>
            Listed(orders, selected) /\ detail.order = Entry(orders, selected))

\* "Select a failed order to resubmit it" (the detail panel): the order that is
\* resubmitted is the one the panel shows.
RetriesShownOrder ==
  [][RetrySelectedOrder => retryOrder'.id = detail.order.id]_vars
===============================================================================
