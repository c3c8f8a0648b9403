--------------------------- MODULE AtLeastOnceQueue ---------------------------
(***************************************************************************)
(* What the pipeline promises a customer, without Redis, Kafka, processes  *)
(* or faults: an order is accepted only once it is in the queue; whatever  *)
(* is in the queue is handled at least once before the queue lets go of    *)
(* it; and that happens to every order in the queue, unless the queue      *)
(* forgets what it holds.                                                  *)
(***************************************************************************)
CONSTANT Orders

VARIABLES published,  \* orders that are or were in the queue
          accepted,   \* orders whose customer got an order id
          handled,    \* orders that were processed at least once
          settled     \* orders the queue will not deliver again on its own

vars == <<published, accepted, handled, settled>>

Init ==
  /\ published = {}
  /\ accepted = {}
  /\ handled = {}
  /\ settled = {}

Publish(o) ==
  /\ o \notin published
  /\ published' = published \cup {o}
  /\ UNCHANGED <<accepted, handled, settled>>

Accept(o) ==
  /\ o \in published
  /\ accepted' = accepted \cup {o}
  /\ UNCHANGED <<published, handled, settled>>

Handle(o) ==
  /\ o \in published
  /\ handled' = handled \cup {o}
  /\ UNCHANGED <<published, accepted, settled>>

Settle(o) ==
  /\ o \in handled
  /\ settled' = settled \cup {o}
  /\ UNCHANGED <<published, accepted, handled>>

\* The queue loses what it holds.  Of the orders published before, any may come
\* again or never.
Forget ==
  /\ settled' = {}
  /\ UNCHANGED <<published, accepted, handled>>

Next ==
  \/ \E o \in Orders : Publish(o) \/ Accept(o) \/ Handle(o) \/ Settle(o)
  \/ Forget

\* The fairness is the promise of a queue that forgets nothing.
Spec ==
  /\ Init
  /\ [][Next]_vars
  /\ \A o \in Orders : WF_vars(Handle(o)) /\ WF_vars(Settle(o))
===============================================================================
