---------------------------- MODULE LoadGenerator ----------------------------
(***************************************************************************)
(* load_generator.py as the client of the pipeline, while the healing      *)
(* controller takes its metrics: the script submits every order from a     *)
(* pool of threads, gives up on a request after its own 10 seconds, and    *)
(* prints how many orders it submitted, or dies of the first error.        *)
(***************************************************************************)
EXTENDS MetricsScan

CONSTANT Concurrency  \* --concurrency, the threads of the pool

ASSUME LoadAssumption == Concurrency \in Nat \ {0}

VARIABLES
  future,    \* per order, the future of its submit_order
  main,      \* what the main thread does
  submitted  \* results main has appended

load     == <<future, main, submitted>>
loadVars == <<scanVars, load>>

Futures == {"pending", "running", "ok", "error"}
Mains   == {"collecting", "leaving", "printed", "died"}

Done(o) == future[o] \in {"ok", "error"}

Resolve(o, from, to) ==
  /\ future[o] = from
  /\ future' = [future EXCEPT ![o] = to]

\* A free thread of the pool takes the next order and posts it.  Main plays no
\* part in it: the pool works on after main met an error.
StartRequest(o) ==
  /\ Cardinality({x \in Orders : future[x] = "running"}) < Concurrency
  /\ Resolve(o, "pending", "running")
  /\ PlaceOrder(o, FALSE)
  /\ UNCHANGED <<main, submitted>>

ClientFails(o, from) ==
  /\ Spend("client")
  /\ Resolve(o, from, "error")
  /\ UNCHANGED <<redis, api, kafka, workers, executed, main, submitted>>

\* urlopen raises before a handler ran: the connection is refused.
RequestRefused(o) == ClientFails(o, "pending")

\* urlopen raises after 10 seconds, or because the answer got lost; the handler
\* goes on or has ended.
TimesOut(o) == ClientFails(o, "running")

\* Mutated form: a 503 is taken for a reason to wait.
Answered_WaitsForSuccess(o) ==
  /\ apiPc[o] = "accepted"
  /\ Resolve(o, "running", "ok")
  /\ UNCHANGED <<vars, main, submitted>>

\* The API answered: 503, and the reset connection of a crash, raise.
Answered(o) ==
  /\ apiPc[o] \in ApiDone
  /\ Resolve(o, "running", IF apiPc[o] = "accepted" THEN "ok" ELSE "error")
  /\ UNCHANGED <<vars, main, submitted>>

\* Mutated forms: the future itself is appended; an exception is printed and
\* the loop goes on.
Collect_AppendsFuture(o) ==
  /\ main = "collecting" /\ Done(o) /\ o \notin submitted
  /\ submitted' = submitted \cup {future[o]}
  /\ UNCHANGED <<vars, main, future>>

Collect_CountsErrors(o) ==
  /\ main = "collecting" /\ Done(o) /\ o \notin submitted
  /\ submitted' = submitted \cup {o}
  /\ UNCHANGED <<vars, main, future>>

\* as_completed yields a future; result() raises what submit_order raised.
Collect(o) ==
  /\ main = "collecting" /\ Done(o) /\ o \notin submitted
  /\ IF future[o] = "ok"
       THEN submitted' = submitted \cup {o} /\ UNCHANGED main
       ELSE main' = "leaving" /\ UNCHANGED submitted
  /\ UNCHANGED <<vars, future>>

\* The end of the with block waits for the pool, whose futures are not
\* cancelled, on the way to the last print and on the way out of main.
Leave ==
  /\ \A o \in Orders : Done(o)
  /\ \/ main = "collecting" /\ submitted = Orders /\ main' = "printed"
     \/ main = "leaving" /\ main' = "died"
  /\ UNCHANGED <<vars, future, submitted>>

GeneratorStep(o) ==
  \/ StartRequest(o) \/ RequestRefused(o) \/ TimesOut(o) \/ Answered(o) \/ Collect(o)

\* The pipeline without other clients.
PipelineStep ==
  \/ \E o \in Orders : ApiStep(o)
  \/ \E o \in Orders, p \in Partitions : BrokerAppend(o, p)
  \/ \E w \in Workers : WorkerStep(w)
  \/ \E w \in Workers, p \in Partitions : Assign(w, p)
  \/ Faults

LoadInit ==
  /\ ScanInit
  /\ future = [o \in Orders |-> "pending"]
  /\ main = "collecting" /\ submitted = {}

LoadNext ==
  \/ (\E o \in Orders : GeneratorStep(o)) /\ UNCHANGED scan
  \/ Leave /\ UNCHANGED scan
  \/ PipelineStep /\ UNCHANGED <<scan, load>>
  \/ ScanStep /\ UNCHANGED load

LoadSpec == LoadInit /\ [][LoadNext]_loadVars

\* Threads, sockets and the controller's loop go on; what goes wrong need not.
LoadFairness ==
  /\ Fairness
  /\ \A o \in Orders : WF_loadVars((StartRequest(o) \/ Answered(o) \/ Collect(o)) /\ UNCHANGED scan)
  /\ WF_loadVars(Leave /\ UNCHANGED scan)
  /\ WF_loadVars(ScanStep /\ UNCHANGED load)

FairLoadSpec == LoadSpec /\ LoadFairness

-------------------------------------------------------------------------------
LoadTypeOK ==
  /\ future \in [Orders -> Futures]
  /\ main \in Mains
  /\ submitted \subseteq Orders

\* The number of orders the script prints is the number the API accepted: its
\* last line appears only if every order was, although requests of several
\* threads time out, fail and are answered in any order.
ReportIsTrue ==
  main = "printed" => \A o \in Orders : o \in submitted /\ apiPc[o] = "accepted"

\* The script ends, whatever goes wrong on the way.
GeneratorEnds == <>(main \in {"printed", "died"})

\* In the end the load is worked off and the metrics say so: scans go on, and
\* each reports no backlog and all the orders that reached the API, up to the
\* cap, those included whose client had given up.  (Not after an API crash,
\* which leaves an order queued that nobody delivers.)
BacklogDrains ==
  /\ []<>Complete
  /\ <>[](Complete =>
            /\ Backlog = 0
            /\ LET placed == Cardinality({o \in Orders : apiPc[o] # "unused"})
               IN  Total = IF placed > ScanLimit THEN ScanLimit ELSE placed)
===============================================================================
