----------------------------- MODULE MetricsScan -----------------------------
(***************************************************************************)
(* metrics() next to the pipeline it measures: LRANGE of jobs:recent and   *)
(* then one GET per id, while handlers and workers go on writing.  The     *)
(* counts belong to no single moment.  The reader is the healing           *)
(* controller, which scales the workers by them.                           *)
(***************************************************************************)
EXTENDS OrderPipeline

CONSTANT ScanLimit  \* list_recent(limit=500)

ASSUME ScanAssumption == ScanLimit \in Nat \ {0}

VARIABLES
  ids,   \* what LRANGE returned to the scan under way, or to the last one
  seen   \* statuses of the records read so far, in the order of ids

scan     == <<ids, seen>>
scanVars == <<vars, scan>>

\* Every id has been read: metrics() has its result.
Complete == Len(seen) = Len(ids)

\* LRANGE 0 limit-1
Newest(list) == IF Len(list) > ScanLimit THEN SubSeq(list, 1, ScanLimit) ELSE list

\* LRANGE, in the pass that follows the last one.
BeginScan ==
  /\ Complete
  /\ ids' = Newest(recent)
  /\ seen' = <<>>

\* GET of the next id; an absent record is the None that list_recent drops.
GetNext ==
  /\ ~Complete
  /\ seen' = Append(seen, store[ids[Len(seen) + 1]].status)
  /\ UNCHANGED ids

ScanStep == (BeginScan \/ GetNext) /\ UNCHANGED vars

\* _metrics_from_jobs: a Counter of the statuses.
Count(status) == Cardinality({i \in 1..Len(seen) : seen[i] = status})

\* Mutated form: running jobs are no longer waiting.
Backlog_QueuedOnly == Count("queued")

\* JobMetrics.backlog
Backlog == Count("queued") + Count("running")

\* sum(counter.values()), over the records that were found.
Total == Cardinality({i \in 1..Len(seen) : seen[i] # "absent"})

ScanInit == Init /\ ids = <<>> /\ seen = <<>>

ScanNext == (Next /\ UNCHANGED scan) \/ ScanStep

ScanSpec == ScanInit /\ [][ScanNext]_scanVars

-------------------------------------------------------------------------------
\* A backlog of 0, on which the controller scales in, means that every order
\* the scan listed and the API had accepted has been processed, however the
\* records moved between the LRANGE and the GETs.  (Unless Redis lost its
\* records meanwhile: what is not found is not counted.)
ZeroMeansServed ==
  ~Happened("redisLoss") /\ Complete /\ Backlog = 0 =>
    \A i \in 1..Len(ids) : apiPc[ids[i]] = "accepted" => executed[ids[i]] > 0

\* The total counts every order the scan listed, and none twice: an id is
\* listed after its record was written, records stay, and ids are pushed once.
TotalIsListed ==
  ~Happened("redisLoss") =>
    /\ Complete => Total = Len(ids)
    /\ \A i, k \in 1..Len(ids) : ids[i] = ids[k] => i = k
===============================================================================
