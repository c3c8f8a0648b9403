--------------------------- MODULE MCOrderPipeline ---------------------------
(***************************************************************************)
(* Small instances of OrderPipeline.  Each budget below allows the faults  *)
(* of one question; every kind that is not named is switched off.          *)
(***************************************************************************)
EXTENDS OrderPipeline, TLC

\* At most n faults, each of a kind in kinds and of every kind at most once,
\* and at most r retries.
Faulty(kinds, n, r) ==
  [k \in BudgetKinds |-> IF k = "total" THEN n
                         ELSE IF k = "retry" THEN r
                         ELSE IF k \in kinds THEN 1 ELSE 0]

\* Every pair of fault kinds but the broker's loss, with a retry; the broker's loss
\* with a failed send, with a worker's crash, and with a retry; three faults of
\* the crash kinds or of the eviction kinds; two retries and a SIGTERM.
Pairs     == Faulty(FaultKinds \ {"brokerLoss"}, 2, 1)
LostLogs  == {Faulty({"brokerLoss", kind}, 2, 0) : kind \in {"publish", "workerCrash"}}
LostRetry == Faulty({"brokerLoss"}, 1, 1)
Crashes   == Faulty({"publish", "apiCrash", "workerCrash", "sigterm"}, 3, 0)
Evictions == Faulty({"publish", "apiCrash", "evict", "sigterm"}, 3, 0)
Retries   == Faulty({"sigterm"}, 1, 2)
AllFaults == LostLogs \cup {Pairs, LostRetry, Crashes, Evictions, Retries}

\* Two retries, of one order or of each other, any of whose handlers may crash.
TwoRetries == {Faulty({"apiCrash"}, 1, 2)}

\* One fault of any kind that leaves the data of Redis and of the broker alone;
\* faults and retries apart.
OneFault == {Faulty(FaultKinds \ {"redisLoss", "brokerLoss"}, 1, 0), Faulty({}, 0, 1)}

\* For the two claims about retries: no fault at all, and one failed send.
OneRetry     == {Faulty({}, 0, 1)}
FailedSend   == {Faulty({"publish"}, 1, 1)}

Symmetry == Permutations(Orders) \cup Permutations(Workers) \cup Permutations(Partitions)
===============================================================================
