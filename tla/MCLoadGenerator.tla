--------------------------- MODULE MCLoadGenerator ---------------------------
(***************************************************************************)
(* A small load that meets at most one fault: on the client's side, of a   *)
(* publish, or of the worker.                                              *)
(***************************************************************************)
EXTENDS LoadGenerator

\* One fault of a kind that keeps the records and delivers every saved order.
LateOrTwice ==
  {[k \in BudgetKinds |-> IF k = "total" THEN 1
                          ELSE IF k \in {"client", "publish", "workerCrash"} THEN 1
                          ELSE 0]}
===============================================================================
