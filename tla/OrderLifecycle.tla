---------------------------- MODULE OrderLifecycle ----------------------------
(***************************************************************************)
(* The status of an order as a customer sees it, without Redis, Kafka,     *)
(* processes or faults: it is queued, runs and ends completed or failed;   *)
(* only a failed order becomes recovered.  The last transition is the lost *)
(* update of a retry (linkRecoveryJob against mark_recovered).             *)
(***************************************************************************)
CONSTANT Orders

VARIABLE status

Init == status = [o \in Orders |-> "absent"]

Becomes(o, from, to) ==
  /\ status[o] = from
  /\ status' = [status EXCEPT ![o] = to]

Place(o)    == Becomes(o, "absent", "queued")
Start(o)    == Becomes(o, "queued", "running")
Complete(o) == Becomes(o, "running", "completed")
Fail(o)     == Becomes(o, "running", "failed")
Recover(o)  == Becomes(o, "failed", "recovered")
Relapse(o)  == Becomes(o, "recovered", "failed")

Next ==
  \E o \in Orders :
    Place(o) \/ Start(o) \/ Complete(o) \/ Fail(o) \/ Recover(o) \/ Relapse(o)

Spec == Init /\ [][Next]_status
===============================================================================
