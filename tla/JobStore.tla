------------------------------- MODULE JobStore -------------------------------
(***************************************************************************)
(* The order record kept in Redis under "jobs:<id>" and the list           *)
(* "jobs:recent", with the functions the Java API (OrderRepository) and    *)
(* the Python services (RedisJobRepository) apply to them.  Every function *)
(* here is pure: what is one Redis command, and what is a GET followed by  *)
(* a SET, is decided by the actions of OrderPipeline that call them.       *)
(*                                                                         *)
(* A record keeps the fields that the code branches on or overwrites: the  *)
(* status, whether a result and an error are present, and the recovery     *)
(* link.  Payload, timestamps, trace id and the attempts counter are       *)
(* written next to them by the same commands and are left out.             *)
(***************************************************************************)
EXTENDS Integers, Sequences

CONSTANTS Orders,    \* job ids; each is drawn once by UUID.randomUUID()
          NoOrder    \* the null of recovery_job_id and retry_of

ASSUME NoOrderAssumption == NoOrder \notin Orders

\* "absent" stands for a missing key.  JobStatus also has "cancelled", which
\* no code writes.
Statuses == {"absent", "queued", "running", "completed", "failed", "recovered"}
RecoveryStatuses == {"none", "resubmitted", "completed"}

Records == [status         : Statuses,
            result         : BOOLEAN,
            error          : BOOLEAN,
            recoveryJob    : Orders \cup {NoOrder},
            recoveryStatus : RecoveryStatuses]

Absent == [status |-> "absent", result |-> FALSE, error |-> FALSE,
           recoveryJob |-> NoOrder, recoveryStatus |-> "none"]

Exists(rec) == rec.status # "absent"

\* A fresh delivery job, first order or retry alike.
NewRecord == [Absent EXCEPT !.status = "queued"]

\* Mutated form: an error is only ever set, never reset.
Updated_KeepsError(rec, status, result, error) ==
  [rec EXCEPT !.status = status, !.result = result, !.error = @ \/ error]

\* RedisJobRepository.update: status, result and error are all overwritten.
Updated(rec, status, result, error) ==
  [rec EXCEPT !.status = status, !.result = result, !.error = error]

\* Mutated form: the status is forgotten.
MarkedRecovered_LinkOnly(rec, recoveryJob) ==
  [rec EXCEPT !.recoveryJob = recoveryJob, !.recoveryStatus = "completed"]

\* RedisJobRepository.mark_recovered: result and error stay.
MarkedRecovered(rec, recoveryJob) ==
  [rec EXCEPT !.status = "recovered",
              !.recoveryJob = recoveryJob,
              !.recoveryStatus = "completed"]

\* Mutated form: a status that JobStatus does not know.
MarkedFailed_Misspelt(rec) == [rec EXCEPT !.status = "error", !.error = TRUE]

\* OrderRepository.markFailed: a result that is already there stays.
MarkedFailed(rec) == [rec EXCEPT !.status = "failed", !.error = TRUE]

\* OrderRepository.linkRecoveryJob: the status that was read stays.
Linked(rec, recoveryJob) ==
  [rec EXCEPT !.recoveryJob = recoveryJob, !.recoveryStatus = "resubmitted"]

\* LPUSH and LTRIM 0 cap-1 on "jobs:recent".
Pushed(list, o) == <<o>> \o list

\* Mutated form: LTRIM 0 cap.
Trimmed_OneMore(list, cap) ==
  IF Len(list) > cap + 1 THEN SubSeq(list, 1, cap + 1) ELSE list

Trimmed(list, cap) == IF Len(list) > cap THEN SubSeq(list, 1, cap) ELSE list
===============================================================================
