------------------------------ MODULE MCDeploy ------------------------------
(***************************************************************************)
(* Two builds, so that the second one finds what a failed or a successful  *)
(* first one left, with two faults or with two restarts on the way.        *)
(***************************************************************************)
EXTENDS Deploy

Allowed(faults, restarts) ==
  [kind \in {"fault", "restart"} |-> IF kind = "fault" THEN faults ELSE restarts]

FaultsOrRestarts == {Allowed(2, 0), Allowed(0, 2)}
===============================================================================
