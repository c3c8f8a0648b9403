-------------------------- MODULE MCHealingController --------------------------
(***************************************************************************)
(* Small instances of HealingController.  The replica limits leave room    *)
(* for two steps and for a jump by ExtraBatches; the metrics take values   *)
(* at, below and above each threshold.                                     *)
(***************************************************************************)
EXTENDS HealingController

MCBacklog == {0, 1, 3}
MCFailed  == {1, 2, 3}

\* For liveness: one value on each side of what the properties tell apart.  With
\* a threshold of 2, a backlog of 3 asks for one replica more in each pass, and one
\* of 4 for the maximum at once.
LiveBacklog == {0, 3, 4}
LiveFailed  == {0, 2}

\* Backlog just above that threshold only.
SlightBacklog == {0, 3}
===============================================================================
