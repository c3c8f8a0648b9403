------------------------------ MODULE MCDashboard ------------------------------
(***************************************************************************)
(* Small instances of Dashboard: lists shorter than the number of orders,  *)
(* so that the selected order can fall off the list.                       *)
(***************************************************************************)
EXTENDS Dashboard, TLC

CONSTANTS t1, l1, l2

Click(s, r, b) ==
  [h \in Handlers |-> IF h = "submit" THEN s ELSE IF h = "retry" THEN r ELSE b]

\* Submissions and a retry; a burst and the retry of one of its orders.
Pairs == {Click(2, 1, 0), Click(0, 1, 1)}

\* All three.
All   == {Click(1, 1, 1)}

OnePoll  == {t1}
TwoLoops == {l1, l2}
===============================================================================
