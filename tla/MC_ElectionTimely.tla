---- MODULE MC_ElectionTimely ----
(* TimelyElection for TLC.  One time unit is 50 ms: the heartbeat interval   *)
(* of 100 ms is 2 units, the timeout of 300 ms is 6, the election delay 1.   *)
EXTENDS TimelyElection
====
