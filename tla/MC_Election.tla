---- MODULE MC_Election ----
(* CoordinatorElection for TLC: two nodes, the second of which starts as      *)
(* coordinator, and an application that may exclude the first.               *)
EXTENDS CoordinatorElection
====
