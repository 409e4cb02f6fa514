---------------------------- MODULE MC_Watchdog ----------------------------
(* The FG23 with two tasks on a timer that wraps twice, and the RT595 on a  *)
(* timer that does not wrap within the bound (FirstLap) or does (NextLap).  *)
EXTENDS Watchdog

FirstLap == [board \in BOOLEAN |-> IF board THEN 2 * Wrap + 1 ELSE Wrap - 1]
NextLap  == [board \in BOOLEAN |-> 40]
=============================================================================
