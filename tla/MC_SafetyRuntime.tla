---- MODULE MC_SafetyRuntime ----
(* SafetyRuntime for TLC. *)
EXTENDS SafetyRuntime
====
