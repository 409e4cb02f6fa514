---- MODULE MC_BootChain ----
(* BootChain for TLC. *)
EXTENDS BootChain
====
