---- MODULE MC_ConfigStore ----
(* ConfigStore for TLC, with a generation of three bits. *)
EXTENDS ConfigStore
====
