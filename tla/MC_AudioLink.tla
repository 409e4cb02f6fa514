---- MODULE MC_AudioLink ----
(* AudioLink for TLC. *)
EXTENDS AudioLink
====
