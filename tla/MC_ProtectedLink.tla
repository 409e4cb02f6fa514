---- MODULE MC_ProtectedLink ----
(* ProtectedLink for TLC. *)
EXTENDS ProtectedLink, TLC

Symmetric == Permutations(Session)
====
