---- MODULE MC_BenchProbe ----
(* BenchProbe for TLC: two packets where the scripts send 25 to 1000.  The  *)
(* boards are interchangeable.                                              *)
EXTENDS BenchProbe

CONSTANTS A, B


BoardSymmetry == Permutations({A, B})
====
