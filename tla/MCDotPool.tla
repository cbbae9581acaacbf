----------------------------- MODULE MCDotPool -----------------------------
(* DotPool for TLC: symmetric calls. *)
EXTENDS DotPool

Symmetry == Permutations(Query)
=============================================================================
