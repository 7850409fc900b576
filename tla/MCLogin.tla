------------------------------ MODULE MCLogin -------------------------------
(* Instances of Login for TLC: symmetric model values. *)
EXTENDS Login, TLC

Symmetry == Permutations(Chals) \cup Permutations(Procs)
=============================================================================
