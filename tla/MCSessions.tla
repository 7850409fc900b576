----------------------------- MODULE MCSessions -----------------------------
(* Instances of Sessions for TLC: symmetric model values. *)
EXTENDS Sessions, TLC

Symmetry == Permutations(Sids) \cup Permutations(Reqs) \cup Permutations(Scims)
=============================================================================
