---------------------------- MODULE MCAuditChain -----------------------------
(* Instances of AuditChain for TLC: symmetric writers. *)
EXTENDS AuditChain, TLC

Symmetry == Permutations(Writers)
=============================================================================
