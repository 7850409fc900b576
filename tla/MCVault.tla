------------------------------ MODULE MCVault ------------------------------
(* Vault on small instances. *)
EXTENDS Vault, TLC

Symmetry == Permutations(Reqs) \cup Permutations(Deals) \cup Permutations(Keys) \cup Permutations(Servers)
=============================================================================
