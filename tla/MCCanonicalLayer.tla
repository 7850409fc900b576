-------------------------- MODULE MCCanonicalLayer --------------------------
(* CanonicalLayer on small instances.                                      *)
EXTENDS CanonicalLayer, TLC

MCWindows == {<<0, 2>>, <<0, Forever>>, <<1, 2>>, <<2, 3>>}

\* The graph and the store do not meet: each is explored with the other empty.
OneHalf == graph.edges = <<>> \/ (facts = <<>> /\ decision = Undecided /\ clock = 1)

Symmetry == Permutations(Entities)
=============================================================================
