----------------------------- MODULE MCGraphRelay -----------------------------
(* Instances of GraphRelay for TLC. *)
EXTENDS GraphRelay, TLC

Symmetry == Permutations(Requests)
=============================================================================
