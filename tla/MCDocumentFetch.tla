--------------------------- MODULE MCDocumentFetch ---------------------------
(* Instances of DocumentFetch for TLC. *)
EXTENDS DocumentFetch, TLC

Symmetry == Permutations(Reads) \cup Permutations(Urls)
=============================================================================
