--------------------------- MODULE MCGraphWorkspace ---------------------------
(* Instances of GraphWorkspace for TLC: package p with versions d1 and d2 and *)
(* a malformed d3, its dependencies q and r, and a scope of them.  In the     *)
(* package instances r is a package of another registry with q's name, so     *)
(* expanding it reads q's document.                                           *)
EXTENDS GraphWorkspace, TLC

CONSTANTS p, q, r, d1, d2, d3, dq, dr, stable, empty, all

MCRoot    == d1 :> p @@ d2 :> p @@ d3 :> p @@ dq :> q @@ dr :> r
MCDeps    == d1 :> {q} @@ d2 :> {q, r} @@ d3 :> {} @@ dq :> {r} @@ dr :> {}
MCLatest  == p :> d2 @@ q :> dq @@ r :> dq
NoSources == [c \in {} |-> << >>]
MCSources == all :> <<d2, dq, dr>> @@ stable :> <<d3, dr>> @@ empty :> << >>

Symmetry == Permutations(Loads)
=============================================================================
