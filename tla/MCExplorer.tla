------------------------------- MODULE MCExplorer -------------------------------
(* Instances of Explorer for TLC. *)
EXTENDS Explorer, FiniteSetsExt, TLC

CONSTANTS a, b, c, d, run, build, first, second

Edge(m, n, k) == [from |-> m, to |-> n, kind |-> k, optional |-> FALSE]
MayBe(m, n, k) == [Edge(m, n, k) EXCEPT !.optional = TRUE]
Graph(nodes, edges, roots) ==
  [nodes |-> nodes, edges |-> edges, roots |-> roots, flagged |-> {n \in nodes : n = b}]

\* Every graph of three packages, with packages that depend on themselves, and
\* every one of four with up to four edges.
Three == {a, b, c}
Four  == {a, b, c, d}
Few(pairs, n) == UNION {kSubset(k, pairs) : k \in 0 .. n}
Drawn(nodes, pairs) == Graph(nodes, {Edge(p[1], p[2], run) : p \in pairs}, <<a, b>>)
Plain == {Drawn(Three, pairs) : pairs \in SUBSET (Three \X Three)}
         \cup {Drawn(Four, pairs) : pairs \in Few({p \in Four \X Four : p[1] # p[2]}, 4)}

Alone(g) == [mode |-> "scope", graph |-> first :> g @@ second :> BlankGraph]

\* Two versions of a, two channels of a scope that share packages, and a scope with
\* a part that has a longest chain and one that has none.
Diamond == Graph(Four, {Edge(a, b, run), Edge(a, c, build), Edge(b, d, run),
                        MayBe(c, d, run), Edge(a, d, build)}, <<a>>)
Looped  == Graph(Three, {Edge(a, b, run), Edge(b, c, run), Edge(c, b, build)}, <<a>>)
Apart   == Graph(Three, {Edge(a, b, run), Edge(c, c, run)}, <<a>>)
Pair    == Graph({b, c}, {Edge(b, c, run), MayBe(c, b, build)}, <<b, c>>)

MCBrowsed == {[mode |-> "package", graph |-> first :> Diamond @@ second :> Looped],
              [mode |-> "scope", graph |-> first :> Diamond @@ second :> Pair],
              Alone(Apart)}
MCBlank == {Alone(BlankGraph)}
MCWorkspaces == MCBrowsed \cup MCBlank \cup {Alone(g) : g \in Plain}

Link(query, anchor, pin) ==
  [selected |-> Null, pin |-> pin, kinds |-> Kinds, optional |-> TRUE,
   query |-> query, anchor |-> anchor, choice |-> first]
Structural ==
  {Link(q, a, Null) : q \in {"direct", "transitive", "dependents", "longest", "cycles", "centrality"}}
  \cup {Link("shortest", a, b)}
Kept ==
  {Link("", Null, Null), Link("shortest", d, b), Link("dependents", c, Null),
   [Link("longest", a, a) EXCEPT !.kinds = {run}, !.choice = second, !.selected = b],
   [Link("external", Null, c) EXCEPT !.optional = FALSE, !.choice = second]}
\* Of a package the graph does not have, with another selected.
Stale == {Link("", Null, Null), [Link("longest", d, Null) EXCEPT !.selected = c]}
MCLinks(w) == IF w = Alone(Apart) THEN Stale ELSE IF w \in MCBrowsed THEN Kept
              ELSE IF w \in MCBlank THEN {Link("", Null, Null)} ELSE Structural
=================================================================================
