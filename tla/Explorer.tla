-------------------------------- MODULE Explorer --------------------------------
(***************************************************************************)
(* The dependency-graph element on its page: what the visitor sees of the  *)
(* graph (GraphView) and the panels the server renders of it               *)
(* (GraphFragments), which only have to be told how much there is to show. *)
(***************************************************************************)
EXTENDS GraphFragments, GraphView

Digraphs == INSTANCE Graphs

vars == <<fragmentVars, viewVars>>

Init == FragmentsInit /\ ViewInit

\* Bound: a behaviour follows the panels or the view; the panels on a page that
\* has no graph, with whatever they are told to show.
Panels ==
  /\ view.loading = Null /\ \A c \in Loadable : workspace.graph[c] = BlankGraph
  /\ FragmentsNext
  /\ UNCHANGED viewVars

View ==
  /\ events = 0
  /\ ViewNext
  /\ UNCHANGED fragmentVars

Next == Panels \/ View

Spec == Init /\ [][Next]_vars

-----------------------------------------------------------------------------
\* The graph a query is about, with nothing but what the filters leave.
Filtered(v) == [node |-> v.graph.nodes, edge |-> Pairs(FilteredEdges(v))]

\* What a package leads to, itself included: what each set has that has the package
\* and whatever its members depend on.
Reachable(G, n) ==
  {m \in G.node : \A S \in SUBSET G.node :
     n \in S /\ (\A x \in S : Digraphs!Successors(G, x) \subseteq S) => m \in S}

\* Its paths without a package twice.
SimplePaths(G) ==
  {p \in UNION {[1 .. k -> G.node] : k \in 1 .. Cardinality(G.node)} :
     /\ \A i, j \in DOMAIN p : p[i] = p[j] => i = j
     /\ \A i \in 2 .. Len(p) : <<p[i - 1], p[i]>> \in G.edge}

\* p is the path that is highlighted.
IsHighlighted(v, p) ==
  /\ v.focus = {p[i] : i \in DOMAIN p}
  /\ v.pairs = {<<p[i], p[i + 1]>> : i \in 1 .. Len(p) - 1}

IsLongest(p, paths)  == \A q \in paths : Len(q) <= Len(p)
IsShortest(p, paths) == \A q \in paths : Len(q) >= Len(p)

\* The highlight is the answer to the active query about its package.
Answers(v) ==
  LET G == Filtered(v)
      reached == [n \in G.node |-> Reachable(G, n)]
      from(n) == {p \in SimplePaths(G) : p[1] = n}
      to(n) == {p \in SimplePaths(G) : p[Len(p)] = n}
      cyclic(n) == \E m \in Digraphs!Successors(G, n) : n \in reached[m]
      edges == FilteredEdges(v)
      rank(n) == Degree(n, edges)
  IN CASE v.query = "direct" ->
            /\ v.focus = {v.anchor} \cup Digraphs!Successors(G, v.anchor)
            /\ v.pairs = {v.anchor} \X Digraphs!Successors(G, v.anchor)
       [] v.query = "transitive" -> v.focus = reached[v.anchor]
       [] v.query = "dependents" -> v.focus = {n \in G.node : v.anchor \in reached[n]}
       [] v.query = "cycles"     -> v.focus = {n \in G.node : cyclic(n)}
       [] v.query = "longest"    ->
            \/ \E n \in G.node : cyclic(n) /\ (v.anchor \in G.node => n \in reached[v.anchor])
            \/ \E p \in from(v.anchor) : IsHighlighted(v, p) /\ IsLongest(p, from(v.anchor))
       [] v.query = "shortest"   ->
            \E n \in G.node :
              \/ v.anchor \notin reached[n] /\ IsHighlighted(v, << >>)
              \/ \E p \in from(n) \cap to(v.anchor) :
                   IsHighlighted(v, p) /\ IsShortest(p, from(n) \cap to(v.anchor))
       [] v.query = "internal"   -> v.focus = RootsOf(v)
       [] v.query = "external"   ->
            v.focus \cup RootsOf(v) = v.graph.nodes /\ v.focus \cap RootsOf(v) = {}
       [] v.query = "centrality" ->
            /\ \A n \in v.focus : rank(n) > 0
            /\ Cardinality(v.focus) <= CentralCount(G.node)
            /\ \A n \in v.focus, m \in G.node \ v.focus : rank(n) >= rank(m)
            /\ Cardinality(v.focus) # CentralCount(G.node)
                 => \A m \in G.node \ v.focus : rank(m) = 0
       [] v.query = "flagged"    -> v.focus = v.graph.flagged

\* What is highlighted answers the active query, about the package it was asked
\* of, along the edges the filters leave now: whatever is selected, filtered,
\* reset, loaded and restored in between.  A longest chain that a cycle leaves
\* undefined keeps what was highlighted, and so does a query that could not be
\* asked again; a shortest path stays the one from the start that was pinned then.
HighlightAnswersQuery == view.query # "" /\ ~view.unasked => Answers(view)

\* The highlight is what the active query would say now.
Current(v) ==
  IF v.query = "" THEN v.focus = Null /\ v.pairs = Null
  ELSE ~v.unasked /\ Highlight(v.focus, v.pairs) = Result(v, v.query, Subject(v, TRUE))

\* The package the active query is about.
About(v) == IF v.query \in Independent \cup {""} THEN Null ELSE Subject(v, TRUE)

SeenOf(v) == [selected |-> v.selected, pin |-> v.pin, kinds |-> v.kinds,
              optional |-> v.optional, query |-> v.query, about |-> About(v),
              focus |-> v.focus, pairs |-> v.pairs]

\* "Copied a reproducible dependency graph link" (copyShareLink): opened anew, a
\* link shows what it was copied from, to the package that was selected and the
\* edges that were highlighted, provided that the graph chosen is the one shown and
\* what is highlighted is what the active query would say now.
LinkReproducesView ==
  LET opened == Connected(workspace, CurrentLink(view))
  IN  /\ view.loading = Null /\ view.shown = view.choice
      /\ view.selected # Null
      /\ Current(view)
      => SeenOf(Loaded(opened)) = SeenOf(view)
================================================================================
