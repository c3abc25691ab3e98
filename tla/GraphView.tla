------------------------------- MODULE GraphView -------------------------------
(***************************************************************************)
(* What the visitor sees of a loaded graph and keeps of it                 *)
(* (dependency-graph.js): filters, selection, the pinned start of a path,  *)
(* the query that is highlighted, and the address that carries them, which *)
(* opens, saves and restores a view.                                       *)
(*                                                                         *)
(* A link is the view in the address or in the browser's storage; both are *)
(* normalised the same way, so a link holds values the element knows, or   *)
(* packages the graph need not have.  Search and layout travel like the    *)
(* filters and change neither the selection nor the highlight.  A load is  *)
(* its start and its end (GraphWorkspace has the rest).                    *)
(***************************************************************************)
EXTENDS GraphQueries

CONSTANTS
  Kinds,       \* KIND_LABELS
  Loadable,     \* the versions of a package page, the channels of a scope page
  Workspaces,  \* what they may load: of each choice its graph
  Links(_),    \* what the address of a workspace's page may say
  Browsed,     \* bound: the workspaces whose visitor does more than open a link
  MaxSteps     \* bound: what such a visitor does

\* Queries about the graph as a whole; "flagged" is any that only looks at what
\* is known of each package (pre-release, yanked, licence, age).
Independent == {"cycles", "internal", "external", "centrality", "flagged"}
Queries     == {"direct", "transitive", "dependents", "longest", "shortest"} \cup Independent

BlankGraph == [nodes |-> {}, edges |-> {}, roots |-> << >>, flagged |-> {}]

ASSUME ViewAssumption ==
  /\ MaxSteps \in Nat /\ Browsed \subseteq Workspaces
  /\ \A w \in Workspaces, c \in Loadable :
       /\ IsFiniteSet(w.graph[c].nodes) /\ IsFiniteSet(w.graph[c].edges)
       /\ \A e \in w.graph[c].edges : {e.from, e.to} \subseteq w.graph[c].nodes
       /\ w.graph[c].roots \in Seq(w.graph[c].nodes)
       /\ w.mode = "package" => w.graph[c].roots # << >>
       /\ Null \notin w.graph[c].nodes
  /\ \A w \in Workspaces : \A link \in Links(w) :
       link.query \in Queries \cup {""} /\ link.choice \in Loadable

VARIABLES
  workspace,  \* what the page may load
  view,       \* the element
  steps       \* how often the visitor did something

viewVars == <<workspace, view, steps>>

NoPending == [selected |-> Null, pin |-> Null, anchor |-> Null]

\* The constructor.
NewView(w) ==
  [mode |-> w.mode, graph |-> BlankGraph, shown |-> Null, loading |-> Null, choice |-> Null,
   kinds |-> Kinds, optional |-> TRUE, selected |-> Null, pin |-> Null,
   query |-> "", anchor |-> Null, focus |-> Null, pairs |-> Null, pending |-> NoPending,
   unasked |-> FALSE]     \* history: the active query was not asked, or could not be

-----------------------------------------------------------------------------
(* Queries. *)

\* filteredEdges(false)
FilteredEdges(v) ==
  {e \in v.graph.edges : e.kind \in v.kinds /\ (e.optional => v.optional)}

Pairs(edges) == {<<e.from, e.to>> : e \in edges}

RootsOf(v) == {v.graph.roots[i] : i \in DOMAIN v.graph.roots}

Highlight(nodes, pairs) == [found |-> TRUE, nodes |-> nodes, pairs |-> pairs]
NoHighlight == [found |-> FALSE, nodes |-> {}, pairs |-> Null]

\* What a query highlights, or that it cannot be asked.
Result(v, query, selected) ==
  LET edges == FilteredEdges(v)
      outgoing == Outgoing(v.graph.nodes, edges)
      incoming == Incoming(v.graph.nodes, edges)
      longest == LongestChain(selected, outgoing)
      path == ShortestPath(v.pin, selected, outgoing)
      Set(p) == {p[i] : i \in DOMAIN p}
  IN CASE query = "direct"     -> Highlight({selected} \cup outgoing[selected],
                                        Pairs({e \in edges : e.from = selected}))
       [] query = "transitive" -> Highlight(Walk(selected, outgoing), Null)
       [] query = "dependents" -> Highlight(Walk(selected, incoming), Null)
       [] query = "longest"    -> IF longest.cyclic THEN NoHighlight
                                  ELSE Highlight(Set(longest.path), PathEdgePairs(longest.path))
       [] query = "shortest"   -> IF v.pin = Null THEN NoHighlight
                                  ELSE Highlight(Set(path), PathEdgePairs(path))
       [] query = "cycles"     -> Highlight(CycleNodes(outgoing, incoming), Null)
       [] query = "internal"   -> Highlight(RootsOf(v), Null)
       [] query = "external"   -> Highlight(v.graph.nodes \ RootsOf(v), Null)
       [] query = "centrality" -> Highlight(Central(v.graph.nodes, edges), Null)
       [] query = "flagged"    -> Highlight(v.graph.flagged, Null)

\* The package a query is about.
Subject(v, restoring) ==
  IF restoring /\ v.anchor \in v.graph.nodes THEN v.anchor
  ELSE IF v.selected # Null \/ v.graph.roots = << >> THEN v.selected
  ELSE v.graph.roots[1]

\* runQuery
RanQuery(v, query, restoring) ==
  LET selected == Subject(v, restoring)
      result == Result(v, query, selected)
  IN  IF selected = Null /\ query \notin Independent THEN v
      ELSE IF query = "pin-path" THEN [v EXCEPT !.pin = selected]
      ELSE IF ~result.found THEN v
      ELSE [v EXCEPT !.focus = result.nodes, !.pairs = result.pairs, !.query = query,
                     !.unasked = FALSE,
                     !.anchor = IF query \in Independent THEN Null ELSE selected]

Unfocused(v) == [v EXCEPT !.focus = Null, !.pairs = Null, !.query = "", !.anchor = Null,
                          !.unasked = FALSE]

\* There is a package to ask about, and one to come from.
Askable(v) ==
  /\ Subject(v, TRUE) # Null \/ v.query \in Independent
  /\ v.query = "shortest" => v.pin # Null

\* A filter was changed, or the graph.
RunAgain(v) ==
  IF v.query = "" THEN v ELSE RanQuery([v EXCEPT !.unasked = ~Askable(v)], v.query, TRUE)

-----------------------------------------------------------------------------
(* Links and loads. *)

\* Mutant: a link names the package selected as the one the query is about.
LinkOfSelected(v) ==
  [selected |-> v.selected, pin |-> v.pin, kinds |-> v.kinds, optional |-> v.optional,
   query |-> v.query, anchor |-> v.selected, choice |-> v.choice]

\* currentViewState
CurrentLink(v) ==
  [selected |-> v.selected, pin |-> v.pin, kinds |-> v.kinds, optional |-> v.optional,
   query |-> v.query, anchor |-> v.anchor, choice |-> v.choice]

\* applyParsedViewState
Applied(v, link) ==
  [v EXCEPT !.kinds = link.kinds, !.optional = link.optional, !.choice = link.choice,
            !.query = link.query, !.anchor = link.anchor, !.unasked = TRUE,
            !.pending = [selected |-> link.selected, pin |-> link.pin, anchor |-> link.anchor]]

\* clearGraph: the query and the package it is about stay.
Cleared(v) ==
  [v EXCEPT !.graph = BlankGraph, !.shown = Null, !.selected = Null, !.pin = Null,
            !.focus = Null, !.pairs = Null, !.unasked = TRUE]

\* restoreLoadedViewState
RestoredLoaded(v) ==
  LET p == v.pending
      nodes == v.graph.nodes
      restored ==
        [v EXCEPT !.selected = IF p.selected \in nodes THEN p.selected
                               ELSE IF @ = Null /\ v.graph.roots # << >> THEN v.graph.roots[1]
                               ELSE @,
                  !.pin = IF p.pin \in nodes THEN p.pin ELSE Null,
                  !.anchor = IF p.anchor \in nodes THEN p.anchor ELSE @,
                  !.pending = NoPending]
  IN  RunAgain(restored)

\* loadPackage keeps the graph until its successor is there; loadScope clears it
\* at once, and that is all if the channel has no packages.
Loading(v, choice) ==
  IF v.mode = "package" THEN [v EXCEPT !.loading = choice]
  ELSE [Cleared(v) EXCEPT
          !.loading = IF workspace.graph[choice].nodes = {} THEN Null ELSE choice,
          !.shown = IF workspace.graph[choice].nodes = {} THEN choice ELSE Null]

\* The document, or the last batch, was added; afterGraphLoaded.
Loaded(v) ==
  LET drawn == IF v.mode = "package" THEN Cleared(v) ELSE v
  IN  RestoredLoaded([drawn EXCEPT !.graph = workspace.graph[v.loading],
                                   !.shown = v.loading, !.loading = Null])

\* restoreViewFromLocation
RestoredFrom(v, link) ==
  LET applied == Applied(v, link)
  IN  IF applied.choice # v.choice THEN Loading(applied, applied.choice)
      ELSE RestoredLoaded(applied)

\* connectedCallback and loadInitial
Connected(w, link) == Loading(Applied(NewView(w), link), link.choice)

-----------------------------------------------------------------------------
(* What the visitor and the page do. *)

Does(v) ==
  /\ workspace \in Browsed
  /\ steps < MaxSteps /\ steps' = steps + 1
  /\ view' = v
  /\ UNCHANGED workspace

\* A click on a package, or (Null) on the canvas.
Select(n) == n \in view.graph.nodes \cup {Null} /\ Does([view EXCEPT !.selected = n])

\* A package page offers no queries about a scope.
ClickQuery(query) ==
  /\ view.mode = "package" => query \notin {"internal", "external"}
  /\ Does(RanQuery(view, query, FALSE))
ClearQuery == Does(Unfocused(view))

ToggleKind(k) ==
  Does(RunAgain([view EXCEPT !.kinds = IF k \in @ THEN @ \ {k} ELSE @ \cup {k}]))
ToggleOptional == Does(RunAgain([view EXCEPT !.optional = ~@]))

ResetView == Does([Unfocused(view) EXCEPT !.pin = Null, !.kinds = Kinds, !.optional = TRUE])

\* The version or channel control.
Choose(c) ==
  /\ c \in Loadable \ {view.choice}
  /\ Does(Loading([view EXCEPT !.choice = c], c))

\* Restore, or back to an entry of the history: any view of the page that was
\* once in the address.
RestoreView(link) == Does(RestoredFrom(view, link))

\* The load under way ends.
GraphArrives ==
  /\ view.loading # Null
  /\ view' = Loaded(view)
  /\ UNCHANGED <<workspace, steps>>

\* A package's document does not come, and the graph of before stays; or it comes
\* and is refused, when that graph has been cleared.  Of a scope, all its packages
\* are refused.
LoadRefused ==
  /\ view.loading # Null
  /\ LET over == [view EXCEPT !.loading = Null]
     IN  IF view.mode = "package" THEN view' \in {over, Cleared(over)}
         ELSE view' = RestoredLoaded(over)
  /\ UNCHANGED <<workspace, steps>>

ViewInit ==
  /\ workspace \in Workspaces
  /\ \E link \in Links(workspace) : view = Connected(workspace, link)
  /\ steps = 0

ViewNext ==
  \/ \E n \in view.graph.nodes \cup {Null} : Select(n)
  \/ \E query \in Queries \cup {"pin-path"} : ClickQuery(query)
  \/ ClearQuery \/ ToggleOptional \/ ResetView
  \/ \E k \in Kinds : ToggleKind(k)
  \/ \E c \in Loadable : Choose(c)
  \/ \E link \in Links(workspace) : RestoreView(link)
  \/ GraphArrives \/ LoadRefused
================================================================================
