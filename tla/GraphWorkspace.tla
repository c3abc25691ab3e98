---------------------------- MODULE GraphWorkspace ----------------------------
(***************************************************************************)
(* The loads of the dependency-graph component (assets/dependency-graph.js)*)
(* and the graph they build: loadPackage, loadScope, expandLatest,         *)
(* addDocument with its capacity check, and the load sequence that tells a *)
(* load it has been superseded.                                            *)
(*                                                                         *)
(* What fetchDocument does is the subject of DocumentFetch; here a fetch   *)
(* yields the document asked for or an error, in any order.  A handler     *)
(* runs to its next await without interruption.  The loop of loadScope     *)
(* that adds a batch is such a run, taken one document a step: while a     *)
(* load is "adding" nothing else moves.                                    *)
(***************************************************************************)
EXTENDS Integers, Sequences, FiniteSets

CONSTANTS
  Loads,         \* calls of loadPackage, loadScope and expandLatest
  Coordinates,   \* registry, organisation and name of a package
  Documents,     \* declared graph documents, one for each exact version
  Root, Deps,    \* the package of a document and those it depends on
  Malformed,     \* the documents assertDocumentShape refuses
  Latest,        \* what a node's latest read yields; the coordinate check leaves
                 \* the registry out, so its package need not be the node's
  Versions,      \* the documents the version control offers
  Channels,      \* the channels the scope control offers
  Sources,       \* the documents of a channel, cut at SCOPE_LIMIT
  BatchSize,     \* SCOPE_BATCH_SIZE
  MaxNodes,      \* MAX_GRAPH_NODES
  MaxEdges,      \* MAX_GRAPH_EDGES
  MaxSequence,   \* bound: loads and disconnects that advance loadSequence
  None

Kinds == {"none", "package", "scope", "expand"}
Ended == {"loaded", "failed", "dropped"}

ASSUME ConstantsAssumption ==
  /\ IsFiniteSet(Coordinates)
  /\ Root \in [Documents -> Coordinates]
  /\ Deps \in [Documents -> SUBSET Coordinates]
  /\ Malformed \subseteq Documents
  /\ Latest \in [Coordinates -> Documents]
  /\ Versions \subseteq Documents
  /\ Sources \in [Channels -> Seq(Documents)]
  /\ \A c \in Channels : \A i, j \in DOMAIN Sources[c] :
       Sources[c][i] = Sources[c][j] => i = j
  /\ BatchSize \in Nat \ {0}
  /\ MaxNodes \in Nat /\ MaxEdges \in Nat /\ MaxSequence \in Nat
  /\ None \notin Documents \cup Coordinates \cup Channels \cup Loads
  /\ None \notin Coordinates \X Nat

Graph == [nodes : SUBSET Coordinates, edges : SUBSET (Coordinates \X Coordinates),
          roots : SUBSET Coordinates, expanded : SUBSET Coordinates]
Load  == [kind : Kinds, seq : 0 .. MaxSequence, epoch : Nat,
          doc : Documents \cup {None}, node : Coordinates \cup {None},
          channel : Channels \cup {None}]

NoGraph == [nodes |-> {}, edges |-> {}, roots |-> {}, expanded |-> {}]
NoLoad  == [kind |-> "none", seq |-> 0, epoch |-> 0, doc |-> None,
            node |-> None, channel |-> None]

VARIABLES
  attached,        \* dataset.ready
  button,          \* the node object whose expand button the inspector shows,
                   \* as its coordinate and epoch
  loadSequence,    \* counts loads that replace the graph, and disconnects
  chosen,          \* dataset.version or channel: what the controls show
  graph,           \* nodes, edges, roots and the nodes marked expanded
  epoch,           \* how often clearGraph has run: a node object of an earlier
                   \* epoch is no longer in the graph
  sourceFailures,  \* sourceFailures
  status,          \* the state of the status line
  pc,              \* where each load is
  load,            \* its kind and what it captured when it was called
  at,              \* loadScope: the source to add next
  pending,         \* loadScope: the sources of the batch not settled yet
  fetched,         \* loadScope: the sources of the batch that were read
  added,           \* history: the documents in the graph, with their loads
  cleared          \* history: the load that cleared the graph last

scopeVars == <<at, pending, fetched>>
vars == <<attached, button, loadSequence, chosen, graph, epoch, sourceFailures,
          status, pc, load, scopeVars, added, cleared>>

-----------------------------------------------------------------------------
(* The graph. *)

EdgesOf(d) == {Root[d]} \X Deps[d]

\* Mutant: what the document brings is not counted.
FitsBefore(g, d) ==
  Cardinality(g.nodes) <= MaxNodes /\ Cardinality(g.edges) <= MaxEdges

\* assertDocumentCapacity: before anything is added, counting every package
\* of the document as if it were new.
Fits(g, d) ==
  /\ Cardinality(g.nodes) + 1 + Cardinality(Deps[d]) <= MaxNodes
  /\ Cardinality(g.edges) + Cardinality(Deps[d]) <= MaxEdges

\* addDocument checks everything before it changes anything.
Accepts(g, d) == Fits(g, d) /\ d \notin Malformed

\* Mutant: the dependencies get an edge and no node.
WithRootOnly(g, d, asRoot) ==
  [nodes    |-> g.nodes \cup {Root[d]},
   edges    |-> g.edges \cup EdgesOf(d),
   roots    |-> IF asRoot THEN g.roots \cup {Root[d]} ELSE g.roots,
   expanded |-> g.expanded \cup {Root[d]}]

\* The graph with a document in it; asRoot for the ones a load names itself.
With(g, d, asRoot) ==
  [nodes    |-> g.nodes \cup {Root[d]} \cup Deps[d],
   edges    |-> g.edges \cup EdgesOf(d),
   roots    |-> IF asRoot THEN g.roots \cup {Root[d]} ELSE g.roots,
   expanded |-> g.expanded \cup {Root[d]}]

\* Mutant: the root is entered before the capacity is checked.
AddDocumentRootFirst(g, d, asRoot) ==
  IF Accepts(g, d) THEN With(g, d, asRoot)
  ELSE [g EXCEPT !.nodes = @ \cup {Root[d]}]

\* addDocument: all of the document or nothing.
AddDocument(g, d, asRoot) ==
  IF Accepts(g, d) THEN With(g, d, asRoot) ELSE g

\* renderInspector, at the end of renderGraph: the button goes when the node it
\* belongs to has gone or is expanded.
Render(g, e) ==
  button' = IF /\ button # None
               /\ button[2] = e
               /\ button[1] \in g.nodes \ g.expanded
            THEN button ELSE None

-----------------------------------------------------------------------------
(* Steps the loads share. *)

\* No synchronous loop is under way.
Quiet == \A l \in Loads : pc[l] # "adding"

Go(l, place) == pc' = [pc EXCEPT ![l] = place]

\* Mutant: nobody looks at the sequence.
NeverSuperseded(l) == FALSE

\* The check after every await.
Superseded(l) == load[l].seq # loadSequence

Fetching(l, kind) ==
  /\ Quiet
  /\ pc[l] = "fetching" /\ load[l].kind = kind
  /\ UNCHANGED <<attached, loadSequence, load>>

\* A superseded load ends without a trace.
Drop(l) ==
  /\ Go(l, "dropped")
  /\ UNCHANGED <<button, chosen, graph, epoch, sourceFailures, status, scopeVars,
                 added, cleared>>

Fail(l) ==
  /\ Go(l, "failed")
  /\ status' = "error"

\* A new load that replaces the graph.
Supersede(l, kind, d, c) ==
  /\ Quiet
  /\ pc[l] = "idle"
  /\ loadSequence < MaxSequence
  /\ loadSequence' = loadSequence + 1
  /\ attached' = TRUE
  /\ load' = [load EXCEPT ![l] =
       [kind |-> kind, seq |-> loadSequence + 1, epoch |-> epoch, doc |-> d,
        node |-> None, channel |-> c]]

-----------------------------------------------------------------------------
(* loadPackage. *)

\* The version control, the browser's history or connectedCallback.
LoadPackage(l, d) ==
  /\ Supersede(l, "package", d, None)
  /\ chosen' = d
  /\ Go(l, "fetching")
  /\ status' = "loading"
  /\ UNCHANGED <<button, graph, epoch, sourceFailures, scopeVars, added, cleared>>

\* The graph on screen is cleared only now, and before the document is checked.
PackageArrives(l) ==
  /\ Fetching(l, "package")
  /\ \/ Superseded(l) /\ Drop(l)
     \/ /\ ~Superseded(l)
        /\ epoch' = epoch + 1
        /\ graph' = AddDocument(NoGraph, load[l].doc, TRUE)
        /\ cleared' = l
        /\ button' = None
        /\ \/ /\ Accepts(NoGraph, load[l].doc)
              /\ added' = {<<load[l].doc, l>>}
              /\ Go(l, "loaded")
              /\ status' = "ready"
              /\ chosen' = load[l].doc
           \/ /\ ~Accepts(NoGraph, load[l].doc)
              /\ added' = {}
              /\ Fail(l)
              /\ UNCHANGED chosen
        /\ UNCHANGED <<sourceFailures, scopeVars>>

-----------------------------------------------------------------------------
(* expandLatest. *)

\* A click on a node of the graph; its inspector offers to expand it.
Inspect(n) ==
  /\ Quiet
  /\ attached
  /\ n \in graph.nodes \ graph.expanded
  /\ button' = <<n, epoch>>
  /\ UNCHANGED <<attached, loadSequence, chosen, graph, epoch, sourceFailures,
                 status, pc, load, scopeVars, added, cleared>>

\* A click on the button, which stays until the next rendering: it can be
\* clicked again, and after its graph was cleared.  The sequence is not advanced.
ExpandLatest(l, n) ==
  /\ Quiet
  /\ attached
  /\ pc[l] = "idle"
  /\ button # None
  /\ n = button[1]
  /\ load' = [load EXCEPT ![l] =
       [kind |-> "expand", seq |-> loadSequence, epoch |-> button[2],
        doc |-> Latest[n], node |-> n, channel |-> None]]
  /\ graph' = IF button[2] = epoch THEN [graph EXCEPT !.expanded = @ \cup {n}]
              ELSE graph
  /\ Go(l, "fetching")
  /\ status' = "loading"
  /\ UNCHANGED <<attached, button, loadSequence, chosen, epoch, sourceFailures,
                 scopeVars, added, cleared>>

\* Mutant: a node stays marked although its expansion failed.
CollapsedNever(l) == graph

\* The node can be expanded again, if it is still the one in the graph.
Collapsed(l) ==
  IF load[l].epoch = epoch
  THEN [graph EXCEPT !.expanded = @ \ {load[l].node}]
  ELSE graph

ExpansionArrives(l) ==
  /\ Fetching(l, "expand")
  /\ \/ Superseded(l) /\ Drop(l)
     \/ /\ ~Superseded(l)
        /\ \/ /\ Accepts(graph, load[l].doc)
              /\ graph' = AddDocument(graph, load[l].doc, FALSE)
              /\ added' = added \cup {<<load[l].doc, l>>}
              /\ Go(l, "loaded")
              /\ status' = "ready"
           \/ /\ ~Accepts(graph, load[l].doc)
              /\ graph' = AddDocument(Collapsed(l), load[l].doc, FALSE)
              /\ Fail(l)
              /\ UNCHANGED added
        /\ Render(graph', epoch)
        /\ UNCHANGED <<chosen, epoch, sourceFailures, scopeVars, cleared>>

\* The catch of loadPackage and expandLatest: the fetch failed, or the document
\* is not the one that was asked for.  Mutant: nothing is reported.
ReadFailsSilently(l) ==
  /\ \E kind \in {"package", "expand"} : Fetching(l, kind)
  /\ \/ Superseded(l) /\ Drop(l)
     \/ /\ ~Superseded(l)
        /\ Go(l, "failed")
        /\ graph' = IF load[l].kind = "expand" THEN Collapsed(l) ELSE graph
        /\ Render(graph', epoch)
        /\ UNCHANGED <<chosen, epoch, sourceFailures, status, scopeVars, added,
                       cleared>>

ReadFails(l) ==
  /\ \E kind \in {"package", "expand"} : Fetching(l, kind)
  /\ \/ Superseded(l) /\ Drop(l)
     \/ /\ ~Superseded(l)
        /\ Fail(l)
        /\ graph' = IF load[l].kind = "expand" THEN Collapsed(l) ELSE graph
        /\ Render(graph', epoch)
        /\ UNCHANGED <<chosen, epoch, sourceFailures, scopeVars, added, cleared>>

-----------------------------------------------------------------------------
(* loadScope. *)

SourcesOf(l) == Sources[load[l].channel]

\* The indexes of the batch that starts at source i.
Batch(sources, i) == {j \in i .. i + BatchSize - 1 : j <= Len(sources)}

\* The channel control, the browser's history or connectedCallback.
LoadScope(l, c) ==
  /\ Supersede(l, "scope", None, c)
  /\ chosen' = c
  /\ graph' = NoGraph
  /\ epoch' = epoch + 1
  /\ sourceFailures' = 0
  /\ added' = {}
  /\ cleared' = l
  /\ at' = [at EXCEPT ![l] = 1]
  /\ pending' = [pending EXCEPT ![l] = Batch(Sources[c], 1)]
  /\ fetched' = [fetched EXCEPT ![l] = {}]
  /\ \/ Sources[c] = << >> /\ Fail(l) /\ Render(NoGraph, epoch + 1)
     \/ /\ Sources[c] # << >>
        /\ Go(l, "fetching")
        /\ status' = "loading"
        /\ UNCHANGED button

\* Mutant: a late failure of an earlier load counts against this one.
SourceSettlesCountingAll(l, i) ==
  /\ Fetching(l, "scope")
  /\ i \in pending[l]
  /\ pending' = [pending EXCEPT ![l] = @ \ {i}]
  /\ \/ Superseded(l) /\ UNCHANGED <<fetched, sourceFailures, status>>
     \/ /\ ~Superseded(l)
        /\ fetched' = [fetched EXCEPT ![l] = @ \cup {i}]
        /\ status' = "loading"
        /\ UNCHANGED sourceFailures
     \/ /\ sourceFailures' = sourceFailures + 1
        /\ status' = "loading"
        /\ UNCHANGED fetched
  /\ UNCHANGED <<button, chosen, graph, epoch, pc, at, added, cleared>>

\* One source of the batch is read or fails.
SourceSettles(l, i) ==
  /\ Fetching(l, "scope")
  /\ i \in pending[l]
  /\ pending' = [pending EXCEPT ![l] = @ \ {i}]
  /\ \/ Superseded(l) /\ UNCHANGED <<fetched, sourceFailures, status>>
     \/ /\ ~Superseded(l)
        /\ status' = "loading"
        /\ \/ /\ fetched' = [fetched EXCEPT ![l] = @ \cup {i}]
              /\ UNCHANGED sourceFailures
           \/ /\ sourceFailures' = sourceFailures + 1
              /\ UNCHANGED fetched
  /\ UNCHANGED <<button, chosen, graph, epoch, pc, at, added, cleared>>

\* Promise.all: the batch has settled.
BatchSettles(l) ==
  /\ Fetching(l, "scope")
  /\ pending[l] = {}
  /\ \/ Superseded(l) /\ Drop(l)
     \/ /\ ~Superseded(l)
        /\ Go(l, "adding")
        /\ UNCHANGED <<button, chosen, graph, epoch, sourceFailures, status,
                       scopeVars, added, cleared>>

\* The next source of the batch enters the graph in source order; after the
\* last one of a batch the next batch is fetched, or the load is complete.
AddSource(l) ==
  LET i == at[l]
      d == SourcesOf(l)[i]
  IN  /\ pc[l] = "adding"
      /\ at' = [at EXCEPT ![l] = i + 1]
      /\ \/ /\ i \in fetched[l] /\ Accepts(graph, d)
            /\ added' = added \cup {<<d, l>>}
            /\ graph' = AddDocument(graph, d, TRUE)
            /\ UNCHANGED sourceFailures
         \/ /\ i \in fetched[l] /\ ~Accepts(graph, d)
            /\ sourceFailures' = sourceFailures + 1
            /\ graph' = AddDocument(graph, d, TRUE)
            /\ UNCHANGED added
         \/ i \notin fetched[l] /\ UNCHANGED <<graph, sourceFailures, added>>
      /\ \/ /\ i = Len(SourcesOf(l))
            /\ Go(l, "loaded")
            /\ status' = "ready"
            /\ Render(graph', epoch)
            /\ UNCHANGED <<pending, fetched>>
         \/ /\ i < Len(SourcesOf(l)) /\ i % BatchSize = 0
            /\ Go(l, "fetching")
            /\ pending' = [pending EXCEPT ![l] = Batch(SourcesOf(l), i + 1)]
            /\ fetched' = [fetched EXCEPT ![l] = {}]
            /\ UNCHANGED <<button, status>>
         \/ /\ i < Len(SourcesOf(l)) /\ i % BatchSize # 0
            /\ UNCHANGED <<button, pc, status, pending, fetched>>
      /\ UNCHANGED <<attached, loadSequence, chosen, epoch, load, cleared>>

-----------------------------------------------------------------------------
\* disconnectedCallback.  The next load is connectedCallback's, which renders
\* the element anew.
Disconnect ==
  /\ Quiet
  /\ attached
  /\ attached' = FALSE
  /\ button' = None
  /\ loadSequence < MaxSequence
  /\ loadSequence' = loadSequence + 1
  /\ UNCHANGED <<chosen, graph, epoch, sourceFailures, status, pc, load,
                 scopeVars, added, cleared>>

Init ==
  /\ attached = FALSE
  /\ button = None
  /\ loadSequence = 0
  /\ chosen = None
  /\ graph = NoGraph
  /\ epoch = 0
  /\ sourceFailures = 0
  /\ status = "idle"
  /\ pc = [l \in Loads |-> "idle"]
  /\ load = [l \in Loads |-> NoLoad]
  /\ at = [l \in Loads |-> 1]
  /\ pending = [l \in Loads |-> {}]
  /\ fetched = [l \in Loads |-> {}]
  /\ added = {}
  /\ cleared = None

\* An element has one mode, which the page wrote and loadInitial looks at.
Call(l) ==
  \/ chosen \notin Channels /\ \E d \in Versions : LoadPackage(l, d)
  \/ chosen \notin Documents /\ \E c \in Channels : LoadScope(l, c)
  \/ \E n \in Coordinates : ExpandLatest(l, n)

Continue(l) ==
  \/ PackageArrives(l) \/ ExpansionArrives(l) \/ ReadFails(l)
  \/ (\E i \in pending[l] : SourceSettles(l, i))
  \/ BatchSettles(l) \/ AddSource(l)

Next ==
  \/ Disconnect
  \/ \E n \in Coordinates : Inspect(n)
  \/ \E l \in Loads : Call(l) \/ Continue(l)

Spec == Init /\ [][Next]_vars

\* Every fetch settles (see DocumentFetch for what that takes).
FairSpec == Spec /\ \A l \in Loads : WF_vars(Continue(l))

-----------------------------------------------------------------------------
(* Properties. *)

\* Every value is one the code can produce; edges, roots and marks of the graph
\* are about nodes it has.
TypeOK ==
  /\ attached \in BOOLEAN
  /\ button \in (Coordinates \X Nat) \cup {None}
  /\ loadSequence \in 0 .. MaxSequence
  /\ chosen \in Documents \cup Channels \cup {None}
  /\ graph \in Graph
  /\ graph.edges \subseteq graph.nodes \X graph.nodes
  /\ graph.roots \subseteq graph.nodes /\ graph.expanded \subseteq graph.nodes
  /\ epoch \in Nat
  /\ sourceFailures \in Nat
  /\ status \in {"idle", "loading", "ready", "error"}
  /\ pc \in [Loads -> {"idle", "fetching", "adding"} \cup Ended]
  /\ load \in [Loads -> Load]
  /\ at \in [Loads -> Nat \ {0}]
  /\ pending \in [Loads -> SUBSET Nat]
  /\ fetched \in [Loads -> SUBSET Nat]
  /\ added \subseteq Documents \X Loads
  /\ cleared \in Loads \cup {None}

\* The graph never outgrows the browser limits, whichever loads and expansions
\* add to it.
WithinLimits ==
  Cardinality(graph.nodes) <= MaxNodes /\ Cardinality(graph.edges) <= MaxEdges

\* A document that is refused or fails leaves nothing behind: the graph is
\* exactly the documents that were added since it was last cleared.
WholeDocumentsOnly ==
  /\ graph.nodes = UNION {{Root[a[1]]} \cup Deps[a[1]] : a \in added}
  /\ graph.edges = UNION {EdgesOf(a[1]) : a \in added}

\* A document is added whole and within the limits, or not at all, in the middle
\* of a batch too.
DocumentsFitWhole == WithinLimits /\ WholeDocumentsOnly

\* Nothing in the graph was asked for before the load that cleared it: a load
\* or expansion that answers late adds nothing to its successor's graph.
NothingSuperseded ==
  \A a \in added : load[a[2]].seq >= load[cleared].seq

\* When the newest load of a version has completed, the graph on screen is that
\* version's, and the version control agrees, in whatever order answers came.
LastChoiceIsShown ==
  \A l \in Loads :
    load[l].kind = "package" /\ pc[l] = "loaded" /\ ~Superseded(l) =>
      /\ chosen = load[l].doc
      /\ graph.roots = {Root[load[l].doc]}
      /\ <<load[l].doc, l>> \in added

\* The newest load decides what is shown: no older one adds to it, and the choice
\* it was made for is the one on screen.
NewestLoadRules == NothingSuperseded /\ LastChoiceIsShown

\* "Composed n graphs" tells the truth: the sources less the failures counted
\* are those in the graph, although loads overlap and share the counter.
ComposedIsTrue ==
  \A l \in Loads :
    load[l].kind = "scope" /\ pc[l] = "loaded" /\ cleared = l =>
      Cardinality({a \in added : a[2] = l}) = Len(SourcesOf(l)) - sourceFailures

\* A node is marked expanded only for a reason: its document is in the graph or
\* an expansion of it has not failed.  After a failure it can be tried again,
\* also when the graph was replaced or the button clicked twice meanwhile.
FailedExpansionCanBeRetried ==
  \A n \in graph.expanded :
    \/ \E a \in added : Root[a[1]] = n
    \/ \E l \in Loads : /\ load[l].kind = "expand" /\ load[l].node = n
                        /\ load[l].epoch = epoch /\ pc[l] # "failed"

\* While the element stays on the page, a status line that says loading changes.
StatusSettles ==
  (attached /\ status = "loading") ~> (~attached \/ status # "loading")
=============================================================================
