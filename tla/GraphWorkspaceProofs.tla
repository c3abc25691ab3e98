------------------------- MODULE GraphWorkspaceProofs -------------------------
(***************************************************************************)
(* Theorems about GraphWorkspace, for any number of loads, packages and    *)
(* documents, any batch size and limits, and every bound.                  *)
(***************************************************************************)
EXTENDS GraphWorkspace, FiniteSetTheorems, TLAPS

-----------------------------------------------------------------------------
(* Type correctness. *)

GraphOK(g) ==
  /\ g \in Graph
  /\ g.edges \subseteq g.nodes \X g.nodes
  /\ g.roots \subseteq g.nodes /\ g.expanded \subseteq g.nodes

\* What a load captured fits its kind and its place.
LoadOK(l) ==
  /\ pc[l] = "idle" <=> load[l].kind = "none"
  /\ load[l].kind \in {"package", "expand"} => load[l].doc \in Documents
  /\ load[l].kind = "expand" => load[l].node \in Coordinates
  /\ load[l].kind = "scope" =>
       /\ load[l].channel \in Channels
       /\ pc[l] \in {"fetching", "adding"} => at[l] <= Len(SourcesOf(l))
  /\ pc[l] = "adding" => load[l].kind = "scope" /\ load[l].seq = loadSequence
  /\ load[l].seq <= loadSequence

\* The button is of a node the graph has, or had before it was cleared.
ButtonOK ==
  button # None =>
    /\ button[2] <= epoch
    /\ button[2] = epoch => button[1] \in graph.nodes

Typed == TypeOK /\ ButtonOK /\ \A l \in Loads : LoadOK(l)

\* addDocument keeps a graph well formed.
LEMMA AddDocumentFacts ==
  ASSUME NEW g, GraphOK(g), NEW d \in Documents, NEW asRoot \in BOOLEAN
  PROVE  /\ GraphOK(AddDocument(g, d, asRoot))
         /\ g.nodes \subseteq AddDocument(g, d, asRoot).nodes
<1>1. Root[d] \in Coordinates /\ Deps[d] \subseteq Coordinates
  BY ConstantsAssumption
<1>2. GraphOK(With(g, d, asRoot)) /\ g.nodes \subseteq With(g, d, asRoot).nodes
  BY <1>1 DEF With, GraphOK, Graph, EdgesOf
<1>3. QED
  BY <1>2 DEF AddDocument

LEMMA NoGraphFacts == GraphOK(NoGraph)
BY DEF GraphOK, Graph, NoGraph

LEMMA CollapsedFacts ==
  ASSUME GraphOK(graph), NEW l \in Loads
  PROVE  /\ GraphOK(Collapsed(l))
         /\ Collapsed(l).nodes = graph.nodes
         /\ Collapsed(l).edges = graph.edges
         /\ Collapsed(l).roots = graph.roots
BY DEF Collapsed, GraphOK, Graph

\* The sources of a scope load are documents.
LEMMA SourceFacts ==
  ASSUME NEW l \in Loads, LoadOK(l), load[l].kind = "scope", pc[l] = "adding",
         at[l] \in Nat \ {0}
  PROVE  /\ SourcesOf(l) \in Seq(Documents)
         /\ Len(SourcesOf(l)) \in Nat
         /\ SourcesOf(l)[at[l]] \in Documents
<1>1. SourcesOf(l) \in Seq(Documents) /\ at[l] <= Len(SourcesOf(l))
  BY ConstantsAssumption DEF LoadOK, SourcesOf
<1>2. QED
  BY <1>1

LEMMA InitTyped == Init => Typed
<1>1. NoLoad \in Load
  BY ConstantsAssumption DEF NoLoad, Load, Kinds
<1>2. GraphOK(NoGraph)
  BY NoGraphFacts
<1>3. ASSUME Init PROVE TypeOK
  <2>1. /\ attached \in BOOLEAN /\ button \in (Coordinates \X Nat) \cup {None}
        /\ chosen \in Documents \cup Channels \cup {None}
        /\ cleared \in Loads \cup {None} /\ added \subseteq Documents \X Loads
        /\ status \in {"idle", "loading", "ready", "error"}
    BY <1>3 DEF Init
  <2>2. /\ loadSequence \in 0 .. MaxSequence
        /\ epoch \in Nat /\ sourceFailures \in Nat
    BY <1>3, ConstantsAssumption DEF Init
  <2>3. GraphOK(graph)
    BY <1>2, <1>3 DEF Init
  <2>4. /\ pc \in [Loads -> {"idle", "fetching", "adding"} \cup Ended]
        /\ load \in [Loads -> Load]
    BY <1>1, <1>3 DEF Init
  <2>5. /\ at \in [Loads -> Nat \ {0}]
        /\ pending \in [Loads -> SUBSET Nat] /\ fetched \in [Loads -> SUBSET Nat]
    BY <1>3 DEF Init
  <2>6. QED
    BY <2>1, <2>2, <2>3, <2>4, <2>5 DEF TypeOK, GraphOK
<1>4. Init => \A l \in Loads : LoadOK(l)
  BY ConstantsAssumption DEF Init, LoadOK, NoLoad
<1>5. QED
  BY <1>3, <1>4 DEF Typed, ButtonOK, Init

\* What the steps of a load that was called leave of the others.
LEMMA TypedStep == Typed /\ [Next]_vars => Typed'
<1> SUFFICES ASSUME Typed, [Next]_vars PROVE Typed'
  OBVIOUS
<1> USE DEF Typed
<1>1. GraphOK(graph)
  BY DEF TypeOK, GraphOK
<1>2. ASSUME NEW l \in Loads, NEW d \in Versions, LoadPackage(l, d)
      PROVE  Typed'
  <2>1. d \in Documents
    BY ConstantsAssumption
  <2>2. load'[l] \in Load /\ load' = [load EXCEPT ![l] = load'[l]]
    BY <1>2, <2>1, ConstantsAssumption DEF LoadPackage, Supersede, TypeOK, Load, Kinds
  <2>3. TypeOK'
    BY <1>2, <2>1, <2>2, ConstantsAssumption
       DEF LoadPackage, Supersede, TypeOK, Go, scopeVars, GraphOK
  <2>4. \A m \in Loads : LoadOK(m)'
    BY <1>2, <2>1, ConstantsAssumption
       DEF LoadPackage, Supersede, TypeOK, Go, scopeVars, LoadOK, Quiet, SourcesOf, Load
  <2>5. ButtonOK'
    BY <1>2 DEF LoadPackage, ButtonOK
  <2>6. QED
    BY <2>3, <2>4, <2>5
<1>3. ASSUME NEW l \in Loads, NEW c \in Channels, LoadScope(l, c)
      PROVE  Typed'
  <2>1. load'[l] \in Load /\ load' = [load EXCEPT ![l] = load'[l]]
    BY <1>3, ConstantsAssumption DEF LoadScope, Supersede, TypeOK, Load, Kinds
  <2>2. Batch(Sources[c], 1) \subseteq Nat
    BY ConstantsAssumption DEF Batch
  <2>3. pc' \in [Loads -> {"idle", "fetching", "adding"} \cup Ended]
    BY <1>3 DEF LoadScope, TypeOK, Go, Fail, Ended
  <2>4. status' \in {"idle", "loading", "ready", "error"}
    BY <1>3 DEF LoadScope, Fail
  <2>5. button' \in (Coordinates \X Nat) \cup {None}
    BY <1>3 DEF LoadScope, Render, TypeOK
  <2>6. GraphOK(graph')
    BY <1>3, NoGraphFacts DEF LoadScope
  <2>7. /\ pending' \in [Loads -> SUBSET Nat]
        /\ fetched' \in [Loads -> SUBSET Nat]
        /\ at' \in [Loads -> Nat \ {0}]
    BY <1>3, <2>2 DEF LoadScope, TypeOK
  <2>8. load' \in [Loads -> Load]
    BY <2>1 DEF TypeOK
  <2>9. /\ attached' \in BOOLEAN /\ loadSequence' \in 0 .. MaxSequence
        /\ chosen' \in Documents \cup Channels \cup {None}
        /\ epoch' \in Nat /\ sourceFailures' \in Nat
        /\ added' \subseteq Documents \X Loads
        /\ cleared' \in Loads \cup {None}
    BY <1>3, ConstantsAssumption DEF LoadScope, Supersede, TypeOK
  <2>10. TypeOK'
    BY <2>3, <2>4, <2>5, <2>6, <2>7, <2>8, <2>9 DEF TypeOK, GraphOK
  <2>11. Sources[c] # << >> => Len(Sources[c]) >= 1
    <3>1. Sources[c] \in Seq(Documents)
      BY ConstantsAssumption
    <3>2. QED
      BY <3>1
  <2>12. \A m \in Loads : LoadOK(m)'
    BY <1>3, <2>11, ConstantsAssumption
       DEF LoadScope, Supersede, TypeOK, Go, Fail, LoadOK, Quiet, SourcesOf, Load,
           Ended
  <2>13. ButtonOK'
    BY <1>3 DEF LoadScope, ButtonOK, Render, TypeOK
  <2>14. QED
    BY <2>10, <2>12, <2>13
<1>4. ASSUME NEW l \in Loads, NEW n \in Coordinates, ExpandLatest(l, n)
      PROVE  Typed'
  <2>1. button[2] \in Nat /\ Latest[n] \in Documents
    BY <1>4, ConstantsAssumption DEF ExpandLatest, TypeOK
  <2>2. load'[l] \in Load /\ load' = [load EXCEPT ![l] = load'[l]]
    BY <1>4, <2>1, ConstantsAssumption DEF ExpandLatest, TypeOK, Load, Kinds
  <2>3. GraphOK(graph')
    <3>1. CASE button[2] = epoch
      <4>1. graph' = [graph EXCEPT !.expanded = @ \cup {n}]
        BY <1>4, <3>1 DEF ExpandLatest
      <4>2. n \in graph.nodes
        BY <1>4, <3>1 DEF ExpandLatest, ButtonOK
      <4>3. QED
        BY <1>1, <4>1, <4>2 DEF GraphOK, Graph
    <3>2. CASE button[2] # epoch
      BY <1>1, <1>4, <3>2 DEF ExpandLatest
    <3>3. QED
      BY <3>1, <3>2
  <2>4. TypeOK'
    BY <1>4, <2>2, <2>3 DEF ExpandLatest, TypeOK, GraphOK, Go, scopeVars
  <2>5. \A m \in Loads : LoadOK(m)'
    BY <1>4, <2>1, ConstantsAssumption
       DEF ExpandLatest, TypeOK, Go, scopeVars, LoadOK, Quiet, SourcesOf, Load
  <2>6. ButtonOK'
    <3>1. graph'.nodes = graph.nodes
      BY <1>4 DEF ExpandLatest, TypeOK, Graph
    <3>2. QED
      BY <1>4, <3>1 DEF ExpandLatest, ButtonOK
  <2>7. QED
    BY <2>4, <2>5, <2>6
<1>5. ASSUME NEW l \in Loads, NEW kind, Fetching(l, kind), Drop(l)
      PROVE  Typed'
  <2>1. TypeOK'
    BY <1>5 DEF Fetching, Drop, TypeOK, Go, scopeVars, Ended
  <2>2. \A m \in Loads : LoadOK(m)'
    BY <1>5 DEF Fetching, Drop, TypeOK, Go, scopeVars, LoadOK, Quiet, SourcesOf, Load,
                Ended
  <2>3. ButtonOK'
    BY <1>5 DEF Drop, ButtonOK
  <2>4. QED
    BY <2>1, <2>2, <2>3
\* The graph and the place of a load change, and what depends on them.
<1>6. ASSUME NEW l \in Loads, NEW kind, Fetching(l, kind),
             UNCHANGED scopeVars, GraphOK(graph'),
             pc' = [pc EXCEPT ![l] = "loaded"] \/ pc' = [pc EXCEPT ![l] = "failed"],
             button' = None \/ button' = button, status' \in {"ready", "error"},
             chosen' \in Documents \cup Channels \cup {None},
             epoch' \in Nat, sourceFailures' = sourceFailures,
             added' \subseteq Documents \X Loads, cleared' \in Loads \cup {None},
             kind # "none", ButtonOK'
      PROVE  Typed'
  <2>1. TypeOK'
    BY <1>6 DEF Fetching, TypeOK, GraphOK, scopeVars, Ended
  <2>2. \A m \in Loads : LoadOK(m)'
    BY <1>6 DEF Fetching, TypeOK, scopeVars, LoadOK, Quiet, SourcesOf, Load, Ended
  <2>3. QED
    BY <1>6, <2>1, <2>2
<1>7. ASSUME NEW l \in Loads, PackageArrives(l)
      PROVE  Typed'
  <2>1. CASE Superseded(l) /\ Drop(l)
    BY <1>5, <1>7, <2>1 DEF PackageArrives
  <2>2. CASE ~(Superseded(l) /\ Drop(l))
    <3>1. Fetching(l, "package") /\ load[l].doc \in Documents
      BY <1>7 DEF PackageArrives, Fetching, LoadOK
    <3>2. GraphOK(graph')
      BY <1>7, <2>2, <3>1, NoGraphFacts, AddDocumentFacts DEF PackageArrives
    <3>3. /\ epoch' = epoch + 1 /\ cleared' = l /\ button' = None
          /\ sourceFailures' = sourceFailures /\ UNCHANGED scopeVars
          /\ chosen' = load[l].doc \/ chosen' = chosen
          /\ added' = {<<load[l].doc, l>>} \/ added' = {}
      BY <1>7, <2>2 DEF PackageArrives
    <3>a. /\ epoch' \in Nat /\ cleared' \in Loads \cup {None}
          /\ chosen' \in Documents \cup Channels \cup {None}
          /\ added' \subseteq Documents \X Loads
      BY <3>1, <3>3 DEF TypeOK
    <3>b. ButtonOK'
      BY <3>3 DEF ButtonOK
    <3>4. /\ status' \in {"ready", "error"}
          /\ \/ pc' = [pc EXCEPT ![l] = "loaded"]
             \/ pc' = [pc EXCEPT ![l] = "failed"]
      BY <1>7, <2>2 DEF PackageArrives, Go, Fail
    <3>5. QED
      BY <1>6, <3>1, <3>2, <3>3, <3>a, <3>b, <3>4
  <2>3. QED
    BY <2>1, <2>2
<1>8. ASSUME NEW l \in Loads, ExpansionArrives(l)
      PROVE  Typed'
  <2>1. CASE Superseded(l) /\ Drop(l)
    BY <1>5, <1>8, <2>1 DEF ExpansionArrives
  <2>2. CASE ~(Superseded(l) /\ Drop(l))
    <3>1. Fetching(l, "expand") /\ load[l].doc \in Documents
      BY <1>8 DEF ExpansionArrives, Fetching, LoadOK
    <3>2. GraphOK(graph') /\ graph.nodes \subseteq graph'.nodes
      <4>1. /\ GraphOK(AddDocument(graph, load[l].doc, FALSE))
            /\ graph.nodes \subseteq AddDocument(graph, load[l].doc, FALSE).nodes
        BY <1>1, <3>1, AddDocumentFacts
      <4>2. /\ GraphOK(AddDocument(Collapsed(l), load[l].doc, FALSE))
            /\ graph.nodes \subseteq AddDocument(Collapsed(l), load[l].doc, FALSE).nodes
        BY <1>1, <3>1, CollapsedFacts, AddDocumentFacts
      <4>3. QED
        BY <1>8, <2>2, <4>1, <4>2 DEF ExpansionArrives
    <3>3. /\ epoch' \in Nat /\ cleared' \in Loads \cup {None}
          /\ button' = None \/ button' = button
          /\ sourceFailures' = sourceFailures /\ UNCHANGED scopeVars
          /\ epoch' = epoch
      BY <1>8, <2>2 DEF ExpansionArrives, TypeOK, Render
    <3>a. /\ chosen' \in Documents \cup Channels \cup {None}
          /\ added' \subseteq Documents \X Loads
      <4>1. /\ chosen' = chosen
            /\ added' = added \/ added' = added \cup {<<load[l].doc, l>>}
        BY <1>8, <2>2 DEF ExpansionArrives
      <4>2. QED
        BY <3>1, <4>1 DEF TypeOK
    <3>b. ButtonOK'
      BY <3>2, <3>3 DEF ButtonOK
    <3>4. /\ status' \in {"ready", "error"}
          /\ \/ pc' = [pc EXCEPT ![l] = "loaded"]
             \/ pc' = [pc EXCEPT ![l] = "failed"]
      BY <1>8, <2>2 DEF ExpansionArrives, Go, Fail
    <3>5. QED
      BY <1>6, <3>1, <3>2, <3>3, <3>a, <3>b, <3>4
  <2>3. QED
    BY <2>1, <2>2
<1>9. ASSUME NEW l \in Loads, ReadFails(l)
      PROVE  Typed'
  <2>1. PICK kind \in {"package", "expand"} : Fetching(l, kind)
    BY <1>9 DEF ReadFails
  <2>2. CASE Superseded(l) /\ Drop(l)
    BY <1>5, <2>1, <2>2
  <2>3. CASE ~(Superseded(l) /\ Drop(l))
    <3>1. GraphOK(graph') /\ graph'.nodes = graph.nodes
      BY <1>1, <1>9, <2>3, CollapsedFacts DEF ReadFails
    <3>2. /\ epoch' \in Nat /\ cleared' \in Loads \cup {None}
          /\ button' = None \/ button' = button
          /\ sourceFailures' = sourceFailures
          /\ chosen' \in Documents \cup Channels \cup {None}
          /\ added' \subseteq Documents \X Loads /\ UNCHANGED scopeVars
          /\ epoch' = epoch
      BY <1>9, <2>3 DEF ReadFails, TypeOK, Render
    <3>a. ButtonOK'
      BY <3>1, <3>2 DEF ButtonOK
    <3>3. /\ status' \in {"ready", "error"}
          /\ \/ pc' = [pc EXCEPT ![l] = "loaded"]
             \/ pc' = [pc EXCEPT ![l] = "failed"]
      BY <1>9, <2>3 DEF ReadFails, Go, Fail
    <3>4. QED
      BY <1>6, <2>1, <3>1, <3>2, <3>a, <3>3
  <2>4. QED
    BY <2>2, <2>3
<1>10. ASSUME NEW l \in Loads, NEW i \in pending[l], SourceSettles(l, i)
       PROVE  Typed'
  <2>1. i \in Nat
    BY DEF TypeOK
  <2>2. TypeOK'
    BY <1>10, <2>1 DEF SourceSettles, Fetching, TypeOK
  <2>3. \A m \in Loads : LoadOK(m)'
    BY <1>10 DEF SourceSettles, Fetching, LoadOK, SourcesOf
  <2>4. ButtonOK'
    BY <1>10 DEF SourceSettles, ButtonOK
  <2>5. QED
    BY <2>2, <2>3, <2>4
<1>11. ASSUME NEW l \in Loads, BatchSettles(l)
       PROVE  Typed'
  <2>1. CASE Superseded(l) /\ Drop(l)
    BY <1>5, <1>11, <2>1 DEF BatchSettles
  <2>2. CASE ~(Superseded(l) /\ Drop(l))
    <3>1. TypeOK'
      BY <1>11, <2>2 DEF BatchSettles, Fetching, TypeOK, Go, scopeVars
    <3>2. \A m \in Loads : LoadOK(m)'
      BY <1>11, <2>2
         DEF BatchSettles, Fetching, TypeOK, Go, scopeVars, LoadOK, Superseded,
             SourcesOf, Ended
    <3>3. ButtonOK'
      BY <1>11, <2>2 DEF BatchSettles, ButtonOK
    <3>4. QED
      BY <3>1, <3>2, <3>3
  <2>3. QED
    BY <2>1, <2>2
<1>12. ASSUME NEW l \in Loads, AddSource(l)
       PROVE  Typed'
  <2> DEFINE i == at[l]
             d == SourcesOf(l)[i]
  <2>1. /\ load[l].kind = "scope" /\ pc[l] = "adding"
        /\ i \in Nat \ {0} /\ i <= Len(SourcesOf(l))
        /\ Len(SourcesOf(l)) \in Nat /\ d \in Documents
    <3>1. load[l].kind = "scope" /\ pc[l] = "adding" /\ i \in Nat \ {0}
      BY <1>12 DEF AddSource, LoadOK, TypeOK
    <3>2. QED
      BY <3>1, SourceFacts DEF LoadOK
  <2> HIDE DEF d
  <2>2. /\ GraphOK(graph') /\ graph.nodes \subseteq graph'.nodes
        /\ sourceFailures' \in Nat /\ added' \subseteq Documents \X Loads
    <3>1. graph' = graph \/ graph' = AddDocument(graph, d, TRUE)
      BY <1>12 DEF AddSource, d
    <3>2. /\ sourceFailures' = sourceFailures \/ sourceFailures' = sourceFailures + 1
          /\ added' = added \/ added' = added \cup {<<d, l>>}
      BY <1>12 DEF AddSource, d
    <3>3. GraphOK(graph') /\ graph.nodes \subseteq graph'.nodes
      BY <1>1, <2>1, <3>1, AddDocumentFacts
    <3>4. QED
      BY <2>1, <3>2, <3>3 DEF TypeOK
  <2>3. /\ pending' \in [Loads -> SUBSET Nat]
        /\ fetched' \in [Loads -> SUBSET Nat]
        /\ at' \in [Loads -> Nat \ {0}]
    <3>1. Batch(SourcesOf(l), i + 1) \subseteq Nat
      BY <2>1, ConstantsAssumption DEF Batch
    <3>2. /\ pending' = pending
          \/ pending' = [pending EXCEPT ![l] = Batch(SourcesOf(l), i + 1)]
      BY <1>12 DEF AddSource
    <3>3. fetched' = fetched \/ fetched' = [fetched EXCEPT ![l] = {}]
      BY <1>12 DEF AddSource
    <3>4. at' = [at EXCEPT ![l] = i + 1]
      BY <1>12 DEF AddSource
    <3>5. pending' \in [Loads -> SUBSET Nat] /\ fetched' \in [Loads -> SUBSET Nat]
      BY <3>1, <3>2, <3>3 DEF TypeOK
    <3>6. at' \in [Loads -> Nat \ {0}]
      BY <2>1, <3>4 DEF TypeOK
    <3>7. QED
      BY <3>5, <3>6
  <2>4. /\ pc' \in [Loads -> {"idle", "fetching", "adding"} \cup Ended]
        /\ status' \in {"idle", "loading", "ready", "error"}
        /\ button' \in (Coordinates \X Nat) \cup {None}
    BY <1>12 DEF AddSource, TypeOK, Go, Ended, Render
  <2>5. TypeOK'
    BY <1>12, <2>2, <2>3, <2>4 DEF AddSource, TypeOK, GraphOK
  <2>6. \A m \in Loads : LoadOK(m)'
    <3>1. ASSUME NEW m \in Loads, m # l PROVE LoadOK(m)'
      BY <1>12, <3>1 DEF AddSource, TypeOK, LoadOK, Go, SourcesOf
    <3>2. LoadOK(l)'
      BY <1>12, <2>1 DEF AddSource, TypeOK, LoadOK, Go, SourcesOf
    <3>3. QED
      BY <3>1, <3>2
  <2>7. ButtonOK'
    BY <1>12, <2>2 DEF AddSource, ButtonOK, Render
  <2>8. QED
    BY <2>5, <2>6, <2>7
<1>13. ASSUME Disconnect PROVE Typed'
  <2>1. TypeOK'
    <3>1. /\ attached' \in BOOLEAN /\ loadSequence' \in 0 .. MaxSequence
          /\ button' \in (Coordinates \X Nat) \cup {None}
      <4>1. attached' = FALSE /\ button' = None
        BY <1>13 DEF Disconnect
      <4>2. /\ loadSequence \in 0 .. MaxSequence /\ MaxSequence \in Nat
            /\ loadSequence < MaxSequence /\ loadSequence' = loadSequence + 1
        BY <1>13, ConstantsAssumption DEF Disconnect, TypeOK
      <4>3. loadSequence' \in 0 .. MaxSequence
        BY <4>2
      <4>4. attached' \in BOOLEAN
        BY <4>1
      <4>5. QED
        BY <4>1, <4>3, <4>4
    <3>2. load' = load /\ pc' = pc /\ graph' = graph /\ UNCHANGED scopeVars
      BY <1>13 DEF Disconnect
    <3>3. /\ UNCHANGED <<chosen, epoch, sourceFailures, status>>
          /\ UNCHANGED <<added, cleared>>
      BY <1>13 DEF Disconnect
    <3>4. QED
      BY <3>1, <3>2, <3>3 DEF TypeOK, scopeVars
  <2>2. \A m \in Loads : LoadOK(m)'
    BY <1>13 DEF Disconnect, TypeOK, scopeVars, LoadOK, Quiet, SourcesOf, Load
  <2>3. ButtonOK'
    BY <1>13 DEF Disconnect, ButtonOK
  <2>4. QED
    BY <2>1, <2>2, <2>3
<1>14. ASSUME NEW n \in Coordinates, Inspect(n) PROVE Typed'
  <2>1. TypeOK'
    BY <1>14 DEF Inspect, TypeOK, scopeVars
  <2>2. \A m \in Loads : LoadOK(m)'
    BY <1>14 DEF Inspect, scopeVars, LoadOK, SourcesOf
  <2>3. ButtonOK'
    BY <1>14 DEF Inspect, ButtonOK, TypeOK
  <2>4. QED
    BY <2>1, <2>2, <2>3
<1>15. ASSUME UNCHANGED vars PROVE Typed'
  BY <1>15 DEF vars, scopeVars, TypeOK, ButtonOK, LoadOK, SourcesOf
<1>16. QED
  BY <1>2, <1>3, <1>4, <1>7, <1>8, <1>9, <1>10, <1>11, <1>12, <1>13, <1>14, <1>15
     DEF Next, Call, Continue

\* Every reachable state is well typed: what the controls, the status line and
\* the loads of assets/dependency-graph.js hold, and a graph whose edges, roots
\* and marks are about nodes it has.
THEOREM TypeCorrect == Spec => []TypeOK
<1>1. Spec => []Typed
  BY InitTyped, TypedStep, PTL DEF Spec
<1>2. QED
  BY <1>1, PTL DEF Typed

-----------------------------------------------------------------------------
(* Whole documents. *)

NodesOf(A) == UNION {{Root[a[1]]} \cup Deps[a[1]] : a \in A}
AllEdgesOf(A) == UNION {EdgesOf(a[1]) : a \in A}

LEMMA OneMoreDocument ==
  ASSUME NEW A, NEW d, NEW l
  PROVE  /\ NodesOf(A \cup {<<d, l>>}) = NodesOf(A) \cup {Root[d]} \cup Deps[d]
         /\ AllEdgesOf(A \cup {<<d, l>>}) = AllEdgesOf(A) \cup EdgesOf(d)
<1> DEFINE x == <<d, l>>
<1>1. x[1] = d
  OBVIOUS
<1> HIDE DEF x
<1>2. NodesOf(A \cup {x}) = NodesOf(A) \cup {Root[d]} \cup Deps[d]
  BY <1>1 DEF NodesOf
<1>3. AllEdgesOf(A \cup {x}) = AllEdgesOf(A) \cup EdgesOf(d)
  BY <1>1 DEF AllEdgesOf
<1>4. QED
  BY <1>2, <1>3 DEF x

LEMMA NoDocuments == NodesOf({}) = {} /\ AllEdgesOf({}) = {}
BY DEF NodesOf, AllEdgesOf

LEMMA WholeStep == Typed /\ WholeDocumentsOnly /\ [Next]_vars => WholeDocumentsOnly'
<1> SUFFICES ASSUME Typed, graph.nodes = NodesOf(added),
                    graph.edges = AllEdgesOf(added), [Next]_vars
             PROVE  graph'.nodes = NodesOf(added') /\ graph'.edges = AllEdgesOf(added')
  BY DEF WholeDocumentsOnly, NodesOf, AllEdgesOf
<1> USE DEF Typed
<1>1. GraphOK(graph)
  BY DEF TypeOK, GraphOK
\* Documents are added whole.
<1>2. ASSUME NEW g, NEW d, NEW l, NEW A, NEW asRoot, Accepts(g, d),
             g.nodes = NodesOf(A), g.edges = AllEdgesOf(A),
             graph' = AddDocument(g, d, asRoot), added' = A \cup {<<d, l>>}
      PROVE  graph'.nodes = NodesOf(added') /\ graph'.edges = AllEdgesOf(added')
  <2>1. graph'.nodes = g.nodes \cup {Root[d]} \cup Deps[d] /\ graph'.edges = g.edges \cup EdgesOf(d)
    BY <1>2 DEF AddDocument, With
  <2>2. /\ NodesOf(A \cup {<<d, l>>}) = NodesOf(A) \cup {Root[d]} \cup Deps[d]
        /\ AllEdgesOf(A \cup {<<d, l>>}) = AllEdgesOf(A) \cup EdgesOf(d)
    BY OneMoreDocument
  <2>3. added' = A \cup {<<d, l>>} /\ g.nodes = NodesOf(A) /\ g.edges = AllEdgesOf(A)
    BY <1>2
  <2>4. QED
    BY <2>1, <2>2, <2>3
\* Marks do not matter.
<1>3. ASSUME graph'.nodes = graph.nodes, graph'.edges = graph.edges, added' = added
      PROVE  graph'.nodes = NodesOf(added') /\ graph'.edges = AllEdgesOf(added')
  BY <1>3
<1>4. ASSUME NEW l \in Loads, NEW c \in Channels, LoadScope(l, c)
      PROVE  graph'.nodes = NodesOf(added') /\ graph'.edges = AllEdgesOf(added')
  BY <1>4, NoDocuments DEF LoadScope, NoGraph
<1>5. ASSUME NEW l \in Loads, NEW n \in Coordinates, ExpandLatest(l, n)
      PROVE  graph'.nodes = NodesOf(added') /\ graph'.edges = AllEdgesOf(added')
  BY <1>1, <1>3, <1>5 DEF ExpandLatest, GraphOK, Graph
<1>6. ASSUME NEW l \in Loads, PackageArrives(l)
      PROVE  graph'.nodes = NodesOf(added') /\ graph'.edges = AllEdgesOf(added')
  <2>1. CASE Superseded(l) /\ Drop(l)
    BY <1>3, <2>1 DEF Drop
  <2>2. CASE ~(Superseded(l) /\ Drop(l)) /\ Accepts(NoGraph, load[l].doc)
    <3>1. graph' = AddDocument(NoGraph, load[l].doc, TRUE) /\ added' = {} \cup {<<load[l].doc, l>>}
      BY <1>6, <2>2 DEF PackageArrives
    <3>2. NoGraph.nodes = NodesOf({}) /\ NoGraph.edges = AllEdgesOf({})
      BY NoDocuments DEF NoGraph
    <3>3. Accepts(NoGraph, load[l].doc)
      BY <2>2
    <3>4. QED
      BY <1>2, <3>1, <3>2, <3>3
  <2>3. CASE ~(Superseded(l) /\ Drop(l)) /\ ~Accepts(NoGraph, load[l].doc)
    <3>1. graph' = NoGraph /\ added' = {}
      BY <1>6, <2>3 DEF PackageArrives, AddDocument
    <3>2. NoGraph.nodes = {} /\ NoGraph.edges = {}
      BY DEF NoGraph
    <3>3. QED
      BY <3>1, <3>2, NoDocuments
  <2>4. QED
    BY <2>1, <2>2, <2>3
<1>7. ASSUME NEW l \in Loads, ExpansionArrives(l)
      PROVE  graph'.nodes = NodesOf(added') /\ graph'.edges = AllEdgesOf(added')
  <2>1. CASE Superseded(l) /\ Drop(l)
    BY <1>3, <2>1 DEF Drop
  <2>2. CASE ~(Superseded(l) /\ Drop(l)) /\ Accepts(graph, load[l].doc)
    BY <1>2, <1>7, <2>2 DEF ExpansionArrives
  <2>3. CASE ~(Superseded(l) /\ Drop(l)) /\ ~Accepts(graph, load[l].doc)
    <3>1. ~Accepts(Collapsed(l), load[l].doc)
      BY <1>1, <2>3, CollapsedFacts DEF Accepts, Fits
    <3>2. graph' = Collapsed(l) /\ added' = added
      BY <1>7, <2>3, <3>1 DEF ExpansionArrives, AddDocument
    <3>3. QED
      BY <1>1, <1>3, <3>2, CollapsedFacts
  <2>4. QED
    BY <2>1, <2>2, <2>3
<1>8. ASSUME NEW l \in Loads, ReadFails(l)
      PROVE  graph'.nodes = NodesOf(added') /\ graph'.edges = AllEdgesOf(added')
  <2>1. (graph' = graph \/ graph' = Collapsed(l)) /\ added' = added
    BY <1>8 DEF ReadFails, Drop
  <2>2. QED
    BY <1>1, <1>3, <2>1, CollapsedFacts
<1>9. ASSUME NEW l \in Loads, AddSource(l)
      PROVE  graph'.nodes = NodesOf(added') /\ graph'.edges = AllEdgesOf(added')
  <2> DEFINE d == SourcesOf(l)[at[l]]
  <2>1. \/ /\ Accepts(graph, d) /\ graph' = AddDocument(graph, d, TRUE)
           /\ added' = added \cup {<<d, l>>}
        \/ /\ ~Accepts(graph, d) /\ graph' = AddDocument(graph, d, TRUE)
           /\ added' = added
        \/ graph' = graph /\ added' = added
    BY <1>9 DEF AddSource
  <2> HIDE DEF d
  <2>2. QED
    BY <1>2, <1>3, <2>1 DEF AddDocument
<1>10. ASSUME graph' = graph, added' = added
       PROVE  graph'.nodes = NodesOf(added') /\ graph'.edges = AllEdgesOf(added')
  BY <1>3, <1>10
<1>11. ASSUME NEW l \in Loads, BatchSettles(l)
       PROVE  graph' = graph /\ added' = added
  BY <1>11 DEF BatchSettles, Drop
<1>12. ASSUME NEW l \in Loads, NEW i \in pending[l], SourceSettles(l, i)
       PROVE  graph' = graph /\ added' = added
  BY <1>12 DEF SourceSettles
<1>13. ASSUME NEW l \in Loads, NEW d \in Versions, LoadPackage(l, d)
       PROVE  graph' = graph /\ added' = added
  BY <1>13 DEF LoadPackage
<1>14. ASSUME \/ Disconnect \/ UNCHANGED vars
              \/ \E n \in Coordinates : Inspect(n)
       PROVE  graph' = graph /\ added' = added
  BY <1>14 DEF Disconnect, Inspect, vars
<1>15. QED
  BY <1>4, <1>5, <1>6, <1>7, <1>8, <1>9, <1>10, <1>11, <1>12, <1>13, <1>14
     DEF Next, Call, Continue

\* A document that addDocument refuses, or that never arrives, leaves nothing
\* behind: the graph is the documents added since it was cleared.
THEOREM DocumentsAreWhole == Spec => []WholeDocumentsOnly
<1>1. Init => WholeDocumentsOnly
  BY NoDocuments DEF Init, WholeDocumentsOnly, NodesOf, AllEdgesOf, NoGraph
<1>2. Spec => []Typed
  BY InitTyped, TypedStep, PTL DEF Spec
<1>3. QED
  BY <1>1, <1>2, WholeStep, PTL DEF Spec

-----------------------------------------------------------------------------
(* The limits. *)

LEMMA UnionBound ==
  ASSUME NEW S, NEW T, IsFiniteSet(S), IsFiniteSet(T)
  PROVE  /\ IsFiniteSet(S \cup T)
         /\ Cardinality(S \cup T) <= Cardinality(S) + Cardinality(T)
         /\ Cardinality(S) \in Nat /\ Cardinality(T) \in Nat
         /\ Cardinality(S \cup T) \in Nat
<1>1. /\ IsFiniteSet(S \cup T)
      /\ Cardinality(S \cup T) =
           Cardinality(S) + Cardinality(T) - Cardinality(S \cap T)
  BY FS_Union
<1>2. IsFiniteSet(S \cap T)
  BY FS_Intersection
<1>3. /\ Cardinality(S) \in Nat /\ Cardinality(T) \in Nat
      /\ Cardinality(S \cap T) \in Nat
  BY <1>2, FS_CardinalityType
<1>4. \A a, b, c, i \in Nat : c = a + b - i => c <= a + b
  OBVIOUS
<1>5. Cardinality(S \cup T) \in Nat
  BY <1>1, FS_CardinalityType
<1>6. Cardinality(S \cup T) <= Cardinality(S) + Cardinality(T)
  BY <1>1, <1>3, <1>4, <1>5
<1>7. QED
  BY <1>1, <1>3, <1>5, <1>6

LEMMA SizeFacts ==
  ASSUME NEW g, GraphOK(g), NEW d \in Documents, NEW asRoot \in BOOLEAN,
         Accepts(g, d)
  PROVE  /\ Cardinality(AddDocument(g, d, asRoot).nodes) <= MaxNodes
         /\ Cardinality(AddDocument(g, d, asRoot).edges) <= MaxEdges
<1>1. /\ IsFiniteSet(g.nodes) /\ IsFiniteSet(Deps[d]) /\ IsFiniteSet({Root[d]})
      /\ Cardinality({Root[d]}) = 1
  <2>1. g.nodes \subseteq Coordinates /\ Deps[d] \subseteq Coordinates
    BY ConstantsAssumption DEF GraphOK, Graph
  <2>2. QED
    BY <2>1, ConstantsAssumption, FS_Subset, FS_Singleton
<1>2. /\ IsFiniteSet(g.edges) /\ IsFiniteSet(EdgesOf(d))
      /\ Cardinality(EdgesOf(d)) = Cardinality(Deps[d])
  <2>1. IsFiniteSet(Coordinates \X Coordinates)
    BY ConstantsAssumption, FS_Product
  <2>2. g.edges \subseteq Coordinates \X Coordinates
    BY DEF GraphOK, Graph
  <2>3. IsFiniteSet(g.edges)
    BY <2>1, <2>2, FS_Subset
  <2>4. /\ IsFiniteSet(EdgesOf(d))
        /\ Cardinality(EdgesOf(d)) = Cardinality({Root[d]}) * Cardinality(Deps[d])
    BY <1>1, FS_Product DEF EdgesOf
  <2>5. Cardinality(Deps[d]) \in Nat
    BY <1>1, FS_CardinalityType
  <2>6. QED
    BY <1>1, <2>3, <2>4, <2>5
<1>3. /\ Cardinality(g.nodes) + 1 + Cardinality(Deps[d]) <= MaxNodes
      /\ Cardinality(g.edges) + Cardinality(Deps[d]) <= MaxEdges
  BY DEF Accepts, Fits
<1>4. /\ IsFiniteSet(g.nodes \cup {Root[d]})
      /\ Cardinality(g.nodes \cup {Root[d]}) <= Cardinality(g.nodes) + 1
      /\ Cardinality(g.nodes \cup {Root[d]}) \in Nat /\ Cardinality(g.nodes) \in Nat
  BY <1>1, UnionBound
<1>5. LET nodes == (g.nodes \cup {Root[d]}) \cup Deps[d]
      IN  /\ Cardinality(nodes) <= Cardinality(g.nodes \cup {Root[d]}) + Cardinality(Deps[d])
          /\ Cardinality(nodes) \in Nat /\ Cardinality(Deps[d]) \in Nat
  BY <1>1, <1>4, UnionBound
<1>6. LET edges == g.edges \cup EdgesOf(d)
      IN  /\ Cardinality(edges) <= Cardinality(g.edges) + Cardinality(EdgesOf(d))
          /\ Cardinality(edges) \in Nat /\ Cardinality(g.edges) \in Nat
  BY <1>2, UnionBound
<1>7. /\ AddDocument(g, d, asRoot).nodes = (g.nodes \cup {Root[d]}) \cup Deps[d]
      /\ AddDocument(g, d, asRoot).edges = g.edges \cup EdgesOf(d)
  BY DEF AddDocument, With
<1>8. MaxNodes \in Nat /\ MaxEdges \in Nat
  BY ConstantsAssumption
<1>9. Cardinality(AddDocument(g, d, asRoot).nodes) <= MaxNodes
  BY <1>3, <1>4, <1>5, <1>7, <1>8
<1>10. Cardinality(AddDocument(g, d, asRoot).edges) <= MaxEdges
  BY <1>2, <1>3, <1>5, <1>6, <1>7, <1>8
<1>11. QED
  BY <1>9, <1>10

\* Adding, or refusing, keeps a graph within the limits.
WithinLimitsOf(g) ==
  Cardinality(g.nodes) <= MaxNodes /\ Cardinality(g.edges) <= MaxEdges

LEMMA LimitsFacts ==
  ASSUME NEW g, GraphOK(g), WithinLimitsOf(g), NEW d \in Documents,
         NEW asRoot \in BOOLEAN
  PROVE  WithinLimitsOf(AddDocument(g, d, asRoot))
<1>1. CASE Accepts(g, d)
  BY <1>1, SizeFacts DEF WithinLimitsOf
<1>2. CASE ~Accepts(g, d)
  BY <1>2 DEF AddDocument
<1>3. QED
  BY <1>1, <1>2

LEMMA LimitsStep == Typed /\ WithinLimits /\ [Next]_vars => WithinLimits'
<1> SUFFICES ASSUME Typed, WithinLimitsOf(graph), [Next]_vars
             PROVE  WithinLimitsOf(graph')
  BY DEF WithinLimits, WithinLimitsOf
<1> USE DEF Typed
<1>1. GraphOK(graph)
  BY DEF TypeOK, GraphOK
<1>2. GraphOK(NoGraph) /\ WithinLimitsOf(NoGraph)
  BY NoGraphFacts, FS_EmptySet, ConstantsAssumption DEF NoGraph, WithinLimitsOf
<1>3. ASSUME NEW l \in Loads, NEW n \in Coordinates, ExpandLatest(l, n)
      PROVE  WithinLimitsOf(graph')
  <2>1. graph'.nodes = graph.nodes /\ graph'.edges = graph.edges
    BY <1>1, <1>3 DEF ExpandLatest, GraphOK, Graph
  <2>2. QED
    BY <2>1 DEF WithinLimitsOf
<1>4. ASSUME NEW l \in Loads PROVE WithinLimitsOf(Collapsed(l)) /\ GraphOK(Collapsed(l))
  BY <1>1, <1>4, CollapsedFacts DEF WithinLimitsOf
<1>5. ASSUME NEW l \in Loads, PackageArrives(l)
      PROVE  WithinLimitsOf(graph')
  <2>1. load[l].doc \in Documents
    BY <1>5 DEF PackageArrives, Fetching, LoadOK
  <2>2. graph' = graph \/ graph' = AddDocument(NoGraph, load[l].doc, TRUE)
    BY <1>5 DEF PackageArrives, Drop
  <2>3. QED
    BY <1>2, <2>1, <2>2, LimitsFacts
<1>6. ASSUME NEW l \in Loads, ExpansionArrives(l)
      PROVE  WithinLimitsOf(graph')
  <2>1. load[l].doc \in Documents
    BY <1>6 DEF ExpansionArrives, Fetching, LoadOK
  <2>2. \/ graph' = graph \/ graph' = AddDocument(graph, load[l].doc, FALSE)
        \/ graph' = AddDocument(Collapsed(l), load[l].doc, FALSE)
    BY <1>6 DEF ExpansionArrives, Drop
  <2>3. QED
    BY <1>1, <1>4, <2>1, <2>2, LimitsFacts
<1>7. ASSUME NEW l \in Loads, ReadFails(l)
      PROVE  WithinLimitsOf(graph')
  BY <1>4, <1>7 DEF ReadFails, Drop
<1>8. ASSUME NEW l \in Loads, AddSource(l)
      PROVE  WithinLimitsOf(graph')
  <2> DEFINE d == SourcesOf(l)[at[l]]
  <2>1. d \in Documents
    BY <1>8, SourceFacts DEF AddSource, LoadOK, TypeOK
  <2>2. graph' = graph \/ graph' = AddDocument(graph, d, TRUE)
    BY <1>8 DEF AddSource
  <2> HIDE DEF d
  <2>3. QED
    BY <1>1, <2>1, <2>2, LimitsFacts
<1>9. ASSUME NEW l \in Loads, NEW c \in Channels, LoadScope(l, c)
      PROVE  WithinLimitsOf(graph')
  BY <1>2, <1>9 DEF LoadScope
<1>10. ASSUME NEW l \in Loads, BatchSettles(l)
       PROVE  graph' = graph
  BY <1>10 DEF BatchSettles, Drop
<1>11. ASSUME NEW l \in Loads, NEW i \in pending[l], SourceSettles(l, i)
       PROVE  graph' = graph
  BY <1>11 DEF SourceSettles
<1>12. ASSUME NEW l \in Loads, NEW d \in Versions, LoadPackage(l, d)
       PROVE  graph' = graph
  BY <1>12 DEF LoadPackage
<1>13. ASSUME \/ Disconnect \/ UNCHANGED vars
              \/ \E n \in Coordinates : Inspect(n)
       PROVE  graph' = graph
  BY <1>13 DEF Disconnect, Inspect, vars
<1>14. QED
  BY <1>3, <1>5, <1>6, <1>7, <1>8, <1>9, <1>10, <1>11, <1>12, <1>13
     DEF Next, Call, Continue

\* assertDocumentCapacity, called before each addition only, keeps the graph
\* within the browser limits whatever loads and expansions overlap.
THEOREM LimitsAreKept == Spec => []WithinLimits
<1>1. Init => WithinLimits
  BY FS_EmptySet, ConstantsAssumption DEF Init, WithinLimits, NoGraph
<1>2. Spec => []Typed
  BY InitTyped, TypedStep, PTL DEF Spec
<1>3. QED
  BY <1>1, <1>2, LimitsStep, PTL DEF Spec

\* A document is added whole and within the limits, or not at all.
THEOREM DocumentsAreWholeOrRefused == Spec => []DocumentsFitWhole
BY DocumentsAreWhole, LimitsAreKept, PTL DEF DocumentsFitWhole

-----------------------------------------------------------------------------
(* The order of loads. *)

Chooses(l) == load[l].kind \in {"package", "scope"}

\* What is in the graph was asked for after the load that cleared it.
AddedOK ==
  \A a \in added :
    /\ pc[a[2]] # "idle" /\ cleared # None
    /\ load[a[2]].seq >= load[cleared].seq

ClearedOK ==
  /\ cleared # None => pc[cleared] # "idle"
  /\ cleared = None =>
       /\ graph = NoGraph /\ button = None
       /\ \A l \in Loads : load[l].kind \notin {"scope", "expand"}

\* Each load of the controls has a sequence number of its own.
ChoicesOK ==
  \A l, m \in Loads :
    Chooses(l) /\ Chooses(m) /\ load[l].seq = load[m].seq => l = m

Ordered == AddedOK /\ ClearedOK /\ ChoicesOK /\ LastChoiceIsShown

LEMMA OrderedStep == Typed /\ Ordered /\ [Next]_vars => Ordered'
<1> SUFFICES ASSUME Typed, Ordered, [Next]_vars PROVE Ordered'
  OBVIOUS
<1> USE DEF Typed, Ordered
<1>1. /\ load \in [Loads -> Load] /\ added \subseteq Documents \X Loads
      /\ cleared \in Loads \cup {None} /\ None \notin Loads
      /\ loadSequence \in Nat
      /\ pc \in [Loads -> {"idle", "fetching", "adding"} \cup Ended]
      /\ \A l \in Loads : load[l].seq \in Nat /\ load[l].seq <= loadSequence
      /\ \A a \in added : a[2] \in Loads
  BY ConstantsAssumption DEF TypeOK, LoadOK, Load
\* A load moves on or ends, and nothing is added.
<1>2. ASSUME NEW l \in Loads, NEW place, pc[l] # "idle",
             pc' = [pc EXCEPT ![l] = place], place \notin {"idle", "loaded"},
             UNCHANGED <<load, loadSequence, chosen, cleared, added>>,
             graph'.roots = graph.roots,
             cleared = None => graph' = graph /\ button' = button
      PROVE  Ordered'
  <2>1. AddedOK'
    BY <1>1, <1>2 DEF AddedOK
  <2>2. ClearedOK'
    BY <1>1, <1>2 DEF ClearedOK
  <2>3. ChoicesOK'
    BY <1>2 DEF ChoicesOK, Chooses
  <2>4. LastChoiceIsShown'
    BY <1>1, <1>2 DEF LastChoiceIsShown, Superseded
  <2>5. QED
    BY <2>1, <2>2, <2>3, <2>4
<1>3. ASSUME UNCHANGED <<load, loadSequence, chosen, cleared, added, graph, pc>>,
             cleared = None => button' = None
      PROVE  Ordered'
  BY <1>3 DEF AddedOK, ClearedOK, ChoicesOK, Chooses, LastChoiceIsShown, Superseded
<1>4. ASSUME NEW l \in Loads, NEW kind, kind # "none", Fetching(l, kind), Drop(l)
      PROVE  Ordered'
  <2>1. pc[l] # "idle" /\ pc' = [pc EXCEPT ![l] = "dropped"]
    BY <1>4 DEF Fetching, Drop, Go
  <2>2. /\ UNCHANGED <<load, loadSequence, chosen, cleared, added>>
        /\ graph' = graph /\ button' = button
    BY <1>4 DEF Fetching, Drop
  <2>3. graph'.roots = graph.roots /\ "dropped" \notin {"idle", "loaded"}
    BY <2>2
  <2>4. QED
    BY <1>2, <2>1, <2>2, <2>3
\* A load of the controls starts.
<1>5. ASSUME NEW l \in Loads, NEW kind \in {"package", "scope"}, NEW d, NEW c,
             Supersede(l, kind, d, c)
      PROVE  /\ ChoicesOK' /\ pc[l] = "idle"
             /\ \A m \in Loads \ {l} : load'[m] = load[m]
             /\ load'[l].kind = kind
             /\ \A m \in Loads \ {l} : Superseded(m)'
  <2>1. /\ load' = [load EXCEPT ![l] = load'[l]]
        /\ load'[l].seq = loadSequence + 1 /\ load'[l].kind = kind
        /\ loadSequence' = loadSequence + 1 /\ pc[l] = "idle"
    BY <1>1, <1>5 DEF Supersede
  <2>2. \A m \in Loads \ {l} :
          load'[m] = load[m] /\ load'[m].seq < load'[l].seq
    BY <1>1, <2>1
  <2>3. ChoicesOK'
    BY <1>1, <2>1, <2>2 DEF ChoicesOK, Chooses
  <2>4. \A m \in Loads \ {l} : Superseded(m)'
    BY <1>1, <2>1, <2>2 DEF Superseded
  <2>5. QED
    BY <2>1, <2>2, <2>3, <2>4
<1>6. ASSUME NEW l \in Loads, NEW d \in Versions, LoadPackage(l, d)
      PROVE  Ordered'
  <2>1. Supersede(l, "package", d, None)
    BY <1>6 DEF LoadPackage
  <2>2. /\ ChoicesOK' /\ pc[l] = "idle" /\ load'[l].kind = "package"
        /\ \A m \in Loads \ {l} : load'[m] = load[m] /\ Superseded(m)'
    BY <1>5, <2>1
  <2>3. /\ UNCHANGED <<button, graph, added, cleared>>
        /\ pc' = [pc EXCEPT ![l] = "fetching"]
    BY <1>6 DEF LoadPackage, Go
  <2>4. cleared # l /\ \A a \in added : a[2] # l
    BY <1>1, <2>2 DEF AddedOK, ClearedOK
  <2>5. AddedOK'
    BY <1>1, <2>2, <2>3, <2>4 DEF AddedOK
  <2>6. ClearedOK'
    BY <1>1, <2>2, <2>3, <2>4 DEF ClearedOK
  <2>7. LastChoiceIsShown'
    BY <1>1, <2>2, <2>3 DEF LastChoiceIsShown
  <2>8. QED
    BY <2>2, <2>5, <2>6, <2>7
<1>7. ASSUME NEW l \in Loads, NEW c \in Channels, LoadScope(l, c)
      PROVE  Ordered'
  <2>1. Supersede(l, "scope", None, c)
    BY <1>7 DEF LoadScope
  <2>2. /\ ChoicesOK' /\ load'[l].kind = "scope"
        /\ \A m \in Loads \ {l} : load'[m] = load[m] /\ Superseded(m)'
    BY <1>5, <2>1
  <2>3. /\ added' = {} /\ cleared' = l
        /\ pc' = [pc EXCEPT ![l] = "fetching"] \/ pc' = [pc EXCEPT ![l] = "failed"]
    BY <1>7 DEF LoadScope, Go, Fail
  <2>4. AddedOK' /\ ClearedOK'
    BY <1>1, <2>3 DEF AddedOK, ClearedOK
  <2>5. LastChoiceIsShown'
    BY <1>1, <2>2, <2>3 DEF LastChoiceIsShown
  <2>6. QED
    BY <2>2, <2>4, <2>5
<1>8. ASSUME NEW l \in Loads, NEW n \in Coordinates, ExpandLatest(l, n)
      PROVE  Ordered'
  <2>1. /\ pc[l] = "idle" /\ button # None
        /\ load' = [load EXCEPT ![l] = load'[l]] /\ load'[l].kind = "expand"
        /\ pc' = [pc EXCEPT ![l] = "fetching"]
    BY <1>1, <1>8 DEF ExpandLatest, Go
  <2>2. /\ UNCHANGED <<loadSequence, chosen, added, cleared>>
        /\ graph'.roots = graph.roots
    BY <1>8 DEF ExpandLatest, TypeOK, Graph
  <2>3. \A m \in Loads \ {l} : load'[m] = load[m] /\ pc'[m] = pc[m]
    BY <1>1, <2>1
  <2>4. cleared # None /\ cleared # l /\ \A a \in added : a[2] # l
    BY <1>1, <2>1 DEF AddedOK, ClearedOK
  <2>5. AddedOK' /\ ClearedOK'
    BY <1>1, <2>1, <2>2, <2>3, <2>4 DEF AddedOK, ClearedOK
  <2>6. ChoicesOK'
    BY <1>1, <2>1, <2>3 DEF ChoicesOK, Chooses
  <2>7. LastChoiceIsShown'
    BY <1>1, <2>1, <2>2, <2>3 DEF LastChoiceIsShown, Superseded
  <2>8. QED
    BY <2>5, <2>6, <2>7
<1>9. ASSUME NEW l \in Loads, PackageArrives(l)
      PROVE  Ordered'
  <2>1. CASE Superseded(l) /\ Drop(l)
    BY <1>4, <1>9, <2>1 DEF PackageArrives
  <2>2. CASE ~(Superseded(l) /\ Drop(l))
    <3> DEFINE d == load[l].doc
    <3>1. /\ load[l].kind = "package" /\ load[l].seq = loadSequence
          /\ UNCHANGED <<load, loadSequence>> /\ cleared' = l
          /\ graph' = AddDocument(NoGraph, d, TRUE)
      BY <1>9, <2>2 DEF PackageArrives, Fetching, Superseded
    <3>2. \/ /\ added' = {<<d, l>>} /\ pc' = [pc EXCEPT ![l] = "loaded"]
             /\ chosen' = d /\ Accepts(NoGraph, d)
          \/ added' = {} /\ pc' = [pc EXCEPT ![l] = "failed"]
      BY <1>9, <2>2 DEF PackageArrives, Go, Fail
    <3>3. AddedOK' /\ ClearedOK'
      <4>1. pc'[l] # "idle" /\ cleared' # None
        BY <1>1, <3>1, <3>2
      <4>2. \A a \in added' : a[2] = l
        BY <3>2
      <4>3. AddedOK'
        BY <1>1, <3>1, <4>1, <4>2 DEF AddedOK
      <4>4. ClearedOK'
        BY <3>1, <4>1 DEF ClearedOK
      <4>5. QED
        BY <4>3, <4>4
    <3>4. ChoicesOK'
      BY <3>1 DEF ChoicesOK, Chooses
    <3>5. Accepts(NoGraph, d) => graph'.roots = {Root[d]}
      BY <3>1 DEF AddDocument, With, NoGraph
    <3> HIDE DEF d
    <3>6. \A m \in Loads : load[m].kind = "package" /\ ~Superseded(m)' => m = l
      BY <3>1 DEF ChoicesOK, Chooses, Superseded
    <3>7. LastChoiceIsShown'
      BY <1>1, <3>1, <3>2, <3>5, <3>6 DEF LastChoiceIsShown, d
    <3>8. QED
      BY <3>3, <3>4, <3>7
  <2>3. QED
    BY <2>1, <2>2
\* A document joins the graph.
<1>10. ASSUME NEW l \in Loads, load[l].kind \in {"expand", "scope"}, NEW d,
              load[l].seq = loadSequence, pc[l] # "idle",
              pc' = pc \/ \E place : pc' = [pc EXCEPT ![l] = place] /\ place # "idle",
              UNCHANGED <<load, loadSequence, chosen, cleared>>,
              added' = added \/ added' = added \cup {<<d, l>>},
              load[l].kind = "expand" => graph'.roots = graph.roots
       PROVE  Ordered'
  <2>1. cleared # None /\ cleared \in Loads /\ load[l].seq >= load[cleared].seq
    BY <1>1, <1>10 DEF ClearedOK
  <2>2. \A m \in Loads : pc'[m] = "idle" => pc[m] = "idle"
    BY <1>1, <1>10
  <2>3. \A m \in Loads \ {l} : pc'[m] = pc[m]
    BY <1>1, <1>10
  <2>4. AddedOK'
    <3>1. \A a \in added' : a \in added \/ a[2] = l
      BY <1>10
    <3>2. QED
      BY <1>1, <1>10, <2>1, <2>2, <3>1 DEF AddedOK
  <2>5. ClearedOK'
    BY <1>1, <1>10, <2>1, <2>2 DEF ClearedOK
  <2>6. ChoicesOK'
    BY <1>10 DEF ChoicesOK, Chooses
  <2>7. LastChoiceIsShown'
    <3>1. CASE load[l].kind = "expand"
      BY <1>1, <1>10, <2>3, <3>1 DEF LastChoiceIsShown, Superseded
    <3>2. CASE load[l].kind = "scope"
      <4>1. \A m \in Loads : load[m].kind = "package" => load[m].seq # loadSequence
        BY <1>10, <3>2 DEF ChoicesOK, Chooses
      <4>2. QED
        BY <1>10, <4>1 DEF LastChoiceIsShown, Superseded
    <3>3. QED
      BY <1>10, <3>1, <3>2
  <2>8. QED
    BY <2>4, <2>5, <2>6, <2>7
<1>11. ASSUME NEW l \in Loads, ExpansionArrives(l)
       PROVE  Ordered'
  <2>1. CASE Superseded(l) /\ Drop(l)
    BY <1>4, <1>11, <2>1 DEF ExpansionArrives
  <2>2. CASE ~(Superseded(l) /\ Drop(l))
    <3>1. /\ load[l].kind = "expand" /\ load[l].seq = loadSequence
          /\ pc[l] # "idle" /\ UNCHANGED <<load, loadSequence, chosen, cleared>>
      BY <1>11, <2>2 DEF ExpansionArrives, Fetching, Superseded
    <3>2. /\ added' = added \/ added' = added \cup {<<load[l].doc, l>>}
          /\ \E place : pc' = [pc EXCEPT ![l] = place] /\ place # "idle"
      BY <1>11, <2>2 DEF ExpansionArrives, Go, Fail
    <3>3. graph'.roots = graph.roots
      <4>1. \A g, d : AddDocument(g, d, FALSE).roots = g.roots
        BY DEF AddDocument, With
      <4>2. Collapsed(l).roots = graph.roots
        BY CollapsedFacts DEF TypeOK, GraphOK
      <4>3. QED
        BY <1>11, <2>2, <4>1, <4>2 DEF ExpansionArrives
    <3>4. QED
      BY <1>10, <3>1, <3>2, <3>3
  <2>3. QED
    BY <2>1, <2>2
<1>12. ASSUME NEW l \in Loads, AddSource(l)
       PROVE  Ordered'
  <2>1. /\ load[l].kind = "scope" /\ load[l].seq = loadSequence /\ pc[l] # "idle"
        /\ UNCHANGED <<load, loadSequence, chosen, cleared>>
    BY <1>12 DEF AddSource, LoadOK
  <2>2. /\ added' = added \/ added' = added \cup {<<SourcesOf(l)[at[l]], l>>}
        /\ pc' = pc \/ \E place : pc' = [pc EXCEPT ![l] = place] /\ place # "idle"
    BY <1>12 DEF AddSource, Go
  <2>3. QED
    BY <1>10, <2>1, <2>2
<1>13. ASSUME NEW l \in Loads, ReadFails(l)
       PROVE  Ordered'
  <2>1. PICK kind \in {"package", "expand"} : Fetching(l, kind)
    BY <1>13 DEF ReadFails
  <2>2. CASE Superseded(l) /\ Drop(l)
    BY <1>4, <2>1, <2>2
  <2>3. CASE ~(Superseded(l) /\ Drop(l))
    <3>1. /\ pc[l] # "idle" /\ pc' = [pc EXCEPT ![l] = "failed"]
          /\ UNCHANGED <<load, loadSequence, chosen, cleared, added>>
      BY <1>13, <2>1, <2>3 DEF ReadFails, Fetching, Fail, Go
    <3>2. graph' = graph \/ graph' = Collapsed(l)
      BY <1>13, <2>3 DEF ReadFails
    <3>3. graph'.roots = graph.roots
      BY <3>2, CollapsedFacts DEF TypeOK, GraphOK
    <3>4. cleared = None => graph' = graph /\ button' = button
      BY <1>13, <2>1, <2>3 DEF ReadFails, ClearedOK, Fetching, Render
    <3>5. "failed" \notin {"idle", "loaded"}
      OBVIOUS
    <3>6. QED
      BY <1>2, <3>1, <3>3, <3>4, <3>5
  <2>4. QED
    BY <2>2, <2>3
<1>14. ASSUME NEW l \in Loads, BatchSettles(l)
       PROVE  Ordered'
  <2>1. CASE Superseded(l) /\ Drop(l)
    BY <1>4, <1>14, <2>1 DEF BatchSettles
  <2>2. CASE ~(Superseded(l) /\ Drop(l))
    <3>1. /\ pc[l] # "idle" /\ pc' = [pc EXCEPT ![l] = "adding"]
          /\ UNCHANGED <<load, loadSequence, chosen, cleared, added>>
          /\ graph' = graph /\ button' = button
      BY <1>14, <2>2 DEF BatchSettles, Fetching, Go
    <3>2. graph'.roots = graph.roots /\ "adding" \notin {"idle", "loaded"}
      BY <3>1
    <3>3. QED
      BY <1>2, <3>1, <3>2
  <2>3. QED
    BY <2>1, <2>2
<1>15. ASSUME NEW l \in Loads, NEW i \in pending[l], SourceSettles(l, i)
       PROVE  Ordered'
  <2>1. /\ UNCHANGED <<load, loadSequence, chosen, cleared, added, graph, pc>>
        /\ button' = button
    BY <1>15 DEF SourceSettles, Fetching
  <2>2. QED
    BY <1>3, <2>1 DEF ClearedOK
<1>16. ASSUME NEW n \in Coordinates, Inspect(n) PROVE Ordered'
  <2>1. /\ UNCHANGED <<load, loadSequence, chosen, cleared, added, graph, pc>>
        /\ n \in graph.nodes
    BY <1>16 DEF Inspect
  <2>2. cleared # None
    BY <2>1 DEF ClearedOK, NoGraph
  <2>3. QED
    BY <1>3, <2>1, <2>2
<1>17. ASSUME Disconnect PROVE Ordered'
  <2>1. /\ UNCHANGED <<load, chosen, cleared, added, graph, pc>>
        /\ button' = None /\ loadSequence' = loadSequence + 1
    BY <1>17 DEF Disconnect
  <2>2. \A l \in Loads : Superseded(l)'
    BY <1>1, <2>1 DEF Superseded
  <2>3. AddedOK' /\ ClearedOK' /\ ChoicesOK'
    BY <2>1 DEF AddedOK, ClearedOK, ChoicesOK, Chooses
  <2>4. LastChoiceIsShown'
    BY <2>1, <2>2 DEF LastChoiceIsShown
  <2>5. QED
    BY <2>3, <2>4
<1>18. ASSUME UNCHANGED vars PROVE Ordered'
  BY <1>3, <1>18 DEF vars, ClearedOK
<1>19. QED
  BY <1>6, <1>7, <1>8, <1>9, <1>11, <1>12, <1>13, <1>14, <1>15, <1>16, <1>17, <1>18
     DEF Next, Call, Continue

LEMMA OrderedAlways == Spec => []Ordered
<1>1. Init => Ordered
  <2>1. Init => AddedOK /\ ClearedOK
    BY DEF Init, AddedOK, ClearedOK, NoLoad
  <2>2. Init => ChoicesOK /\ LastChoiceIsShown
    BY DEF Init, ChoicesOK, Chooses, LastChoiceIsShown, NoLoad
  <2>3. QED
    BY <2>1, <2>2 DEF Ordered
<1>2. Spec => []Typed
  BY InitTyped, TypedStep, PTL DEF Spec
<1>3. QED
  BY <1>1, <1>2, OrderedStep, PTL DEF Spec

\* A load or an expansion that was superseded adds nothing to the graph of its
\* successor, in whatever order their answers arrive.
THEOREM LateAnswersLeaveNoTrace == Spec => []NothingSuperseded
<1>1. Ordered => NothingSuperseded
  BY DEF Ordered, AddedOK, NothingSuperseded
<1>2. QED
  BY <1>1, OrderedAlways, PTL

\* When the newest load of a package's version has completed, the graph shown is
\* that version's and the version control says so.
THEOREM TheLastChoiceIsShown == Spec => []LastChoiceIsShown
<1>1. Ordered => LastChoiceIsShown
  BY DEF Ordered
<1>2. QED
  BY <1>1, OrderedAlways, PTL

\* The newest load decides what is shown, however the answers of older ones and
\* of expansions come in between.
THEOREM TheNewestLoadRules == Spec => []NewestLoadRules
BY LateAnswersLeaveNoTrace, TheLastChoiceIsShown, PTL DEF NewestLoadRules

-----------------------------------------------------------------------------
(* Marks of expanded nodes. *)

LEMMA RetryStep ==
  Typed /\ FailedExpansionCanBeRetried /\ [Next]_vars => FailedExpansionCanBeRetried'
<1> SUFFICES ASSUME Typed, FailedExpansionCanBeRetried, [Next]_vars
             PROVE  FailedExpansionCanBeRetried'
  OBVIOUS
<1> USE DEF Typed
<1>1. /\ GraphOK(graph) /\ load \in [Loads -> Load]
      /\ pc \in [Loads -> {"idle", "fetching", "adding"} \cup Ended]
      /\ \A l \in Loads : load[l].kind = "expand" => pc[l] # "idle"
  BY DEF TypeOK, GraphOK, LoadOK
\* No mark is made without its document, and no expansion fails.
<1>2. ASSUME epoch' = epoch, added \subseteq added',
             \A m \in Loads : load[m].kind = "expand" => load'[m] = load[m],
             \A m \in Loads : pc'[m] = "failed" =>
               pc[m] = "failed" \/ load[m].kind # "expand",
             \A n \in graph'.expanded :
               n \in graph.expanded \/ \E a \in added' : Root[a[1]] = n
      PROVE  FailedExpansionCanBeRetried'
  <2>1. SUFFICES ASSUME NEW n \in graph.expanded
                 PROVE  \/ \E a \in added' : Root[a[1]] = n
                        \/ \E l \in Loads :
                             /\ load'[l].kind = "expand" /\ load'[l].node = n
                             /\ load'[l].epoch = epoch' /\ pc'[l] # "failed"
    BY <1>2 DEF FailedExpansionCanBeRetried
  <2>2. CASE \E a \in added : Root[a[1]] = n
    BY <1>2, <2>2
  <2>3. CASE \E l \in Loads : /\ load[l].kind = "expand" /\ load[l].node = n
                              /\ load[l].epoch = epoch /\ pc[l] # "failed"
    BY <1>2, <2>3
  <2>4. QED
    BY <2>2, <2>3 DEF FailedExpansionCanBeRetried
\* The load fails and unmarks its node.
<1>3. ASSUME NEW l \in Loads, pc' = [pc EXCEPT ![l] = "failed"],
             UNCHANGED <<epoch, added, load>>,
             \/ graph' = Collapsed(l)
             \/ load[l].kind # "expand" /\ graph' = graph
      PROVE  FailedExpansionCanBeRetried'
  <2>1. SUFFICES ASSUME NEW n \in graph'.expanded,
                        ~ \E a \in added : Root[a[1]] = n
                 PROVE  \E m \in Loads :
                          /\ load[m].kind = "expand" /\ load[m].node = n
                          /\ load[m].epoch = epoch /\ pc'[m] # "failed"
    BY <1>3 DEF FailedExpansionCanBeRetried
  <2>2. /\ n \in graph.expanded
        /\ load[l].kind = "expand" /\ load[l].epoch = epoch => n # load[l].node
    BY <1>1, <1>3 DEF Collapsed, GraphOK, Graph
  <2>3. PICK m \in Loads : /\ load[m].kind = "expand" /\ load[m].node = n
                           /\ load[m].epoch = epoch /\ pc[m] # "failed"
    BY <2>1, <2>2 DEF FailedExpansionCanBeRetried
  <2>4. m # l
    BY <2>2, <2>3
  <2>5. QED
    BY <1>1, <1>3, <2>3, <2>4
\* A document marks its own root only.
<1>4. ASSUME NEW g, NEW d, NEW asRoot
      PROVE  AddDocument(g, d, asRoot).expanded \subseteq
               IF Accepts(g, d) THEN g.expanded \cup {Root[d]} ELSE g.expanded
  BY DEF AddDocument, With
<1>5. ASSUME NEW l \in Loads, PackageArrives(l), ~(Superseded(l) /\ Drop(l))
      PROVE  FailedExpansionCanBeRetried'
  <2> DEFINE d == load[l].doc
  <2>1. /\ graph' = AddDocument(NoGraph, d, TRUE)
        /\ Accepts(NoGraph, d) => added' = {<<d, l>>}
    BY <1>5 DEF PackageArrives
  <2>2. graph'.expanded \subseteq IF Accepts(NoGraph, d) THEN {Root[d]} ELSE {}
    <3>1. NoGraph.expanded = {}
      BY DEF NoGraph
    <3>2. QED
      BY <1>4, <2>1, <3>1
  <2>3. ASSUME Accepts(NoGraph, d)
        PROVE  \E a \in added' : Root[a[1]] = Root[d]
    <3>1. <<d, l>> \in added' /\ <<d, l>>[1] = d
      BY <2>1, <2>3
    <3> HIDE DEF d
    <3>2. QED
      BY <3>1
  <2> HIDE DEF d
  <2>4. QED
    BY <2>2, <2>3 DEF FailedExpansionCanBeRetried
<1>6. ASSUME NEW l \in Loads, NEW c \in Channels, LoadScope(l, c)
      PROVE  FailedExpansionCanBeRetried'
  BY <1>6 DEF LoadScope, NoGraph, FailedExpansionCanBeRetried
<1>7. ASSUME NEW l \in Loads, NEW n \in Coordinates, ExpandLatest(l, n)
      PROVE  FailedExpansionCanBeRetried'
  <2>1. /\ pc[l] = "idle" /\ pc' = [pc EXCEPT ![l] = "fetching"]
        /\ load' = [load EXCEPT ![l] = load'[l]]
        /\ load'[l].kind = "expand" /\ load'[l].node = n
        /\ load'[l].epoch = button[2]
        /\ epoch' = epoch /\ added' = added
    BY <1>1, <1>7 DEF ExpandLatest, Go
  <2>2. \A m \in Loads : load[m].kind = "expand" => m # l
    BY <1>1, <2>1
  <2>3. CASE button[2] # epoch
    <3>1. graph' = graph
      BY <1>7, <2>3 DEF ExpandLatest
    <3>2. QED
      BY <1>1, <1>2, <2>1, <2>2, <3>1
  <2>4. CASE button[2] = epoch
    <3>1. graph'.expanded = graph.expanded \cup {n}
      BY <1>1, <1>7, <2>4 DEF ExpandLatest, GraphOK, Graph
    <3>2. SUFFICES ASSUME NEW k \in graph.expanded, k # n,
                          ~ \E a \in added : Root[a[1]] = k
                   PROVE  \E m \in Loads :
                            /\ load'[m].kind = "expand" /\ load'[m].node = k
                            /\ load'[m].epoch = epoch' /\ pc'[m] # "failed"
      BY <1>1, <2>1, <2>4, <3>1 DEF FailedExpansionCanBeRetried
    <3>3. PICK m \in Loads : /\ load[m].kind = "expand" /\ load[m].node = k
                             /\ load[m].epoch = epoch /\ pc[m] # "failed"
      BY <3>2 DEF FailedExpansionCanBeRetried
    <3>4. QED
      BY <1>1, <2>1, <2>2, <3>3
  <2>5. QED
    BY <2>3, <2>4
<1>8. ASSUME NEW l \in Loads, ExpansionArrives(l), ~(Superseded(l) /\ Drop(l))
      PROVE  FailedExpansionCanBeRetried'
  <2> DEFINE d == load[l].doc
  <2>1. epoch' = epoch /\ load' = load
    BY <1>8 DEF ExpansionArrives, Fetching
  <2>2. CASE Accepts(graph, d)
    <3>1. /\ graph' = AddDocument(graph, d, FALSE)
          /\ added' = added \cup {<<d, l>>} /\ pc' = [pc EXCEPT ![l] = "loaded"]
      BY <1>8, <2>2 DEF ExpansionArrives, Go
    <3>2. graph'.expanded \subseteq graph.expanded \cup {Root[d]}
      BY <1>4, <2>2, <3>1
    <3>3. <<d, l>> \in added' /\ <<d, l>>[1] = d
      BY <3>1
    <3> HIDE DEF d
    <3>4. QED
      BY <1>1, <1>2, <2>1, <3>1, <3>2, <3>3
  <2>3. CASE ~Accepts(graph, d)
    <3>1. /\ graph' = AddDocument(Collapsed(l), d, FALSE) /\ added' = added
          /\ pc' = [pc EXCEPT ![l] = "failed"]
      BY <1>8, <2>3 DEF ExpansionArrives, Go, Fail
    <3>2. ~Accepts(Collapsed(l), d)
      BY <1>1, <2>3, CollapsedFacts DEF Accepts, Fits
    <3>3. graph' = Collapsed(l)
      BY <3>1, <3>2 DEF AddDocument
    <3>4. QED
      BY <1>3, <2>1, <3>1, <3>3
  <2>4. QED
    BY <2>2, <2>3
<1>9. ASSUME NEW l \in Loads, ReadFails(l), ~(Superseded(l) /\ Drop(l))
      PROVE  FailedExpansionCanBeRetried'
  <2>1. /\ UNCHANGED <<epoch, added, load>> /\ pc' = [pc EXCEPT ![l] = "failed"]
        /\ graph' = IF load[l].kind = "expand" THEN Collapsed(l) ELSE graph
    BY <1>9 DEF ReadFails, Fetching, Fail, Go
  <2>2. QED
    BY <1>3, <2>1
<1>10. ASSUME NEW l \in Loads, Drop(l), load' = load
       PROVE  FailedExpansionCanBeRetried'
  <2>1. /\ epoch' = epoch /\ added' = added /\ graph' = graph
        /\ pc' = [pc EXCEPT ![l] = "dropped"]
    BY <1>10 DEF Drop, Go
  <2>2. QED
    BY <1>1, <1>2, <1>10, <2>1
<1>11. ASSUME NEW l \in Loads, AddSource(l)
       PROVE  FailedExpansionCanBeRetried'
  <2> DEFINE d == SourcesOf(l)[at[l]]
  <2>1. /\ epoch' = epoch /\ load' = load
        /\ \/ /\ Accepts(graph, d) /\ graph' = AddDocument(graph, d, TRUE)
              /\ added' = added \cup {<<d, l>>}
           \/ /\ ~Accepts(graph, d) /\ graph' = AddDocument(graph, d, TRUE)
              /\ added' = added
           \/ graph' = graph /\ added' = added
    BY <1>11 DEF AddSource
  <2>2. \/ pc' = pc \/ pc' = [pc EXCEPT ![l] = "loaded"]
        \/ pc' = [pc EXCEPT ![l] = "fetching"]
    BY <1>11 DEF AddSource, Go
  <2> HIDE DEF d
  <2>3. \A m \in Loads : pc'[m] = "failed" => pc[m] = "failed"
    BY <1>1, <2>2
  <2>4. \A n \in graph'.expanded :
          n \in graph.expanded \/ (n = Root[d] /\ added' = added \cup {<<d, l>>})
    BY <1>4, <2>1
  <2>5. \A n \in graph'.expanded :
          n \in graph.expanded \/ \E a \in added' : Root[a[1]] = n
    <3>1. <<d, l>>[1] = d
      OBVIOUS
    <3>2. added' = added \cup {<<d, l>>} => <<d, l>> \in added'
      OBVIOUS
    <3>3. QED
      BY <2>4, <3>1, <3>2
  <2>6. added \subseteq added'
    BY <2>1
  <2>7. QED
    BY <1>2, <2>1, <2>3, <2>5, <2>6
<1>12. ASSUME UNCHANGED <<epoch, added, graph>>,
              \A m \in Loads : load[m].kind = "expand" => load'[m] = load[m],
              \A m \in Loads : pc'[m] = "failed" => pc[m] = "failed"
       PROVE  FailedExpansionCanBeRetried'
  BY <1>2, <1>12
<1>13. ASSUME NEW l \in Loads, NEW d \in Versions, LoadPackage(l, d)
       PROVE  FailedExpansionCanBeRetried'
  <2>1. /\ UNCHANGED <<epoch, added, graph>> /\ pc[l] = "idle"
        /\ load' = [load EXCEPT ![l] = load'[l]]
        /\ pc' = [pc EXCEPT ![l] = "fetching"]
    BY <1>1, <1>13 DEF LoadPackage, Supersede, Go
  <2>2. \A m \in Loads : load[m].kind = "expand" => load'[m] = load[m]
    BY <1>1, <2>1
  <2>3. \A m \in Loads : pc'[m] = "failed" => pc[m] = "failed"
    BY <1>1, <2>1
  <2>4. QED
    BY <1>12, <2>1, <2>2, <2>3
<1>14. ASSUME NEW l \in Loads, BatchSettles(l), ~(Superseded(l) /\ Drop(l))
       PROVE  FailedExpansionCanBeRetried'
  <2>1. /\ UNCHANGED <<epoch, added, graph, load>>
        /\ pc' = [pc EXCEPT ![l] = "adding"]
    BY <1>14 DEF BatchSettles, Fetching, Go
  <2>2. \A m \in Loads : pc'[m] = "failed" => pc[m] = "failed"
    BY <1>1, <2>1
  <2>3. QED
    BY <1>12, <2>1, <2>2
<1>15. ASSUME \/ Disconnect \/ UNCHANGED vars
              \/ \E n \in Coordinates : Inspect(n)
              \/ \E l \in Loads : \E i \in pending[l] : SourceSettles(l, i)
       PROVE  FailedExpansionCanBeRetried'
  <2>1. UNCHANGED <<epoch, added, graph, load, pc>>
    BY <1>15 DEF Disconnect, vars, Inspect, SourceSettles, Fetching
  <2>2. QED
    BY <1>12, <2>1
<1>16. ASSUME NEW l \in Loads,
              \/ PackageArrives(l) \/ ExpansionArrives(l)
              \/ ReadFails(l) \/ BatchSettles(l)
       PROVE  load' = load
  BY <1>16 DEF PackageArrives, ExpansionArrives, ReadFails, BatchSettles, Fetching
<1>17. QED
  BY <1>5, <1>6, <1>7, <1>8, <1>9, <1>10, <1>11, <1>13, <1>14, <1>15, <1>16
     DEF Next, Call, Continue

\* A failed expansion unmarks its node, so that the inspector offers it again,
\* unless the document is there or another expansion of it is under way, was
\* superseded or has brought another package.
THEOREM ExpansionsCanBeRetried == Spec => []FailedExpansionCanBeRetried
<1>1. Init => FailedExpansionCanBeRetried
  BY DEF Init, FailedExpansionCanBeRetried, NoGraph
<1>2. Spec => []Typed
  BY InitTyped, TypedStep, PTL DEF Spec
<1>3. QED
  BY <1>1, <1>2, RetryStep, PTL DEF Spec

-----------------------------------------------------------------------------
(* The count of composed graphs. *)

\* Batches begin after the multiples of their size.
LEMMA BatchEnds ==
  ASSUME NEW B \in Nat \ {0}, NEW i \in Nat, i % B = 0
  PROVE  /\ (i + B) % B = 0
         /\ \A k \in i + 1 .. i + B - 1 : k % B # 0
<1>1. ASSUME NEW k \in Nat
      PROVE  k \div B \in Int /\ k = B * (k \div B) + (k % B)
  OBVIOUS
<1>2. ASSUME NEW q \in Int
      PROVE  (B * q) % B = 0
  OBVIOUS
<1>3. ASSUME NEW p \in Int, NEW q \in Int, B * p < B * q
      PROVE  p < q
  BY <1>3
<1> DEFINE n == i \div B
<1>4. n \in Int /\ i = B * n
  BY <1>1
<1> HIDE DEF n
<1>5. (i + B) % B = 0
  <2>1. PICK m \in Int : m = n + 1
    BY <1>4
  <2>2. i + B = B * m
    BY <1>4, <2>1
  <2>3. (B * m) % B = 0
    BY <1>2
  <2>4. QED
    BY <2>2, <2>3, Zenon
<1>6. ASSUME NEW k \in i + 1 .. i + B - 1, k % B = 0
      PROVE  FALSE
  <2> DEFINE m == k \div B
  <2>a. k \in Nat
    OBVIOUS
  <2>1. m \in Int /\ k = B * m
    BY <1>1, <1>6, <2>a
  <2> HIDE DEF m
  <2>2. B * n < B * m /\ B * m < B * (n + 1)
    BY <1>4, <2>1
  <2>3. n < m /\ m < n + 1
    BY <1>3, <1>4, <2>1, <2>2
  <2>4. QED
    BY <1>4, <2>1, <2>3
<1>7. QED
  BY <1>5, <1>6

\* What a load added itself.
Own(l) == {a \in added : a[2] = l}

\* The sources from i on that no end of a batch comes before.
Ahead(sources, i) ==
  {j \in i .. Len(sources) : \A k \in i .. j - 1 : k % BatchSize # 0}

\* The sources of the batch that failed and that the loop has not come to.
FailedAhead(l) == Ahead(SourcesOf(l), at[l]) \ (pending[l] \cup fetched[l])

\* A scope load that rules cleared the graph, and what it was asked for and has
\* dealt with is in the graph or counted; the failures of the batch are counted
\* before the loop comes to them.
CountOK(l) ==
  load[l].kind = "scope" =>
    /\ pc[l] \in {"fetching", "adding"} /\ ~Superseded(l) =>
         /\ cleared = l
         /\ pending[l] \subseteq Ahead(SourcesOf(l), at[l])
         /\ pending[l] \cap fetched[l] = {}
         /\ pc[l] = "adding" => pending[l] = {}
         /\ \A a \in Own(l) : \E j \in 1 .. at[l] - 1 : a[1] = SourcesOf(l)[j]
         /\ IsFiniteSet(Own(l))
         /\ Cardinality(Own(l)) + sourceFailures
              = at[l] - 1 + Cardinality(FailedAhead(l))
    /\ pc[l] = "loaded" /\ cleared = l =>
         Cardinality(Own(l)) = Len(SourcesOf(l)) - sourceFailures

Counted == \A l \in Loads : CountOK(l)

\* A batch is what is ahead of its first source.
LEMMA BatchIsAhead ==
  ASSUME NEW sources \in Seq(Documents), NEW i \in Nat, i % BatchSize = 0
  PROVE  Batch(sources, i + 1) = Ahead(sources, i + 1)
<1>1. BatchSize \in Nat \ {0} /\ Len(sources) \in Nat
  BY ConstantsAssumption
<1>2. /\ (i + BatchSize) % BatchSize = 0
      /\ \A k \in i + 1 .. i + BatchSize - 1 : k % BatchSize # 0
  BY <1>1, BatchEnds
<1>3. ASSUME NEW j \in Batch(sources, i + 1)
      PROVE  j \in Ahead(sources, i + 1)
  <2>1. j \in i + 1 .. i + BatchSize /\ j <= Len(sources)
    BY <1>1 DEF Batch
  <2>2. \A k \in i + 1 .. j - 1 : k \in i + 1 .. i + BatchSize - 1
    BY <1>1, <2>1
  <2>3. QED
    BY <1>1, <1>2, <2>1, <2>2 DEF Ahead
<1>4. ASSUME NEW j \in Ahead(sources, i + 1)
      PROVE  j \in Batch(sources, i + 1)
  <2>1. /\ j \in i + 1 .. Len(sources)
        /\ \A k \in i + 1 .. j - 1 : k % BatchSize # 0
    BY DEF Ahead
  <2>2. ~ (i + BatchSize \in i + 1 .. j - 1)
    BY <1>2, <2>1
  <2>3. j <= i + BatchSize
    BY <1>1, <2>1, <2>2
  <2>4. QED
    BY <1>1, <2>1, <2>3 DEF Batch
<1>5. QED
  BY <1>3, <1>4

\* Past a source that ends no batch, the same sources are ahead.
LEMMA AheadMovesOn ==
  ASSUME NEW sources \in Seq(Documents), NEW i \in Nat, i % BatchSize # 0
  PROVE  Ahead(sources, i + 1) = Ahead(sources, i) \ {i}
<1>1. Len(sources) \in Nat /\ BatchSize \in Nat \ {0}
  BY ConstantsAssumption
<1>2. ASSUME NEW j \in i + 1 .. Len(sources)
      PROVE  (\A k \in i .. j - 1 : k % BatchSize # 0)
               <=> (\A k \in i + 1 .. j - 1 : k % BatchSize # 0)
  <2>1. i .. j - 1 = {i} \cup i + 1 .. j - 1
    BY <1>1
  <2>2. QED
    BY <2>1, Zenon
<1>3. \A j : j \in i + 1 .. Len(sources) <=> j \in i .. Len(sources) /\ j # i
  BY <1>1
<1>4. QED
  BY <1>2, <1>3, Zenon DEF Ahead

\* Nothing is ahead of the end of a batch or of the channel.
LEMMA NothingAhead ==
  ASSUME NEW sources \in Seq(Documents), NEW i \in Nat \ {0},
         i % BatchSize = 0 \/ i = Len(sources)
  PROVE  Ahead(sources, i) \subseteq {i}
<1>1. Len(sources) \in Nat
  OBVIOUS
<1>2. ASSUME NEW j \in Ahead(sources, i), j # i
      PROVE  FALSE
  <2>1. j \in i .. Len(sources) /\ \A k \in i .. j - 1 : k % BatchSize # 0
    BY DEF Ahead
  <2>2. i \in i .. j - 1
    BY <1>1, <1>2, <2>1
  <2>3. QED
    BY <1>1, <1>2, <2>1, <2>2
<1>3. QED
  BY <1>2

LEMMA AheadIsFinite ==
  ASSUME NEW sources \in Seq(Documents), NEW i \in Nat
  PROVE  IsFiniteSet(Ahead(sources, i))
<1>1. IsFiniteSet(i .. Len(sources))
  BY FS_Interval
<1>2. QED
  BY <1>1, FS_Subset DEF Ahead

\* A step that leaves a load and the counter alone, or supersedes it.
LEMMA CountKept ==
  ASSUME NEW l \in Loads, CountOK(l),
         load'[l] = load[l], pc'[l] = pc[l],
         \/ Superseded(l)'
         \/ /\ loadSequence' = loadSequence /\ at'[l] = at[l]
            /\ pending'[l] = pending[l] /\ fetched'[l] = fetched[l],
         cleared' = cleared, sourceFailures' = sourceFailures,
         Own(l)' = Own(l)
  PROVE  CountOK(l)'
BY DEF CountOK, Superseded, FailedAhead, SourcesOf

\* The steps that count or add, of the load that rules; the others it leaves alone.
LEMMA OthersDoNotCount ==
  ASSUME Typed, Ordered, Counted, NEW l \in Loads,
         load[l].kind = "scope", pc[l] \in {"fetching", "adding"}, ~Superseded(l),
         cleared' = cleared, load' = load, loadSequence' = loadSequence,
         NEW m \in Loads \ {l}
  PROVE  pc'[m] = pc[m] => CountOK(m)'
<1>1. CountOK(l) /\ cleared = l
  BY DEF Counted, CountOK
<1>2. ASSUME load[m].kind = "scope" PROVE Superseded(m)
  BY <1>2 DEF Ordered, ChoicesOK, Chooses, Superseded
<1>3. QED
  BY <1>1, <1>2 DEF CountOK, Superseded

LEMMA SourceSettlesCounts ==
  ASSUME Typed, Ordered, Counted, NEW l \in Loads, NEW i \in pending[l],
         SourceSettles(l, i), ~Superseded(l)
  PROVE  Counted'
<1>1. /\ load[l].kind = "scope" /\ pc[l] = "fetching"
      /\ UNCHANGED <<load, loadSequence, cleared, pc, at, added>>
      /\ pending' = [pending EXCEPT ![l] = @ \ {i}]
      /\ \/ /\ fetched' = [fetched EXCEPT ![l] = @ \cup {i}]
            /\ UNCHANGED sourceFailures
         \/ /\ sourceFailures' = sourceFailures + 1
            /\ UNCHANGED fetched
  BY DEF SourceSettles, Fetching
<1>2. /\ SourcesOf(l) \in Seq(Documents) /\ at[l] \in Nat \ {0}
      /\ sourceFailures \in Nat
      /\ pending \in [Loads -> SUBSET Nat] /\ fetched \in [Loads -> SUBSET Nat]
  BY <1>1, ConstantsAssumption DEF Typed, TypeOK, LoadOK, SourcesOf
<1> DEFINE A == Ahead(SourcesOf(l), at[l])
           F == FailedAhead(l)
<1>3. /\ cleared = l /\ pending[l] \subseteq A /\ pending[l] \cap fetched[l] = {}
      /\ \A a \in Own(l) : \E j \in 1 .. at[l] - 1 : a[1] = SourcesOf(l)[j]
      /\ IsFiniteSet(Own(l))
      /\ Cardinality(Own(l)) + sourceFailures = at[l] - 1 + Cardinality(F)
  BY <1>1 DEF Counted, CountOK
<1>4. Own(l)' = Own(l) /\ SourcesOf(l)' = SourcesOf(l) /\ A' = A
  BY <1>1 DEF Own, SourcesOf
<1>5. /\ pending'[l] \subseteq A /\ pending'[l] \cap fetched'[l] = {}
  BY <1>1, <1>2, <1>3
<1>6. IsFiniteSet(F) /\ Cardinality(F) \in Nat /\ Cardinality(Own(l)) \in Nat
  <2>1. IsFiniteSet(A) /\ F \subseteq A
    BY <1>2, AheadIsFinite DEF FailedAhead
  <2>2. QED
    BY <1>3, <2>1, FS_Subset, FS_CardinalityType
<1>7. Cardinality(Own(l)) + sourceFailures' = at[l] - 1 + Cardinality(F')
  <2>1. CASE fetched' = [fetched EXCEPT ![l] = @ \cup {i}] /\ UNCHANGED sourceFailures
    <3>1. F' = F
      BY <1>1, <1>2, <1>4, <2>1 DEF FailedAhead
    <3>2. QED
      BY <1>3, <2>1, <3>1
  <2>2. CASE sourceFailures' = sourceFailures + 1 /\ UNCHANGED fetched
    <3>a. /\ pending'[l] = pending[l] \ {i} /\ fetched'[l] = fetched[l]
          /\ i \in A /\ i \notin fetched[l]
      BY <1>1, <1>2, <1>3, <2>2
    <3>b. F = A \ (pending[l] \cup fetched[l]) /\ F' = A \ (pending'[l] \cup fetched'[l])
      BY <1>4 DEF FailedAhead
    <3> HIDE DEF A, F
    <3>1. F' = F \cup {i} /\ i \notin F
      BY <3>a, <3>b
    <3>2. Cardinality(F') = Cardinality(F) + 1
      BY <1>6, <3>1, FS_AddElement
    <3> DEFINE o == Cardinality(Own(l))
               f == Cardinality(F)
               i0 == at[l]
    <3>3. /\ o + sourceFailures = i0 - 1 + f
          /\ o \in Nat /\ f \in Nat /\ i0 \in Nat /\ sourceFailures \in Nat
      BY <1>2, <1>3, <1>6
    <3> HIDE DEF o, f, i0
    <3>4. o + (sourceFailures + 1) = i0 - 1 + (f + 1)
      BY <3>3
    <3>5. QED
      BY <2>2, <3>2, <3>4, Zenon DEF o, f, i0
  <2>3. QED
    BY <1>1, <2>1, <2>2
<1>8. CountOK(l)'
  BY <1>1, <1>3, <1>4, <1>5, <1>7 DEF CountOK
<1>9. QED
  BY <1>1, <1>8, OthersDoNotCount DEF Counted

LEMMA AddSourceCounts ==
  ASSUME Typed, Ordered, Counted, NEW l \in Loads, AddSource(l)
  PROVE  Counted'
<1> DEFINE i == at[l]
           n == Len(SourcesOf(l))
           d == SourcesOf(l)[i]
           A == Ahead(SourcesOf(l), i)
           F == FailedAhead(l)
<1>1. /\ pc[l] = "adding" /\ load[l].kind = "scope" /\ ~Superseded(l)
      /\ UNCHANGED <<load, loadSequence, cleared>>
      /\ at' = [at EXCEPT ![l] = i + 1]
  BY DEF AddSource, Typed, LoadOK, Superseded
<1>2. /\ SourcesOf(l) \in Seq(Documents) /\ i \in 1 .. n /\ n \in Nat
      /\ sourceFailures \in Nat /\ added \subseteq Documents \X Loads
      /\ at \in [Loads -> Nat \ {0}] /\ pc \in [Loads -> {"idle", "fetching", "adding"} \cup Ended]
      /\ pending \in [Loads -> SUBSET Nat] /\ fetched \in [Loads -> SUBSET Nat]
  BY <1>1, ConstantsAssumption DEF Typed, TypeOK, LoadOK, SourcesOf
<1>3. \A j \in 1 .. n : SourcesOf(l)[j] = d => j = i
  BY <1>1, <1>2, ConstantsAssumption DEF SourcesOf, Typed, LoadOK
<1>4. /\ cleared = l /\ pending[l] = {}
      /\ \A a \in Own(l) : \E j \in 1 .. i - 1 : a[1] = SourcesOf(l)[j]
      /\ IsFiniteSet(Own(l))
      /\ Cardinality(Own(l)) + sourceFailures = i - 1 + Cardinality(F)
  BY <1>1 DEF Counted, CountOK
<1>5. /\ IsFiniteSet(F) /\ Cardinality(F) \in Nat /\ Cardinality(Own(l)) \in Nat
      /\ F = A \ fetched[l]
  <2>1. F = A \ fetched[l]
    BY <1>4 DEF FailedAhead
  <2>2. IsFiniteSet(A)
    BY <1>2, AheadIsFinite
  <2>3. QED
    BY <1>4, <2>1, <2>2, FS_Subset, FS_CardinalityType
<1>6. i \in A
  BY <1>2 DEF Ahead
<1>7. SourcesOf(l)' = SourcesOf(l) /\ i' = i + 1
  BY <1>1, <1>2 DEF SourcesOf
<1> HIDE DEF A, F
<1>8. /\ Cardinality(Own(l)) + 1 + sourceFailures = i + Cardinality(F)
      /\ Cardinality(Own(l)) + (sourceFailures + 1) = i + Cardinality(F)
  <2> DEFINE o == Cardinality(Own(l))
             f == Cardinality(F)
  <2>1. /\ o + sourceFailures = i - 1 + f
        /\ o \in Nat /\ f \in Nat /\ i \in Nat /\ sourceFailures \in Nat
    BY <1>2, <1>4, <1>5
  <2> HIDE DEF o, f, i
  <2>2. o + 1 + sourceFailures = i + f /\ o + (sourceFailures + 1) = i + f
    BY <2>1
  <2>3. QED
    BY <2>2, Zenon DEF o, f
\* Whatever becomes of it, the source is in the graph or counted.
<1>9. /\ \A a \in Own(l)' : \E j \in 1 .. i : a[1] = SourcesOf(l)[j]
      /\ IsFiniteSet(Own(l)')
      /\ Cardinality(Own(l)') + sourceFailures' = i + Cardinality(F \ {i})
      /\ Cardinality(Own(l)') \in Nat /\ sourceFailures' \in Nat
      /\ \A m \in Loads \ {l} : Own(m)' = Own(m)
  <2>1. CASE i \in fetched[l] /\ added' = added \cup {<<d, l>>} /\ UNCHANGED sourceFailures
    <3>1. /\ Own(l)' = Own(l) \cup {<<d, l>>}
          /\ \A m \in Loads \ {l} : Own(m)' = Own(m)
      BY <2>1 DEF Own
    <3>2. <<d, l>> \notin Own(l)
      <4>1. \A j \in 1 .. i - 1 : SourcesOf(l)[j] # d
        BY <1>2, <1>3
      <4>2. QED
        BY <1>4, <4>1
    <3>3. Cardinality(Own(l)') = Cardinality(Own(l)) + 1 /\ IsFiniteSet(Own(l)')
      BY <1>4, <3>1, <3>2, FS_AddElement
    <3>4. Cardinality(F \ {i}) = Cardinality(F)
      <4>1. F \ {i} = F
        BY <1>5, <2>1
      <4>2. QED
        BY <4>1, Zenon
    <3>5. \A a \in Own(l)' : \E j \in 1 .. i : a[1] = SourcesOf(l)[j]
      <4>1. i \in 1 .. i /\ 1 .. i - 1 \subseteq 1 .. i
        BY <1>2
      <4>2. QED
        BY <1>4, <3>1, <4>1
    <3>6. Cardinality(Own(l)) + 1 + sourceFailures = i + Cardinality(F)
      BY <1>8
    <3>7. Cardinality(Own(l)') + sourceFailures' = i + Cardinality(F \ {i})
      BY <2>1, <3>3, <3>4, <3>6, Zenon
    <3>8. Cardinality(Own(l)') \in Nat
      BY <1>5, <3>3
    <3>9. QED
      BY <1>2, <2>1, <3>1, <3>3, <3>5, <3>7, <3>8
  <2>2. ASSUME added' = added
        PROVE  /\ \A m \in Loads : Own(m)' = Own(m)
               /\ \A a \in Own(l)' : \E j \in 1 .. i : a[1] = SourcesOf(l)[j]
    <3>1. \A m \in Loads : Own(m)' = Own(m)
      BY <2>2 DEF Own
    <3>2. 1 .. i - 1 \subseteq 1 .. i
      BY <1>2
    <3>3. QED
      BY <1>4, <3>1, <3>2
  <2>3. CASE i \in fetched[l] /\ sourceFailures' = sourceFailures + 1 /\ UNCHANGED added
    <3>1. Cardinality(F \ {i}) = Cardinality(F)
      <4>1. F \ {i} = F
        BY <1>5, <2>3
      <4>2. QED
        BY <4>1, Zenon
    <3>2. Own(l)' = Own(l)
      BY <2>2, <2>3
    <3>3. Cardinality(Own(l)) + (sourceFailures + 1) = i + Cardinality(F)
      BY <1>8
    <3>4. Cardinality(Own(l)') + sourceFailures' = i + Cardinality(F \ {i})
      BY <2>3, <3>1, <3>2, <3>3, Zenon
    <3>5. QED
      BY <1>2, <1>4, <1>5, <2>2, <2>3, <3>2, <3>4
  <2>4. CASE i \notin fetched[l] /\ UNCHANGED <<sourceFailures, added>>
    <3>1. i \in F
      BY <1>5, <1>6, <2>4
    <3>2. Cardinality(F \ {i}) = Cardinality(F) - 1
      BY <1>5, <3>1, FS_RemoveElement
    <3>3. QED
      BY <1>2, <1>4, <1>5, <2>2, <2>4, <3>2
  <2>5. QED
    BY <2>1, <2>3, <2>4 DEF AddSource
<1>10. CountOK(l)'
  <2>1. CASE i = n /\ pc' = [pc EXCEPT ![l] = "loaded"]
    <3>1. F \ {i} = {}
      BY <1>2, <1>5, <2>1, NothingAhead DEF A
    <3>a. Cardinality(F \ {i}) = 0
      BY <3>1, FS_EmptySet, Zenon
    <3>b. \A a, b, x \in Nat : a + b = x + 0 => a = x - b
      OBVIOUS
    <3>2. Cardinality(Own(l)') = n - sourceFailures'
      BY <1>2, <1>9, <2>1, <3>a, <3>b
    <3>3. QED
      BY <1>1, <1>2, <1>7, <2>1, <3>2 DEF CountOK
  <2>2. CASE /\ i < n /\ i % BatchSize = 0
             /\ pc' = [pc EXCEPT ![l] = "fetching"]
             /\ pending' = [pending EXCEPT ![l] = Batch(SourcesOf(l), i + 1)]
             /\ fetched' = [fetched EXCEPT ![l] = {}]
    <3>1. F \ {i} = {}
      BY <1>2, <1>5, <2>2, NothingAhead DEF A
    <3>2. /\ pending'[l] = Ahead(SourcesOf(l), i + 1) /\ fetched'[l] = {}
          /\ pc'[l] = "fetching" /\ at'[l] = i + 1
      BY <1>1, <1>2, <2>2, BatchIsAhead
    <3>3. F' = {}
      BY <1>7, <3>2 DEF F, FailedAhead
    <3>4. Cardinality(F') = Cardinality(F \ {i})
      BY <3>1, <3>3, Zenon
    <3>5. at'[l] - 1 = i
      BY <1>2, <3>2
    <3>6. /\ cleared' = l /\ pending'[l] \subseteq Ahead(SourcesOf(l)', at'[l])
          /\ pending'[l] \cap fetched'[l] = {} /\ pc'[l] = "fetching"
      BY <1>1, <1>4, <1>7, <3>2
    <3>7. QED
      BY <1>7, <1>9, <3>4, <3>5, <3>6 DEF CountOK, F
  <2>3. CASE i < n /\ i % BatchSize # 0 /\ UNCHANGED <<pc, pending, fetched>>
    <3>1. Ahead(SourcesOf(l), i + 1) = A \ {i}
      BY <1>2, <2>3, AheadMovesOn DEF A
    <3>2. F' = F \ {i}
      BY <1>4, <1>5, <1>7, <2>3, <3>1 DEF F, FailedAhead
    <3>3. at'[l] = i + 1 /\ at'[l] - 1 = i
      BY <1>1, <1>2
    <3>4. /\ cleared' = l /\ pending'[l] \subseteq Ahead(SourcesOf(l)', at'[l])
          /\ pending'[l] = {} /\ pc'[l] = "adding"
      BY <1>1, <1>4, <2>3
    <3>5. Cardinality(F') = Cardinality(F \ {i})
      BY <3>2, Zenon
    <3>6. QED
      BY <1>7, <1>9, <3>3, <3>4, <3>5 DEF CountOK, F
  <2>4. QED
    BY <2>1, <2>2, <2>3 DEF AddSource, Go
<1>11. \A m \in Loads \ {l} : pc'[m] = pc[m]
  BY <1>2 DEF AddSource, Go
<1>12. QED
  BY <1>1, <1>10, <1>11, OthersDoNotCount DEF Counted

LEMMA CountedStep == Typed /\ Ordered /\ Counted /\ [Next]_vars => Counted'
<1> SUFFICES ASSUME Typed, Ordered, Counted, [Next]_vars PROVE Counted'
  OBVIOUS
<1>1. /\ load \in [Loads -> Load] /\ loadSequence \in Nat
      /\ pc \in [Loads -> {"idle", "fetching", "adding"} \cup Ended]
      /\ at \in [Loads -> Nat \ {0}]
      /\ pending \in [Loads -> SUBSET Nat] /\ fetched \in [Loads -> SUBSET Nat]
      /\ added \subseteq Documents \X Loads
      /\ \A l \in Loads : load[l].seq \in Nat /\ load[l].seq <= loadSequence
  BY ConstantsAssumption DEF Typed, TypeOK, LoadOK, Load
<1>2. \A l \in Loads : CountOK(l)
  BY DEF Counted
\* A load ends, or one that is none of a channel's goes on; nothing is counted.
<1>3. ASSUME NEW l \in Loads, \A m \in Loads \ {l} : pc'[m] = pc[m],
             UNCHANGED <<load, loadSequence, cleared, sourceFailures, scopeVars>>,
             \A m \in Loads \ {l} : Own(m)' = Own(m),
             load[l].kind # "scope" \/ pc'[l] \in {"failed", "dropped"}
      PROVE  Counted'
  <2>1. ASSUME NEW m \in Loads \ {l} PROVE CountOK(m)'
    BY <1>2, <1>3, CountKept DEF scopeVars
  <2>2. CountOK(l)'
    BY <1>3 DEF CountOK
  <2>3. QED
    BY <2>1, <2>2 DEF Counted
<1>4. ASSUME NEW l \in Loads, NEW kind, Fetching(l, kind), Drop(l)
      PROVE  Counted'
  <2>1. /\ pc' = [pc EXCEPT ![l] = "dropped"]
        /\ UNCHANGED <<load, loadSequence, cleared, sourceFailures, scopeVars>>
        /\ \A m \in Loads : Own(m)' = Own(m)
    BY <1>4 DEF Fetching, Drop, Go, Own
  <2>2. QED
    BY <1>1, <1>3, <2>1
\* A load of the controls supersedes every other.
<1>5. ASSUME NEW l \in Loads, NEW kind, NEW d, NEW c, Supersede(l, kind, d, c)
      PROVE  /\ \A m \in Loads \ {l} : load'[m] = load[m] /\ Superseded(m)'
             /\ load'[l].kind = kind /\ load'[l].channel = c /\ ~Superseded(l)'
  BY <1>1, <1>5 DEF Supersede, Superseded
<1>6. ASSUME NEW l \in Loads, NEW d \in Versions, LoadPackage(l, d)
      PROVE  Counted'
  <2>1. /\ \A m \in Loads \ {l} : load'[m] = load[m] /\ Superseded(m)'
        /\ load'[l].kind = "package"
    BY <1>5, <1>6 DEF LoadPackage
  <2>2. /\ \A m \in Loads \ {l} : pc'[m] = pc[m] /\ Own(m)' = Own(m)
        /\ cleared' = cleared /\ sourceFailures' = sourceFailures
    BY <1>1, <1>6 DEF LoadPackage, Go, Own
  <2>3. ASSUME NEW m \in Loads \ {l} PROVE CountOK(m)'
    <3>1. CountOK(m)
      BY <1>2
    <3>2. /\ Superseded(m)' /\ load'[m] = load[m] /\ pc'[m] = pc[m]
          /\ Own(m)' = Own(m)
      BY <2>1, <2>2
    <3>3. QED
      BY <2>2, <3>1, <3>2, CountKept
  <2>4. CountOK(l)'
    BY <2>1 DEF CountOK
  <2>5. QED
    BY <2>3, <2>4 DEF Counted
<1>7. ASSUME NEW l \in Loads, NEW c \in Channels, LoadScope(l, c)
      PROVE  Counted'
  <2>1. /\ \A m \in Loads \ {l} : load'[m] = load[m] /\ Superseded(m)'
        /\ load'[l].kind = "scope" /\ load'[l].channel = c
    BY <1>5, <1>7 DEF LoadScope
  <2>2. /\ added' = {} /\ cleared' = l /\ sourceFailures' = 0
        /\ at'[l] = 1 /\ fetched'[l] = {} /\ pending'[l] = Batch(Sources[c], 1)
        /\ pc'[l] \in {"failed", "fetching"}
        /\ \A m \in Loads \ {l} : pc'[m] = pc[m]
    BY <1>1, <1>7 DEF LoadScope, Go, Fail
  <2>3. ASSUME NEW m \in Loads \ {l} PROVE CountOK(m)'
    BY <2>1, <2>2 DEF CountOK, Superseded
  <2>4. SourcesOf(l)' = Sources[c] /\ Sources[c] \in Seq(Documents)
    BY <2>1, ConstantsAssumption DEF SourcesOf
  <2>5. Batch(Sources[c], 1) = Ahead(Sources[c], 1)
    <3>1. 0 % BatchSize = 0
      BY ConstantsAssumption
    <3>2. Batch(Sources[c], 0 + 1) = Ahead(Sources[c], 0 + 1)
      BY <2>4, <3>1, BatchIsAhead
    <3>3. QED
      BY <3>2
  <2>6. Own(l)' = {} /\ FailedAhead(l)' = {}
    BY <2>2, <2>4, <2>5 DEF Own, FailedAhead
  <2>7. /\ IsFiniteSet(Own(l)') /\ Cardinality(Own(l)') = 0
        /\ Cardinality(FailedAhead(l)') = 0
    BY <2>6, FS_EmptySet, Zenon
  <2>8. /\ pending'[l] \subseteq Ahead(SourcesOf(l)', at'[l])
        /\ pending'[l] \cap fetched'[l] = {}
        /\ \A a \in Own(l)' : \E j \in 1 .. at'[l] - 1 : a[1] = SourcesOf(l)'[j]
    BY <2>2, <2>4, <2>5, <2>6
  <2>9. Cardinality(Own(l)') + sourceFailures'
          = at'[l] - 1 + Cardinality(FailedAhead(l)')
    BY <2>2, <2>7
  <2>10. CountOK(l)'
    BY <2>2, <2>7, <2>8, <2>9 DEF CountOK
  <2>11. QED
    BY <2>3, <2>10 DEF Counted
<1>8. ASSUME NEW l \in Loads, NEW n \in Coordinates, ExpandLatest(l, n)
      PROVE  Counted'
  <2>1. /\ UNCHANGED <<loadSequence, cleared, sourceFailures, scopeVars>>
        /\ \A m \in Loads \ {l} : pc'[m] = pc[m] /\ load'[m] = load[m]
        /\ \A m \in Loads : Own(m)' = Own(m)
        /\ load'[l].kind = "expand"
    BY <1>1, <1>8 DEF ExpandLatest, Go, Own
  <2>2. ASSUME NEW m \in Loads \ {l} PROVE CountOK(m)'
    BY <1>2, <2>1, CountKept DEF scopeVars
  <2>3. CountOK(l)'
    BY <2>1 DEF CountOK
  <2>4. QED
    BY <2>2, <2>3 DEF Counted
<1>9. ASSUME NEW l \in Loads, PackageArrives(l)
      PROVE  Counted'
  <2>1. CASE Superseded(l) /\ Drop(l)
    BY <1>4, <1>9, <2>1 DEF PackageArrives
  <2>2. CASE ~(Superseded(l) /\ Drop(l))
    <3>1. /\ load[l].kind = "package" /\ ~Superseded(l) /\ cleared' = l
          /\ UNCHANGED <<load, loadSequence>>
          /\ \A m \in Loads \ {l} : pc'[m] = pc[m]
      BY <1>1, <1>9, <2>2 DEF PackageArrives, Fetching, Go, Fail
    <3>2. ASSUME NEW m \in Loads, load[m].kind = "scope"
          PROVE  Superseded(m)' /\ m # l
      BY <1>1, <3>1, <3>2 DEF Ordered, ChoicesOK, Chooses, Superseded
    <3>3. QED
      BY <3>1, <3>2 DEF Counted, CountOK, Superseded
  <2>3. QED
    BY <2>1, <2>2
<1>10. ASSUME NEW l \in Loads, ExpansionArrives(l)
       PROVE  Counted'
  <2>1. CASE Superseded(l) /\ Drop(l)
    BY <1>4, <1>10, <2>1 DEF ExpansionArrives
  <2>2. CASE ~(Superseded(l) /\ Drop(l))
    <3>1. /\ load[l].kind = "expand"
          /\ UNCHANGED <<load, loadSequence, cleared, sourceFailures, scopeVars>>
          /\ \A m \in Loads \ {l} : pc'[m] = pc[m]
          /\ added' = added \/ added' = added \cup {<<load[l].doc, l>>}
      BY <1>1, <1>10, <2>2 DEF ExpansionArrives, Fetching, Go, Fail
    <3>2. \A m \in Loads \ {l} : Own(m)' = Own(m)
      BY <3>1 DEF Own
    <3>3. QED
      BY <1>3, <3>1, <3>2
  <2>3. QED
    BY <2>1, <2>2
<1>11. ASSUME NEW l \in Loads, ReadFails(l)
       PROVE  Counted'
  <2>1. CASE Superseded(l) /\ Drop(l)
    BY <1>4, <1>11, <2>1 DEF ReadFails
  <2>2. CASE ~(Superseded(l) /\ Drop(l))
    <3>1. /\ load[l].kind # "scope"
          /\ UNCHANGED <<load, loadSequence, cleared, sourceFailures, scopeVars, added>>
          /\ \A m \in Loads \ {l} : pc'[m] = pc[m]
      BY <1>1, <1>11, <2>2 DEF ReadFails, Fetching, Go, Fail
    <3>2. \A m \in Loads : Own(m)' = Own(m)
      BY <3>1 DEF Own
    <3>3. QED
      BY <1>3, <3>1, <3>2
  <2>3. QED
    BY <2>1, <2>2
<1>12. ASSUME NEW l \in Loads, NEW i \in pending[l], SourceSettles(l, i)
       PROVE  Counted'
  <2>1. CASE Superseded(l)
    <3>1. /\ UNCHANGED <<load, loadSequence, cleared, sourceFailures, at, fetched, pc>>
          /\ \A m \in Loads \ {l} : pending'[m] = pending[m]
          /\ pc[l] = "fetching"
          /\ \A m \in Loads : Own(m)' = Own(m)
      BY <1>1, <1>12, <2>1 DEF SourceSettles, Fetching, Own
    <3>2. ASSUME NEW m \in Loads \ {l} PROVE CountOK(m)'
      <4>1. CountOK(m)
        BY <1>2
      <4>2. QED
        BY <3>1, <3>2, <4>1, CountKept
    <3>3. CountOK(l)'
      BY <2>1, <3>1 DEF CountOK, Superseded
    <3>4. QED
      BY <3>2, <3>3 DEF Counted
  <2>2. QED
    BY <1>12, <2>1, SourceSettlesCounts
<1>13. ASSUME NEW l \in Loads, BatchSettles(l)
       PROVE  Counted'
  <2>1. CASE Superseded(l) /\ Drop(l)
    BY <1>4, <1>13, <2>1 DEF BatchSettles
  <2>2. CASE ~(Superseded(l) /\ Drop(l))
    <3>1. /\ load[l].kind = "scope" /\ pc[l] = "fetching" /\ pending[l] = {}
          /\ ~Superseded(l) /\ pc' = [pc EXCEPT ![l] = "adding"]
          /\ UNCHANGED <<load, loadSequence, cleared, sourceFailures, scopeVars>>
          /\ \A m \in Loads : Own(m)' = Own(m)
      BY <1>1, <1>13, <2>2 DEF BatchSettles, Fetching, Go, Own
    <3>2. ASSUME NEW m \in Loads \ {l} PROVE CountOK(m)'
      BY <1>1, <1>2, <3>1, CountKept DEF scopeVars
    <3>3. /\ SourcesOf(l)' = SourcesOf(l) /\ FailedAhead(l)' = FailedAhead(l)
          /\ at' = at /\ pending' = pending /\ fetched' = fetched
          /\ pc'[l] = "adding" /\ Own(l)' = Own(l)
      BY <1>1, <3>1 DEF FailedAhead, SourcesOf, scopeVars
    <3>4. CountOK(l)
      BY <1>2
    <3>5. /\ cleared' = l /\ pending'[l] \subseteq Ahead(SourcesOf(l)', at'[l])
          /\ pending'[l] \cap fetched'[l] = {} /\ pending'[l] = {}
          /\ \A a \in Own(l)' : \E j \in 1 .. at'[l] - 1 : a[1] = SourcesOf(l)'[j]
          /\ IsFiniteSet(Own(l)')
      BY <3>1, <3>3, <3>4 DEF CountOK
    <3>6. Cardinality(Own(l)') + sourceFailures'
            = at'[l] - 1 + Cardinality(FailedAhead(l)')
      BY <3>1, <3>3, <3>4 DEF CountOK
    <3>7. CountOK(l)'
      BY <3>3, <3>5, <3>6 DEF CountOK
    <3>8. QED
      BY <3>2, <3>7 DEF Counted
  <2>3. QED
    BY <2>1, <2>2
<1>14. ASSUME NEW l \in Loads, AddSource(l) PROVE Counted'
  BY <1>14, AddSourceCounts
<1>15. ASSUME UNCHANGED <<load, pc, cleared, sourceFailures, added, scopeVars>>,
              loadSequence' = loadSequence \/ \A l \in Loads : Superseded(l)'
       PROVE  Counted'
  <2>1. \A m \in Loads : Own(m)' = Own(m)
    BY <1>15 DEF Own
  <2>2. ASSUME NEW m \in Loads PROVE CountOK(m)'
    BY <1>2, <1>15, <2>1, CountKept DEF scopeVars
  <2>3. QED
    BY <2>2 DEF Counted
<1>16. ASSUME NEW n \in Coordinates, Inspect(n) PROVE Counted'
  BY <1>15, <1>16 DEF Inspect
<1>17. ASSUME Disconnect PROVE Counted'
  <2>1. \A l \in Loads : Superseded(l)'
    BY <1>1, <1>17 DEF Disconnect, Superseded
  <2>2. QED
    BY <1>15, <1>17, <2>1 DEF Disconnect
<1>18. ASSUME UNCHANGED vars PROVE Counted'
  BY <1>15, <1>18 DEF vars
<1>19. QED
  BY <1>6, <1>7, <1>8, <1>9, <1>10, <1>11, <1>12, <1>13, <1>14, <1>16, <1>17, <1>18
     DEF Next, Call, Continue

\* When a channel has been composed, the sources asked for less the failures
\* counted are those in the graph, however many loads share the counter and
\* however the answers of a batch come in.
THEOREM TheCountIsTrue == Spec => []ComposedIsTrue
<1>1. Init => Counted
  BY DEF Init, Counted, CountOK, NoLoad
<1>2. Spec => []Typed
  BY InitTyped, TypedStep, PTL DEF Spec
<1>3. Spec => []Counted
  BY <1>1, <1>2, OrderedAlways, CountedStep, PTL DEF Spec
<1>4. Counted => ComposedIsTrue
  BY DEF Counted, CountOK, ComposedIsTrue, Own
<1>5. QED
  BY <1>3, <1>4, PTL

=============================================================================
