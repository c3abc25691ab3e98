----------------------------- MODULE ExplorerProofs -----------------------------
(***************************************************************************)
(* What holds of the dependency-graph element on its page, for every page  *)
(* size and limit and every graph: the numbers of the panels it posts,     *)
(* what a link opens, and what is highlighted.                             *)
(***************************************************************************)
EXTENDS Explorer, GraphQueriesProofs

-----------------------------------------------------------------------------
(* The panels. *)

UiFields == {"selected", "matches", "page", "mounted", "sequence", "panel", "wire",
             "queued", "reactions"}

\* The element shows a page of a result, and has posted none the server refuses.
InOrder(w) ==
  /\ DOMAIN w = UiFields
  /\ w.matches \in Found \cup {None}
  /\ w.page \in Int
  /\ "query" \in DOMAIN w.panel /\ w.panel["query"].bound \in Nat
  /\ Consistent(w.wire.form) /\ Consistent(w.queued.form)

LEMMA PostIsInOrder ==
  ASSUME NEW w, InOrder(w), NEW form, Consistent(form)
  PROVE  InOrder(Post(w, form)) /\ Post(w, form).matches = w.matches
<1> DEFINE n == w.sequence[form.surface] + 1
           request == [form |-> form, sequence |-> n, mounted |-> w.mounted, promised |-> TRUE]
           sent == [w EXCEPT !.sequence[form.surface] = n]
<1>1. request.form = form /\ [request EXCEPT !.promised = FALSE].form = form
  OBVIOUS
<1>2. /\ DOMAIN sent = UiFields
      /\ \A f \in UiFields \ {"sequence"} : sent[f] = w[f]
  BY DEF InOrder
<1> HIDE DEF n, request, sent
<1>3. CASE w.wire = NoRequest
  <2>1. Post(w, form) = [sent EXCEPT !.wire = request]
    BY <1>3 DEF Post, n, request, sent
  <2>2. QED
    BY <1>1, <1>2, <2>1 DEF InOrder, UiFields
<1>4. CASE w.wire # NoRequest
  <2>1. Post(w, form) = [sent EXCEPT !.queued = [request EXCEPT !.promised = FALSE],
                                     !.reactions = Append(@, request)]
    BY <1>4 DEF Post, n, request, sent
  <2>2. QED
    BY <1>1, <1>2, <2>1 DEF InOrder, UiFields
<1>5. QED
  BY <1>3, <1>4

LEMMA RenderedIsInOrder ==
  ASSUME NEW w, InOrder(w), NEW form, Consistent(form)
  PROVE  InOrder(Rendered(w, form)) /\ Rendered(w, form).matches = w.matches
<1> DEFINE drawn == [w EXCEPT !.panel[form.surface] = Rendering("local", form, 1)]
<1>1. InOrder(drawn) /\ drawn.matches = w.matches
  BY DEF InOrder, UiFields, Rendering
<1> HIDE DEF drawn
<1>2. Rendered(w, form) = Post(drawn, form)
  BY DEF Rendered, drawn
<1>3. QED
  BY <1>1, <1>2, PostIsInOrder

LEMMA BlankedIsInOrder ==
  ASSUME NEW w, InOrder(w), NEW surface
  PROVE  InOrder(Blanked(w, surface)) /\ Blanked(w, surface).matches = w.matches
BY DEF InOrder, UiFields, Blanked, Blank, Rendering

LEMMA InspectorIsInOrder ==
  ASSUME NEW w, InOrder(w)
  PROVE  InOrder(RenderInspector(w)) /\ RenderInspector(w).matches = w.matches
<1>1. Consistent(Form("inspector", w.selected, 0, 0, 0))
  BY DEF Consistent, Form
<1>2. QED
  BY <1>1, BlankedIsInOrder, RenderedIsInOrder DEF RenderInspector

\* The arithmetic of a page: the one shown starts within the result.
LEMMA PagesCover ==
  ASSUME NEW total \in Nat, NEW page \in Int
  PROVE  /\ Pages(total) \in Nat \ {0}
         /\ Clamped(page, total) \in 0 .. Pages(total) - 1
         /\ Clamped(page, total) * PageSize <= total
<1>1. PageSize \in Nat \ {0}
  BY FragmentsAssumption
<1> DEFINE k == (total + PageSize - 1) \div PageSize
<1>2. CASE total = 0
  <2>1. Pages(total) = 1
    BY <1>2 DEF Pages
  <2>2. Clamped(page, total) = 0
    BY <2>1 DEF Clamped, SmallerOf
  <2>3. QED
    BY <1>1, <1>2, <2>1, <2>2
<1>3. CASE total > 0
  <2>1. Pages(total) = k
    BY <1>3 DEF Pages
  <2>2. k \in Nat /\ k * PageSize <= total + PageSize - 1
    BY <1>1, <1>3
  <2>3. k >= 1
    BY <1>1, <1>3
  <2> HIDE DEF k
  <2> DEFINE c == Clamped(page, total)
  <2>4. c \in 0 .. k - 1
    BY <2>1, <2>2, <2>3 DEF Clamped, SmallerOf
  <2> HIDE DEF c
  <2>5. c * PageSize <= (k - 1) * PageSize
    BY <1>1, <2>2, <2>3, <2>4
  <2>6. (k - 1) * PageSize = k * PageSize - PageSize
    BY <1>1, <2>2
  <2>7. c * PageSize <= total
    BY <1>1, <2>2, <2>4, <2>5, <2>6
  <2>8. QED
    BY <2>1, <2>2, <2>3, <2>4, <2>7 DEF c
<1>4. QED
  BY <1>2, <1>3

LEMMA SummaryIsInOrder ==
  ASSUME NEW w, InOrder(w)
  PROVE  InOrder(RenderQuerySummary(w)) /\ RenderQuerySummary(w).matches = w.matches
<1>1. CASE w.matches = None
  BY <1>1, BlankedIsInOrder DEF RenderQuerySummary
<1>2. CASE w.matches # None
  <2> DEFINE page == Clamped(w.page, w.matches)
             left == w.matches - page * PageSize
             rows == IF left < 0 THEN 0 ELSE SmallerOf(left, PageSize)
             form == Form("query", None, page, w.matches, rows)
             turned == [w EXCEPT !.page = page]
  <2>0. PageSize \in Nat \ {0} /\ MaxResults \in Nat
    BY FragmentsAssumption
  <2>1. w.matches \in Nat /\ w.matches <= MaxResults /\ w.page \in Int
    BY <1>2, <2>0 DEF InOrder, Found
  <2>2. page \in 0 .. Pages(w.matches) - 1 /\ page * PageSize <= w.matches
        /\ Pages(w.matches) \in Nat
    BY <2>1, PagesCover
  <2>3. RenderQuerySummary(w) = Rendered(turned, form)
    BY <1>2 DEF RenderQuerySummary
  <2> HIDE DEF page
  <2>4. page \in Int /\ page * PageSize \in Int
    BY <2>0, <2>2
  <2>5. left >= 0 /\ left \in Int
    BY <2>0, <2>1, <2>2, <2>4
  <2>6. rows = SmallerOf(left, PageSize) /\ rows <= PageSize
    BY <2>0, <2>5 DEF SmallerOf
  <2>7. /\ form.surface = "query" /\ form.total = w.matches /\ form.page = page
        /\ form.rows = rows
    BY DEF Form
  <2>8. Consistent(form)
    <3> HIDE DEF form, rows
    <3>1. ValidQuery(form)
      BY <2>1, <2>2, <2>6, <2>7 DEF ValidQuery
    <3>2. QED
      BY <2>7, <3>1 DEF Consistent
  <2>9. InOrder(turned) /\ turned.matches = w.matches
    BY <2>4 DEF InOrder, UiFields
  <2> HIDE DEF form, turned
  <2>10. QED
    BY <2>3, <2>8, <2>9, RenderedIsInOrder
<1>3. QED
  BY <1>1, <1>2

LEMMA GraphIsInOrder ==
  ASSUME NEW w, InOrder(w)
  PROVE  InOrder(RenderGraph(w)) /\ RenderGraph(w).matches = w.matches
BY InspectorIsInOrder, SummaryIsInOrder DEF RenderGraph

LEMMA TableIsInOrder ==
  ASSUME NEW w, InOrder(w), NEW edges \in 0 .. MaxEdges
  PROVE  InOrder(RenderAccessibleTable(w, edges))
<1> DEFINE form == Form("table", None, 0, edges, SmallerOf(edges, MaxTableRows))
<1>1. form.surface = "table" /\ form.total = edges
      /\ form.rows = SmallerOf(edges, MaxTableRows)
  BY DEF Form
<1>2. MaxEdges \in Nat /\ MaxTableRows \in Nat
  BY FragmentsAssumption
<1> HIDE DEF form
<1>3. Consistent(form)
  BY <1>1, <1>2 DEF Consistent, ValidTable, SmallerOf
<1>4. QED
  BY <1>3, RenderedIsInOrder DEF RenderAccessibleTable, form

\* One click turns as many pages as the button has listeners.
LEMMA TurnIsInOrder ==
  ASSUME InOrder(ui), NEW step \in {-1, 1}, TurnPage(step)
  PROVE  InOrder(ui')
<1> DEFINE n == ui.panel["query"].bound
           Once(w) == RenderQuerySummary([w EXCEPT !.page = @ + step])
           Turn(k, turned) == IF k = 0 THEN ui ELSE Once(turned[k - 1])
           S == {m \in Nat : \E turned : turned = [k \in 0 .. m |-> Turn(k, turned)]}
<1>0. n \in Nat
  BY DEF InOrder
<1> HIDE DEF Once
<1>1. 0 \in S
  <2> DEFINE f == [k \in 0 .. 0 |-> ui]
  <2>1. f = [k \in 0 .. 0 |-> Turn(k, f)]
    OBVIOUS
  <2> HIDE DEF f
  <2> QED
    BY <2>1
<1>2. ASSUME NEW m \in Nat, m \in S PROVE m + 1 \in S
  <2>1. PICK turned : turned = [k \in 0 .. m |-> Turn(k, turned)]
    BY <1>2
  <2> DEFINE f == [k \in 0 .. m + 1 |-> Turn(k, turned)]
  <2>2. \A k \in 0 .. m : f[k] = turned[k]
    BY <2>1
  <2>3. \A k \in 0 .. m + 1 : k # 0 => k - 1 \in 0 .. m
    OBVIOUS
  <2>4. \A k \in 0 .. m + 1 : Turn(k, f) = Turn(k, turned)
    <3> HIDE DEF f
    <3> QED
      BY <2>2, <2>3
  <2> HIDE DEF Turn
  <2>5. f = [k \in 0 .. m + 1 |-> Turn(k, f)]
    <3>1. [k \in 0 .. m + 1 |-> Turn(k, f)] = [k \in 0 .. m + 1 |-> Turn(k, turned)]
      BY <2>4
    <3> QED
      BY <3>1
  <2> HIDE DEF f
  <2> QED
    BY <2>5
<1>3. n \in S
  <2> HIDE DEF S, n
  <2> QED
    BY <1>0, <1>1, <1>2, Induction
<1> DEFINE d == CHOOSE turned : turned = [k \in 0 .. n |-> Turn(k, turned)]
<1>4. ui' = d[n]
  BY DEF TurnPage, Happens, Once
<1>5. d = [k \in 0 .. n |-> Turn(k, d)]
  BY <1>3
<1> HIDE DEF d, n
<1>6. /\ d[0] = ui
      /\ \A k \in 1 .. n : d[k] = Once(d[k - 1])
  BY <1>0, <1>5
<1> DEFINE Fine == {k \in Nat : k <= n => InOrder(d[k])}
<1>7. 0 \in Fine
  BY <1>6
<1>8. ASSUME NEW k \in Nat, k \in Fine PROVE k + 1 \in Fine
  <2> SUFFICES ASSUME k + 1 <= n PROVE InOrder(d[k + 1])
    OBVIOUS
  <2>1. InOrder(d[k]) /\ d[k + 1] = Once(d[k])
    BY <1>0, <1>6, <1>8
  <2>2. InOrder([d[k] EXCEPT !.page = @ + step])
    BY <2>1 DEF InOrder, UiFields
  <2>3. QED
    BY <2>1, <2>2, SummaryIsInOrder DEF Once
<1>9. n \in Fine
  <2> HIDE DEF Fine
  <2> QED
    BY <1>0, <1>7, <1>8, Induction
<1>10. QED
  BY <1>0, <1>4, <1>9

LEMMA VisitorKeepsOrder ==
  ASSUME InOrder(ui),
         \/ \E n \in Nodes \cup {None} : SelectNode(n)
         \/ \E found \in Found \cup {None} : RunQuery(found)
         \/ \E edges \in 0 .. MaxEdges : Expanded(edges)
         \/ Redraw \/ RequestStateFragment \/ Reattach
  PROVE  InOrder(ui')
<1>1. ASSUME NEW n, SelectNode(n) PROVE InOrder(ui')
  <2>1. InOrder([ui EXCEPT !.selected = n])
    BY DEF InOrder, UiFields
  <2>2. QED
    BY <1>1, <2>1, GraphIsInOrder DEF SelectNode, Happens
<1>2. ASSUME NEW found \in Found \cup {None}, RunQuery(found) PROVE InOrder(ui')
  <2>1. InOrder([ui EXCEPT !.matches = found, !.page = 0])
    BY DEF InOrder, UiFields
  <2>2. QED
    BY <1>2, <2>1, GraphIsInOrder DEF RunQuery, Happens
<1>3. ASSUME NEW edges \in 0 .. MaxEdges, Expanded(edges) PROVE InOrder(ui')
  BY <1>3, GraphIsInOrder, TableIsInOrder DEF Expanded, Happens
<1>4. CASE Redraw
  BY <1>4, GraphIsInOrder DEF Redraw, Happens
<1>5. CASE RequestStateFragment
  <2>1. Consistent(Form("state", None, 0, 0, 0))
    BY DEF Consistent, Form
  <2>2. QED
    BY <1>5, <2>1, PostIsInOrder DEF RequestStateFragment, Happens
<1>6. CASE Reattach
  BY <1>6 DEF Reattach, Happens, InOrder, UiFields, Surfaces, Blank, Rendering
<1>7. QED
  BY <1>1, <1>2, <1>3, <1>4, <1>5, <1>6

LEMMA GraphLoadedIsInOrder ==
  ASSUME InOrder(ui), NEW root \in Nodes, NEW edges \in 0 .. MaxEdges,
         NEW found \in Found \cup {None}, GraphLoaded(root, edges, found)
  PROVE  InOrder(ui')
<1> DEFINE cleared  == RenderGraph([ui EXCEPT !.selected = None, !.matches = None])
           tabled   == RenderAccessibleTable(cleared, edges)
           selected == RenderGraph([tabled EXCEPT !.selected = root])
<1>1. InOrder([ui EXCEPT !.selected = None, !.matches = None])
  BY DEF InOrder, UiFields
<1>2. InOrder(cleared)
  BY <1>1, GraphIsInOrder
<1> HIDE DEF cleared
<1>3. InOrder(tabled)
  BY <1>2, TableIsInOrder
<1> HIDE DEF tabled
<1>4. InOrder([tabled EXCEPT !.selected = root])
  BY <1>3 DEF InOrder, UiFields
<1>5. InOrder(selected)
  BY <1>4, GraphIsInOrder
<1>6. ui' = IF found = None THEN RenderQuerySummary(selected)
            ELSE RenderGraph([selected EXCEPT !.matches = found, !.page = 0])
  BY DEF GraphLoaded, Happens, cleared, tabled
<1> HIDE DEF selected
<1>7. InOrder([selected EXCEPT !.matches = found, !.page = 0])
  BY <1>5 DEF InOrder, UiFields
<1>8. QED
  BY <1>5, <1>6, <1>7, SummaryIsInOrder, GraphIsInOrder

\* An answer lets what waits go, and waits for nothing more.
LEMMA EndedIsInOrder ==
  ASSUME NEW w, InOrder(w), NEW resolves
  PROVE  InOrder(Ended(w, resolves))
<1>1. Consistent(NoRequest.form)
  BY DEF Consistent, NoRequest, NoForm, Form
<1>2. QED
  BY <1>1 DEF Ended, InOrder, UiFields

LEMMA AnswerKeepsOrder ==
  ASSUME InOrder(ui), Swap \/ ErrorAnswer \/ SendError \/ AfterSwap
  PROVE  InOrder(ui')
<1>1. CASE Swap
  <2> DEFINE form == ui.wire.form
             swapped == [ui EXCEPT !.panel[form.surface] = Fragment(form)]
  <2>1. InOrder(swapped)
    BY DEF InOrder, UiFields, Fragment, Rendering
  <2>2. ui' = Ended(swapped, TRUE) \/ ui' = Ended(ui, TRUE)
    BY <1>1 DEF Swap
  <2> HIDE DEF swapped
  <2>3. QED
    BY <2>1, <2>2, EndedIsInOrder
<1>2. CASE ErrorAnswer \/ SendError
  BY <1>2, EndedIsInOrder DEF ErrorAnswer, SendError
<1>3. CASE AfterSwap
  <2> DEFINE surface == Head(ui.reactions).form.surface
             w == [ui EXCEPT !.reactions = Tail(@)]
             bound == [w EXCEPT !.panel[surface].bound = @ + 1]
  <2>1. InOrder(w)
    BY DEF InOrder, UiFields
  <2>2. ui' = w \/ ui' = RenderInspector(w) \/ ui' = bound
    BY <1>3 DEF AfterSwap
  <2> HIDE DEF w, surface
  <2>3. InOrder(bound)
    BY <2>1 DEF InOrder, UiFields
  <2> HIDE DEF bound
  <2>4. QED
    BY <2>1, <2>2, <2>3, InspectorIsInOrder
<1>4. QED
  BY <1>1, <1>2, <1>3

\* Whatever page of whatever result, and whatever table is posted, the server finds
\* its numbers to agree.
THEOREM PostsAgree == Spec => []PostsAreConsistent
<1>1. Init => InOrder(ui)
  BY DEF Init, FragmentsInit, InOrder, UiFields, Surfaces, Blank, Rendering, NoRequest,
     NoForm, Form, Consistent
<1>2. InOrder(ui) /\ [Next]_vars => InOrder(ui)'
  <2> SUFFICES ASSUME InOrder(ui), [Next]_vars PROVE InOrder(ui')
    OBVIOUS
  <2>1. FragmentsNext \/ UNCHANGED fragmentVars
    BY DEF Next, Panels, View, vars
  <2>2. CASE UNCHANGED fragmentVars
    BY <2>2 DEF fragmentVars
  <2>3. CASE FragmentsNext
    BY <2>3, VisitorKeepsOrder, GraphLoadedIsInOrder, TurnIsInOrder, AnswerKeepsOrder
       DEF FragmentsNext
  <2>4. QED
    BY <2>1, <2>2, <2>3
<1>3. InOrder(ui) => PostsAreConsistent
  BY DEF InOrder, PostsAreConsistent
<1>4. QED
  BY <1>1, <1>2, <1>3, PTL DEF Spec

-----------------------------------------------------------------------------
(* What a link opens. *)

ViewFields == {"mode", "graph", "shown", "loading", "choice", "kinds", "optional",
               "selected", "pin", "query", "anchor", "focus", "pairs", "pending", "unasked"}

\* What is shown is the graph that was asked for, or none; what is selected and
\* pinned is of it.
Shows(v) ==
  /\ DOMAIN v = ViewFields
  /\ v.loading \in Loadable \cup {Null}
  /\ \/ v.graph = BlankGraph
     \/ v.shown \in Loadable /\ v.graph = workspace.graph[v.shown]
  /\ v.loading # Null => v.mode = "package" \/ v.graph = BlankGraph
  /\ {v.selected, v.pin} \subseteq v.graph.nodes \cup {Null}
  /\ v.query \in Queries \cup {""}
  /\ v.choice \in Loadable

Viewed == workspace \in Workspaces /\ Shows(view)

LEMMA RootsAreNodes ==
  ASSUME workspace \in Workspaces, NEW v, Shows(v), v.graph.roots # << >>
  PROVE  v.graph.roots[1] \in v.graph.nodes
<1>1. v.graph # BlankGraph
  BY DEF BlankGraph
<1>2. v.graph.roots \in Seq(v.graph.nodes)
  BY <1>1, ViewAssumption DEF Shows
<1>3. QED
  BY <1>2

LEMMA RanQueryShows ==
  ASSUME workspace \in Workspaces, NEW v, Shows(v),
         NEW query \in Queries \cup {"pin-path"}, NEW restoring \in BOOLEAN
  PROVE  Shows(RanQuery(v, query, restoring))
<1> DEFINE selected == Subject(v, restoring)
           result == Result(v, query, selected)
           ran == [v EXCEPT !.focus = result.nodes, !.pairs = result.pairs, !.query = query,
                            !.unasked = FALSE,
                            !.anchor = IF query \in Independent THEN Null ELSE selected]
<1>1. selected \in v.graph.nodes \cup {Null}
  BY RootsAreNodes DEF Subject, Shows
<1> HIDE DEF selected, result
<1>2. Shows([v EXCEPT !.pin = selected])
  BY <1>1 DEF Shows, ViewFields
<1>3. query # "pin-path" => Shows(ran)
  BY DEF Shows, ViewFields
<1> HIDE DEF ran
<1>4. \/ RanQuery(v, query, restoring) \in {v, [v EXCEPT !.pin = selected]}
      \/ query # "pin-path" /\ RanQuery(v, query, restoring) = ran
  BY DEF RanQuery, ran, selected, result
<1>5. QED
  BY <1>2, <1>3, <1>4

LEMMA RunAgainShows ==
  ASSUME workspace \in Workspaces, NEW v, Shows(v)
  PROVE  Shows(RunAgain(v))
<1> DEFINE asked == [v EXCEPT !.unasked = ~Askable(v)]
<1>1. Shows(asked)
  BY DEF Shows, ViewFields
<1> HIDE DEF asked
<1>2. v.query # "" => v.query \in Queries
  BY DEF Shows
<1>3. QED
  BY <1>1, <1>2, RanQueryShows DEF RunAgain, asked

LEMMA RestoredShows ==
  ASSUME workspace \in Workspaces, NEW v, Shows(v)
  PROVE  Shows(RestoredLoaded(v))
<1> DEFINE p == v.pending
           nodes == v.graph.nodes
           restored ==
             [v EXCEPT !.selected = IF p.selected \in nodes THEN p.selected
                                    ELSE IF @ = Null /\ v.graph.roots # << >> THEN v.graph.roots[1]
                                    ELSE @,
                       !.pin = IF p.pin \in nodes THEN p.pin ELSE Null,
                       !.anchor = IF p.anchor \in nodes THEN p.anchor ELSE @,
                       !.pending = NoPending]
<1>1. RestoredLoaded(v) = RunAgain(restored)
  BY DEF RestoredLoaded
<1>2. Shows(restored)
  <2>1. /\ DOMAIN restored = ViewFields
        /\ restored.loading = v.loading /\ restored.graph = v.graph
        /\ restored.shown = v.shown /\ restored.query = v.query
        /\ restored.choice = v.choice /\ restored.mode = v.mode
    BY DEF Shows, ViewFields
  <2>2. restored.selected \in nodes \cup {Null}
    BY RootsAreNodes DEF Shows, ViewFields
  <2>3. restored.pin \in nodes \cup {Null}
    BY DEF Shows, ViewFields
  <2> HIDE DEF restored
  <2>4. QED
    BY <2>1, <2>2, <2>3 DEF Shows
<1> HIDE DEF restored
<1>3. QED
  BY <1>1, <1>2, RunAgainShows

LEMMA AppliedShows ==
  ASSUME NEW v, Shows(v), NEW link,
         link.query \in Queries \cup {""}, link.choice \in Loadable
  PROVE  Shows(Applied(v, link)) /\ Applied(v, link).choice = link.choice
BY DEF Applied, Shows, ViewFields

LEMMA ClearedShows ==
  ASSUME NEW v, Shows(v)
  PROVE  Shows(Cleared(v))
BY DEF Cleared, Shows, ViewFields, BlankGraph

LEMMA LoadingShows ==
  ASSUME NEW v, Shows(v), NEW choice \in Loadable
  PROVE  Shows(Loading(v, choice))
<1>1. v.mode = "package" => Shows([v EXCEPT !.loading = choice])
  BY DEF Shows, ViewFields
<1> DEFINE c == Cleared(v)
           begun == [c EXCEPT
             !.loading = IF workspace.graph[choice].nodes = {} THEN Null ELSE choice,
             !.shown = IF workspace.graph[choice].nodes = {} THEN choice ELSE Null]
<1>2. Shows(c) /\ c.graph = BlankGraph
  BY ClearedShows DEF Cleared, Shows, ViewFields
<1> HIDE DEF c
<1>3. Shows(begun)
  BY <1>2 DEF Shows, ViewFields
<1>4. QED
  BY <1>1, <1>3 DEF Loading, c

LEMMA LoadedShows ==
  ASSUME workspace \in Workspaces, NEW v, Shows(v), v.loading # Null
  PROVE  Shows(Loaded(v))
<1> DEFINE drawn == IF v.mode = "package" THEN Cleared(v) ELSE v
           arrived == [drawn EXCEPT !.graph = workspace.graph[v.loading],
                                    !.shown = v.loading, !.loading = Null]
<1>1. Shows(drawn) /\ drawn.graph = BlankGraph
  BY ClearedShows DEF Cleared, Shows, ViewFields
<1> HIDE DEF drawn
<1>2. {drawn.selected, drawn.pin} \subseteq {Null}
  <2>1. drawn.graph.nodes = {}
    BY <1>1 DEF BlankGraph
  <2>2. QED
    BY <1>1, <2>1 DEF Shows
<1>3. v.loading \in Loadable
  BY DEF Shows
<1>4. Shows(arrived)
  BY <1>1, <1>2, <1>3 DEF Shows, ViewFields
<1> HIDE DEF arrived
<1>5. QED
  BY <1>4, RestoredShows DEF Loaded, arrived, drawn

LEMMA ConnectedShows ==
  ASSUME NEW w \in Workspaces, w = workspace, NEW link,
         link.query \in Queries \cup {""}, link.choice \in Loadable
  PROVE  Shows(Connected(w, link))
<1> DEFINE new == Applied(NewView(w), link)
<1>1. Shows(new)
  BY DEF Applied, NewView, NoPending, BlankGraph, Shows, ViewFields
<1> HIDE DEF new
<1>2. QED
  BY <1>1, LoadingShows DEF Connected, new

LEMMA VisitorKeepsView ==
  ASSUME Viewed, ViewNext
  PROVE  Viewed'
<1>0. /\ workspace' = workspace
      /\ \A link \in Links(workspace) : link.query \in Queries \cup {""} /\ link.choice \in Loadable
  BY ViewAssumption DEF ViewNext, Viewed, Select, ClickQuery, ClearQuery, ToggleOptional,
     ResetView, ToggleKind, Choose, RestoreView, GraphArrives, LoadRefused, Does
<1>1. ASSUME NEW v, view' = v, Shows(v) PROVE Viewed'
  BY <1>0, <1>1 DEF Viewed, Shows
<1>2. ASSUME NEW n, Select(n) PROVE Viewed'
  <2>1. Shows([view EXCEPT !.selected = n])
    BY <1>2 DEF Select, Viewed, Shows, ViewFields
  <2>2. QED
    BY <1>1, <1>2, <2>1 DEF Select, Does
<1>3. ASSUME NEW query \in Queries \cup {"pin-path"}, ClickQuery(query) PROVE Viewed'
  BY <1>1, <1>3, RanQueryShows DEF ClickQuery, Does, Viewed
<1>4. CASE ClearQuery \/ ResetView
  <2>1. Shows(Unfocused(view))
    BY DEF Unfocused, Viewed, Shows, ViewFields
  <2>2. Shows([Unfocused(view) EXCEPT !.pin = Null, !.kinds = Kinds, !.optional = TRUE])
    BY <2>1 DEF Shows, ViewFields
  <2>3. QED
    BY <1>1, <1>4, <2>1, <2>2 DEF ClearQuery, ResetView, Does
<1>5. ASSUME NEW kinds, view' = RunAgain([view EXCEPT !.kinds = kinds]) PROVE Viewed'
  <2>1. Shows([view EXCEPT !.kinds = kinds])
    BY DEF Viewed, Shows, ViewFields
  <2>2. QED
    BY <1>1, <1>5, <2>1, RunAgainShows DEF Viewed
<1>6. CASE ToggleOptional
  <2>1. Shows([view EXCEPT !.optional = ~@])
    BY DEF Viewed, Shows, ViewFields
  <2>2. QED
    BY <1>1, <1>6, <2>1, RunAgainShows DEF ToggleOptional, Does, Viewed
<1>7. ASSUME NEW c \in Loadable, Choose(c) PROVE Viewed'
  <2>1. Shows([view EXCEPT !.choice = c])
    BY DEF Viewed, Shows, ViewFields
  <2>2. QED
    BY <1>1, <1>7, <2>1, LoadingShows DEF Choose, Does
<1>8. ASSUME NEW link \in Links(workspace), RestoreView(link) PROVE Viewed'
  <2>1. Shows(Applied(view, link)) /\ Applied(view, link).choice \in Loadable
    BY <1>0, AppliedShows DEF Viewed
  <2>2. Shows(RestoredFrom(view, link))
    BY <2>1, LoadingShows, RestoredShows DEF RestoredFrom, Viewed
  <2>3. QED
    BY <1>1, <1>8, <2>2 DEF RestoreView, Does
<1>9. CASE GraphArrives
  BY <1>1, <1>9, LoadedShows DEF GraphArrives, Viewed
<1>10. CASE LoadRefused
  <2> DEFINE over == [view EXCEPT !.loading = Null]
  <2>1. Shows(over)
    BY DEF Viewed, Shows, ViewFields
  <2> HIDE DEF over
  <2>2. view' = over \/ view' = Cleared(over) \/ view' = RestoredLoaded(over)
    BY <1>10 DEF LoadRefused, over
  <2>3. QED
    BY <1>1, <2>1, <2>2, ClearedShows, RestoredShows DEF Viewed
<1>11. ASSUME NEW k, ToggleKind(k) PROVE Viewed'
  BY <1>5, <1>11 DEF ToggleKind, Does
<1>12. QED
  BY <1>2, <1>3, <1>4, <1>6, <1>7, <1>8, <1>9, <1>10, <1>11 DEF ViewNext

LEMMA ViewedHolds == Spec => []Viewed
<1>1. Init => Viewed
  <2> SUFFICES ASSUME Init PROVE Viewed
    OBVIOUS
  <2>1. PICK link \in Links(workspace) : view = Connected(workspace, link)
    BY DEF Init, ViewInit
  <2>2. workspace \in Workspaces
    BY DEF Init, ViewInit
  <2>3. link.query \in Queries \cup {""} /\ link.choice \in Loadable
    BY <2>1, <2>2, ViewAssumption
  <2>4. QED
    BY <2>1, <2>2, <2>3, ConnectedShows DEF Viewed
<1>2. Viewed /\ [Next]_vars => Viewed'
  <2>1. ASSUME Viewed, UNCHANGED viewVars PROVE Viewed'
    BY <2>1 DEF Viewed, Shows, viewVars
  <2>2. QED
    BY <2>1, VisitorKeepsView DEF Next, Panels, View, vars
<1>3. QED
  BY <1>1, <1>2, PTL DEF Spec

\* A query looks at the graph, the filters and the pinned start.
LEMMA ResultDepends ==
  ASSUME NEW v, NEW u, NEW query, NEW selected,
         v.graph = u.graph, v.kinds = u.kinds, v.optional = u.optional, v.pin = u.pin
  PROVE  Result(v, query, selected) = Result(u, query, selected)
<1>1. FilteredEdges(v) = FilteredEdges(u) /\ RootsOf(v) = RootsOf(u)
  BY DEF FilteredEdges, RootsOf
<1>2. QED
  BY <1>1 DEF Result

\* Opened anew, a link shows what it was copied from.
THEOREM LinksReproduce == Spec => []LinkReproducesView
<1>1. Viewed => LinkReproducesView
  <2> DEFINE link == CurrentLink(view)
             new == Applied(NewView(workspace), link)
             opened == Loading(new, view.choice)
             drawn == IF opened.mode = "package" THEN Cleared(opened) ELSE opened
             arrived == [drawn EXCEPT !.graph = workspace.graph[opened.loading],
                                      !.shown = opened.loading, !.loading = Null]
             nodes == view.graph.nodes
             p == arrived.pending
             selected == IF p.selected \in nodes THEN p.selected
                         ELSE IF arrived.selected = Null /\ arrived.graph.roots # << >>
                         THEN arrived.graph.roots[1] ELSE arrived.selected
             pin == IF p.pin \in nodes THEN p.pin ELSE Null
             anchor == IF p.anchor \in nodes THEN p.anchor ELSE arrived.anchor
             restored == [arrived EXCEPT !.selected = selected, !.pin = pin,
                                         !.anchor = anchor, !.pending = NoPending]
             asked == [restored EXCEPT !.unasked = ~Askable(restored)]
  <2> SUFFICES ASSUME Viewed, view.loading = Null, view.shown = view.choice,
                      view.selected # Null, Current(view)
               PROVE  SeenOf(Loaded(opened)) = SeenOf(view)
    <3>1. Connected(workspace, link) = opened
      BY DEF Connected, CurrentLink
    <3>2. QED
      BY <3>1 DEF LinkReproducesView
  <2>1. /\ view.choice \in Loadable /\ view.graph = workspace.graph[view.choice]
        /\ view.selected \in nodes /\ nodes # {} /\ Null \notin nodes
        /\ view.pin \in nodes \cup {Null} /\ view.query \in Queries \cup {""}
    <3>1. view.selected \in nodes /\ view.pin \in nodes \cup {Null}
      BY DEF Viewed, Shows
    <3>2. view.graph # BlankGraph
      BY <3>1 DEF BlankGraph
    <3>3. view.choice \in Loadable /\ view.graph = workspace.graph[view.choice]
      BY <3>2 DEF Viewed, Shows
    <3>4. Null \notin nodes
      BY <3>3, ViewAssumption DEF Viewed
    <3>5. QED
      BY <3>1, <3>3, <3>4 DEF Viewed, Shows
  <2>2. /\ DOMAIN new = ViewFields
        /\ new.kinds = view.kinds /\ new.optional = view.optional
        /\ new.query = view.query /\ new.anchor = view.anchor
        /\ new.pending = [selected |-> view.selected, pin |-> view.pin, anchor |-> view.anchor]
        /\ new.focus = Null /\ new.pairs = Null
    BY DEF Applied, NewView, CurrentLink, ViewFields
  <2> HIDE DEF new
  <2>3. /\ DOMAIN opened = ViewFields /\ opened.loading = view.choice
        /\ \A f \in {"kinds", "optional", "query", "anchor", "pending", "focus", "pairs"} :
             opened[f] = new[f]
    BY <2>1, <2>2 DEF Loading, Cleared, ViewFields
  <2> HIDE DEF opened
  <2>4. /\ DOMAIN drawn = ViewFields
        /\ \A f \in {"kinds", "optional", "query", "anchor", "pending", "focus", "pairs"} :
             drawn[f] = new[f]
    BY <2>2, <2>3 DEF Cleared, ViewFields
  <2>5. Loaded(opened) = RestoredLoaded(arrived)
    BY DEF Loaded
  <2> HIDE DEF drawn
  <2>6. /\ DOMAIN arrived = ViewFields /\ arrived.graph = view.graph
        /\ \A f \in {"kinds", "optional", "query", "anchor", "pending", "focus", "pairs"} :
             arrived[f] = new[f]
    BY <2>1, <2>3, <2>4 DEF ViewFields
  <2> HIDE DEF arrived
  <2>7. RestoredLoaded(arrived) = RunAgain(restored)
    BY <2>6 DEF RestoredLoaded
  <2>8. selected = view.selected /\ pin = view.pin /\ anchor = view.anchor
    <3>1. p = [selected |-> view.selected, pin |-> view.pin, anchor |-> view.anchor]
          /\ arrived.anchor = view.anchor
      BY <2>2, <2>6
    <3> HIDE DEF p
    <3>2. QED
      BY <2>1, <3>1
  <2> HIDE DEF selected, pin, anchor
  <2>9. /\ DOMAIN restored = ViewFields /\ restored.graph = view.graph
        /\ restored.selected = view.selected /\ restored.pin = view.pin
        /\ restored.anchor = view.anchor
        /\ restored.kinds = view.kinds /\ restored.optional = view.optional
        /\ restored.query = view.query
        /\ restored.focus = Null /\ restored.pairs = Null
    BY <2>2, <2>6, <2>8 DEF ViewFields
  <2> HIDE DEF restored
  <2>10. CASE view.query = ""
    <3>1. Loaded(opened) = restored
      BY <2>5, <2>7, <2>9, <2>10 DEF RunAgain
    <3>2. view.focus = Null /\ view.pairs = Null
      BY <2>10 DEF Current
    <3>3. About(restored) = Null /\ About(view) = Null
      BY <2>9, <2>10 DEF About
    <3>4. QED
      BY <2>9, <2>10, <3>1, <3>2, <3>3 DEF SeenOf
  <2>11. CASE view.query # ""
    <3> DEFINE subject == Subject(view, TRUE)
               ran == [asked EXCEPT
                         !.focus = view.focus, !.pairs = view.pairs, !.query = view.query,
                         !.unasked = FALSE,
                         !.anchor = IF view.query \in Independent THEN Null ELSE subject]
    <3>1. /\ DOMAIN asked = ViewFields
          /\ \A f \in ViewFields \ {"unasked"} : asked[f] = restored[f]
      BY <2>9 DEF ViewFields
    <3>2. Loaded(opened) = RanQuery(asked, view.query, TRUE)
      BY <2>5, <2>7, <2>9, <2>11 DEF RunAgain
    <3> HIDE DEF asked
    <3>3. Subject(asked, TRUE) = subject
      BY <2>9, <3>1 DEF Subject, ViewFields
    <3>4. subject \in nodes /\ subject # Null
      BY <2>1 DEF Subject
    <3>5. Result(asked, view.query, subject) = Result(view, view.query, subject)
      <4>1. /\ view.graph = asked.graph /\ view.kinds = asked.kinds
            /\ view.optional = asked.optional /\ view.pin = asked.pin
        BY <2>9, <3>1 DEF ViewFields
      <4> HIDE DEF subject
      <4>2. QED
        BY <4>1, ResultDepends
    <3>6. Result(view, view.query, subject) = Highlight(view.focus, view.pairs)
      BY <2>11 DEF Current
    <3> HIDE DEF subject
    <3>7. view.query # "pin-path"
      BY <2>1 DEF Queries, Independent
    <3> DEFINE result == Result(asked, view.query, subject)
    <3>8. result.found /\ result.nodes = view.focus /\ result.pairs = view.pairs
      BY <3>5, <3>6 DEF Highlight
    <3>9. RanQuery(asked, view.query, TRUE) =
             [asked EXCEPT
                !.focus = result.nodes, !.pairs = result.pairs, !.query = view.query,
                !.unasked = FALSE,
                !.anchor = IF view.query \in Independent THEN Null ELSE subject]
      BY <3>3, <3>4, <3>7, <3>8 DEF RanQuery
    <3> HIDE DEF result
    <3>10. Loaded(opened) = ran
      BY <3>2, <3>8, <3>9
    <3>11. /\ ran.selected = view.selected /\ ran.pin = view.pin /\ ran.kinds = view.kinds
           /\ ran.optional = view.optional /\ ran.query = view.query
           /\ ran.focus = view.focus /\ ran.pairs = view.pairs /\ ran.graph = view.graph
           /\ view.query \notin Independent => ran.anchor = subject
      BY <2>9, <3>1 DEF ViewFields
    <3> HIDE DEF ran
    <3>12. About(ran) = About(view)
      <4>1. CASE view.query \in Independent
        BY <3>11, <4>1 DEF About
      <4>2. CASE view.query \notin Independent
        BY <3>4, <3>11, <4>2 DEF About, Subject, subject
      <4>3. QED
        BY <4>1, <4>2
    <3>13. QED
      BY <3>10, <3>11, <3>12 DEF SeenOf
  <2>12. QED
    BY <2>10, <2>11
<1>2. QED
  BY ViewedHolds, <1>1, PTL

-----------------------------------------------------------------------------
(* What is highlighted. *)

\* The graph a query is about, as the neighbours of each package.
Along(v) == Outgoing(v.graph.nodes, FilteredEdges(v))

\* What is shown is one of the graphs that can be loaded, or blank.
LEMMA GraphsAreFinite ==
  ASSUME workspace \in Workspaces, NEW v, Shows(v)
  PROVE  /\ IsFiniteSet(v.graph.nodes) /\ IsFiniteSet(v.graph.edges)
         /\ \A e \in v.graph.edges : {e.from, e.to} \subseteq v.graph.nodes
         /\ v.graph.roots \in Seq(v.graph.nodes)
         /\ Null \notin v.graph.nodes
<1>1. CASE v.graph = BlankGraph
  <2>1. v.graph.nodes = {} /\ v.graph.edges = {} /\ v.graph.roots = << >>
    BY <1>1 DEF BlankGraph
  <2>2. QED
    BY <2>1, FS_EmptySet
<1>2. CASE v.graph # BlankGraph
  <2>1. v.shown \in Loadable /\ v.graph = workspace.graph[v.shown]
    BY <1>2 DEF Shows
  <2> DEFINE g == workspace.graph[v.shown]
  <2>2. /\ IsFiniteSet(g.nodes) /\ IsFiniteSet(g.edges)
        /\ \A e \in g.edges : {e.from, e.to} \subseteq g.nodes
        /\ g.roots \in Seq(g.nodes)
        /\ Null \notin g.nodes
    BY <2>1, ViewAssumption
  <2> HIDE DEF g
  <2>3. QED
    BY <2>1, <2>2 DEF g
<1>3. QED
  BY <1>1, <1>2

\* What the filters leave is a finite graph of the packages, one way and the other.
LEMMA FilteredGraph ==
  ASSUME workspace \in Workspaces, NEW v, Shows(v)
  PROVE  /\ Neighbours(Along(v)) /\ DOMAIN Along(v) = v.graph.nodes
         /\ IsFiniteSet(FilteredEdges(v))
         /\ Incoming(v.graph.nodes, FilteredEdges(v)) = Turned(Along(v))
         /\ \A m, n : <<m, n>> \in Filtered(v).edge <=> m \in v.graph.nodes /\ n \in Along(v)[m]
<1> DEFINE edges == FilteredEdges(v)
           nodes == v.graph.nodes
<1>1. /\ IsFiniteSet(nodes) /\ IsFiniteSet(edges)
      /\ \A e \in edges : e.from \in nodes /\ e.to \in nodes
  <2>1. edges \subseteq v.graph.edges
    BY DEF FilteredEdges
  <2> HIDE DEF edges
  <2>2. QED
    BY <2>1, GraphsAreFinite, FS_Subset
<1>2. /\ Along(v) = [n \in nodes |-> {e.to : e \in {x \in edges : x.from = n}}]
      /\ Incoming(nodes, edges) = [n \in nodes |-> {e.from : e \in {x \in edges : x.to = n}}]
      /\ Filtered(v).edge = {<<e.from, e.to>> : e \in edges}
  BY DEF Along, Outgoing, Incoming, Filtered, Pairs
<1> HIDE DEF edges, nodes
<1>3. Along(v) \in [nodes -> SUBSET nodes]
  BY <1>1, <1>2
<1>4. DOMAIN Along(v) = nodes
  BY <1>3
<1>5. Neighbours(Along(v))
  BY <1>1, <1>3, <1>4 DEF Neighbours
<1>6. \A n \in nodes : {e.from : e \in {x \in edges : x.to = n}} = {m \in nodes : n \in Along(v)[m]}
  <2> SUFFICES ASSUME NEW n \in nodes
               PROVE  {e.from : e \in {x \in edges : x.to = n}} = {m \in nodes : n \in Along(v)[m]}
    OBVIOUS
  <2>1. \A m \in nodes : n \in Along(v)[m] <=> \E e \in edges : e.from = m /\ e.to = n
    BY <1>2
  <2>2. QED
    BY <1>1, <2>1
<1>7. Incoming(nodes, edges) = Turned(Along(v))
  <2> DEFINE From(n) == {e.from : e \in {x \in edges : x.to = n}}
             Leading(n) == {m \in nodes : n \in Along(v)[m]}
  <2>1. Incoming(nodes, edges) = [n \in nodes |-> From(n)]
    BY <1>2
  <2>2. Turned(Along(v)) = [n \in nodes |-> Leading(n)]
    BY <1>4, Zenon DEF Turned
  <2>3. \A n \in nodes : From(n) = Leading(n)
    BY <1>6
  <2> HIDE DEF From, Leading
  <2>4. QED
    BY <2>1, <2>2, <2>3
<1>8. \A m, n : <<m, n>> \in Filtered(v).edge <=> m \in nodes /\ n \in Along(v)[m]
  BY <1>1, <1>2
<1>9. QED
  BY <1>1, <1>4, <1>5, <1>7, <1>8 DEF edges, nodes

\* What a package leads to, in the terms of the property.
LEMMA ReachableIsReach ==
  ASSUME workspace \in Workspaces, NEW v, Shows(v), NEW n \in v.graph.nodes
  PROVE  /\ Digraphs!Successors(Filtered(v), n) = Along(v)[n]
         /\ Reachable(Filtered(v), n) = Reach(n, Along(v))
<1> DEFINE G == Filtered(v)
           next == Along(v)
<1>1. /\ Neighbours(next) /\ DOMAIN next = v.graph.nodes /\ G.node = v.graph.nodes
      /\ \A x, y : <<x, y>> \in G.edge <=> x \in v.graph.nodes /\ y \in next[x]
  BY FilteredGraph DEF Filtered
<1> HIDE DEF G, next
<1>2. \A x \in v.graph.nodes : Digraphs!Successors(G, x) = next[x]
  BY <1>1 DEF Digraphs!Successors, Neighbours
<1>3. \A S \in SUBSET v.graph.nodes :
        (\A x \in S : Digraphs!Successors(G, x) \subseteq S) <=> Closed(S, next)
  BY <1>2 DEF Closed
<1>4. Reachable(G, n) = Reach(n, next)
  BY <1>1, <1>3 DEF Reachable, Reach
<1>5. QED
  BY <1>2, <1>4 DEF G, next

\* A path without a package twice, in the terms of the property.
LEMMA PathsAreSimple ==
  ASSUME workspace \in Workspaces, NEW v, Shows(v), NEW p
  PROVE  p \in SimplePaths(Filtered(v))
           <=> Simple(p) /\ \E s, e : Leads(p, s, e, Along(v))
<1> DEFINE G == Filtered(v)
           next == Along(v)
           nodes == v.graph.nodes
           n == Cardinality(nodes)
<1>1. /\ IsFiniteSet(nodes) /\ DOMAIN next = nodes /\ G.node = nodes
      /\ \A x, y : <<x, y>> \in G.edge <=> x \in nodes /\ y \in next[x]
  BY FilteredGraph, GraphsAreFinite DEF Filtered
<1> HIDE DEF G, next, nodes
<1>2. n \in Nat
  BY <1>1, FS_CardinalityType
<1>3. ASSUME p \in SimplePaths(G) PROVE Simple(p) /\ \E s, e : Leads(p, s, e, next)
  <2>1. PICK k \in 1 .. n : p \in [1 .. k -> nodes]
    BY <1>1, <1>3 DEF SimplePaths
  <2>2. p \in Seq(nodes) /\ Len(p) = k /\ k >= 1 /\ DOMAIN p = 1 .. Len(p)
    BY <1>2, <2>1
  <2>3. /\ \A i, j \in DOMAIN p : p[i] = p[j] => i = j
        /\ \A i \in 2 .. Len(p) : <<p[i - 1], p[i]>> \in G.edge
    BY <1>3 DEF SimplePaths
  <2>4. Leads(p, p[1], p[Len(p)], next)
    BY <1>1, <2>2, <2>3 DEF Leads
  <2>5. QED
    BY <2>2, <2>3, <2>4 DEF Simple
<1>4. ASSUME Simple(p), NEW s, NEW e, Leads(p, s, e, next) PROVE p \in SimplePaths(G)
  <2> DEFINE k == Len(p)
  <2>1. p \in Seq(nodes) /\ k \in Nat /\ k >= 1
    BY <1>1, <1>4 DEF Leads
  <2>2. DOMAIN p = 1 .. k /\ p \in [1 .. k -> nodes]
    BY <2>1
  <2>3. \A i, j \in DOMAIN p : p[i] = p[j] => i = j
    BY <1>4, <2>2 DEF Simple
  <2>4. \A i \in 2 .. k : <<p[i - 1], p[i]>> \in G.edge
    <3>1. \A i \in 2 .. k : p[i - 1] \in nodes
      BY <2>1, <2>2
    <3>2. QED
      BY <1>1, <1>4, <3>1 DEF Leads
  <2> HIDE DEF k
  <2>5. IsFiniteSet(1 .. k) /\ Cardinality(1 .. k) = k
    BY <2>1, FS_Interval
  <2>6. ASSUME n < k PROVE FALSE
    <3> DEFINE places == 1 .. k
    <3>1. /\ IsFiniteSet(places) /\ IsFiniteSet(nodes) /\ Cardinality(nodes) < Cardinality(places)
          /\ p \in [places -> nodes]
      BY <1>1, <2>2, <2>5, <2>6
    <3> HIDE DEF places
    <3>2. \E i, j \in places : i # j /\ p[i] = p[j]
      BY <3>1, FS_PigeonHole
    <3>3. QED
      BY <2>2, <2>3, <3>2 DEF places
  <2>7. k \in 1 .. n
    BY <1>2, <2>1, <2>6
  <2>8. QED
    BY <1>1, <2>2, <2>3, <2>4, <2>7 DEF SimplePaths, k
<1>5. QED
  BY <1>3, <1>4 DEF G, next

\* What is highlighted is what the active query says along the edges the filters
\* leave, of the package it is about and from the start that was pinned then; or
\* the query is for a longest chain, and says that there is none.
Said(v) ==
  v.query # "" /\ ~v.unasked =>
    \E s, n \in v.graph.nodes \cup {Null} :
      LET result == Result([v EXCEPT !.pin = n], v.query, s)
      IN  /\ v.query \notin Independent =>
               s # Null /\ (v.anchor \in v.graph.nodes => v.anchor = s)
          /\ v.query = "shortest" => n # Null
          /\ \/ /\ result = Highlight(v.focus, v.pairs)
                /\ v.query \notin Independent => v.anchor = s
             \/ v.query = "longest" /\ ~result.found

\* What a query says is a highlight, or that there is none.
LEMMA ResultIsHighlight ==
  ASSUME NEW v, NEW query \in Queries, NEW selected
  PROVE  LET result == Result(v, query, selected)
         IN  /\ result.found \in BOOLEAN
             /\ result.found => /\ result = Highlight(result.nodes, result.pairs)
                                /\ query = "shortest" => v.pin # Null
             /\ ~result.found => query = "longest" \/ (query = "shortest" /\ v.pin = Null)
<1>1. \A nodes, pairs : LET h == Highlight(nodes, pairs)
                        IN  h.found = TRUE /\ h.nodes = nodes /\ h.pairs = pairs
  BY DEF Highlight
<1>2. NoHighlight.found = FALSE
  BY DEF NoHighlight
<1> DEFINE result == Result(v, query, selected)
<1>3. query # "longest" /\ query # "shortest" => \E nodes, pairs : result = Highlight(nodes, pairs)
  BY Zenon DEF Result, Queries, Independent
<1>4. query = "longest" => result = NoHighlight \/ \E nodes, pairs : result = Highlight(nodes, pairs)
  BY Zenon DEF Result
<1>5. query = "shortest" =>
        \/ result = NoHighlight /\ v.pin = Null
        \/ v.pin # Null /\ \E nodes, pairs : result = Highlight(nodes, pairs)
  BY Zenon DEF Result
<1> HIDE DEF result
<1>6. \/ result = NoHighlight /\ (query = "longest" \/ (query = "shortest" /\ v.pin = Null))
      \/ /\ \E nodes, pairs : result = Highlight(nodes, pairs)
         /\ query = "shortest" => v.pin # Null
  BY <1>3, <1>4, <1>5
<1>7. /\ result.found \in BOOLEAN
      /\ result.found => /\ result = Highlight(result.nodes, result.pairs)
                         /\ query = "shortest" => v.pin # Null
      /\ ~result.found => query = "longest" \/ (query = "shortest" /\ v.pin = Null)
  <2>1. CASE result = NoHighlight /\ (query = "longest" \/ (query = "shortest" /\ v.pin = Null))
    BY <1>2, <2>1
  <2>2. CASE /\ \E nodes, pairs : result = Highlight(nodes, pairs)
             /\ query = "shortest" => v.pin # Null
    <3>1. PICK nodes, pairs : result = Highlight(nodes, pairs)
      BY <2>2
    <3>2. result.found = TRUE /\ result = Highlight(result.nodes, result.pairs)
      BY <1>1, <3>1
    <3>3. QED
      BY <2>2, <3>2
  <2>3. QED
    BY <1>6, <2>1, <2>2
<1>8. QED
  BY <1>7 DEF result

\* The view once a query was answered.
Answered(v, query, selected, result) ==
  [v EXCEPT !.focus = result.nodes, !.pairs = result.pairs, !.query = query,
            !.unasked = FALSE,
            !.anchor = IF query \in Independent THEN Null ELSE selected]

\* The highlight of a query that was just asked.
LEMMA RunSaid ==
  ASSUME workspace \in Workspaces, NEW v, Shows(v), NEW query \in Queries,
         NEW restoring \in BOOLEAN, NEW selected, selected = Subject(v, restoring),
         NEW result, result = Result(v, query, selected), result.found,
         query \notin Independent => selected # Null
  PROVE  Said(Answered(v, query, selected, result))
<1> DEFINE ran == Answered(v, query, selected, result)
           u == [ran EXCEPT !.pin = v.pin]
<1>1. selected \in v.graph.nodes \cup {Null} /\ v.pin \in v.graph.nodes \cup {Null}
  BY RootsAreNodes DEF Subject, Shows
<1>2. /\ ran.query = query /\ ran.focus = result.nodes /\ ran.pairs = result.pairs
      /\ query \notin Independent => ran.anchor = selected
      /\ ran.graph = v.graph
      /\ u.graph = v.graph /\ u.kinds = v.kinds /\ u.optional = v.optional /\ u.pin = v.pin
  BY DEF Shows, ViewFields, Answered
<1> HIDE DEF ran
<1>3. Result(u, query, selected) = result
  <2> HIDE DEF u
  <2>1. QED
    BY <1>2, ResultDepends
<1>4. /\ result = Highlight(result.nodes, result.pairs)
      /\ query = "shortest" => v.pin # Null
  BY ResultIsHighlight
<1>5. \E s, n \in ran.graph.nodes \cup {Null} :
        LET said == Result([ran EXCEPT !.pin = n], ran.query, s)
        IN  /\ ran.query \notin Independent =>
                 s # Null /\ (ran.anchor \in ran.graph.nodes => ran.anchor = s)
            /\ ran.query = "shortest" => n # Null
            /\ \/ /\ said = Highlight(ran.focus, ran.pairs)
                  /\ ran.query \notin Independent => ran.anchor = s
               \/ ran.query = "longest" /\ ~said.found
  BY <1>1, <1>2, <1>3, <1>4
<1>6. QED
  BY <1>5 DEF Said, ran

\* A query that was asked again.
LEMMA AgainSaid ==
  ASSUME workspace \in Workspaces, NEW v, Shows(v)
  PROVE  Said(RunAgain(v))
<1>1. CASE v.query = ""
  BY <1>1 DEF RunAgain, Said
<1>2. CASE v.query # ""
  <2> DEFINE asked == [v EXCEPT !.unasked = ~Askable(v)]
             query == v.query
             selected == Subject(asked, TRUE)
             result == Result(asked, query, selected)
             u == [asked EXCEPT !.pin = v.pin]
  <2>1. query \in Queries /\ query # "pin-path"
    BY <1>2 DEF Shows, Queries, Independent
  <2>2. Shows(asked)
    BY DEF Shows, ViewFields
  <2>3. /\ asked.graph = v.graph /\ asked.kinds = v.kinds /\ asked.optional = v.optional
        /\ asked.pin = v.pin /\ asked.anchor = v.anchor /\ asked.selected = v.selected
        /\ asked.query = v.query /\ asked.unasked = ~Askable(v)
        /\ u.graph = v.graph /\ u.kinds = v.kinds /\ u.optional = v.optional /\ u.pin = v.pin
    BY DEF Shows, ViewFields
  <2>4. RunAgain(v) = RanQuery(asked, query, TRUE)
    BY <1>2 DEF RunAgain
  <2> HIDE DEF asked
  <2>5. selected = Subject(v, TRUE)
    BY <2>3 DEF Subject
  <2>6. CASE ~Askable(v)
    <3>1. asked.unasked
      BY <2>3, <2>6
    <3>2. Said(asked)
      BY <3>1 DEF Said
    <3>3. \/ selected = Null /\ query \notin Independent
          \/ query = "shortest" /\ v.pin = Null
      BY <2>5, <2>6, Zenon DEF Askable
    <3>4. query = "shortest" /\ v.pin = Null => ~result.found
      BY <2>1, <2>3, ResultIsHighlight
    <3>5. RanQuery(asked, query, TRUE) = asked
      BY <2>1, <3>3, <3>4, Zenon DEF RanQuery
    <3>6. QED
      BY <2>4, <3>2, <3>5
  <2>7. CASE Askable(v)
    <3>1. query \notin Independent => selected # Null
      BY <2>5, <2>7 DEF Askable
    <3>2. CASE result.found
      <4>0. ~(selected = Null /\ query \notin Independent) /\ ~(~result.found)
        BY <3>1, <3>2
      <4>1. RanQuery(asked, query, TRUE) = Answered(asked, query, selected, result)
        BY <2>1, <4>0 DEF RanQuery, Answered
      <4> HIDE DEF result, selected
      <4>2. QED
        BY <2>1, <2>2, <2>4, <3>1, <3>2, <4>1, RunSaid DEF result, selected
    <3>3. CASE ~result.found
      <4>1. RanQuery(asked, query, TRUE) = asked
        BY <2>1, <3>3, Zenon DEF RanQuery
      <4>2. query = "longest"
        BY <2>1, <2>3, <2>7, <3>3, ResultIsHighlight DEF Askable
      <4>3. selected \in v.graph.nodes \cup {Null} /\ v.pin \in v.graph.nodes \cup {Null}
        BY <2>5, RootsAreNodes DEF Subject, Shows
      <4>4. v.anchor \in v.graph.nodes => selected = v.anchor
        BY <2>5 DEF Subject
      <4>5. Result(u, query, selected) = result
        <5> HIDE DEF u, selected
        <5>1. QED
          BY <2>3, ResultDepends
      <4> HIDE DEF selected, result
      <4>6. \E s, n \in asked.graph.nodes \cup {Null} :
              LET said == Result([asked EXCEPT !.pin = n], asked.query, s)
              IN  /\ asked.query \notin Independent =>
                       s # Null /\ (asked.anchor \in asked.graph.nodes => asked.anchor = s)
                  /\ asked.query = "shortest" => n # Null
                  /\ \/ /\ said = Highlight(asked.focus, asked.pairs)
                        /\ asked.query \notin Independent => asked.anchor = s
                     \/ asked.query = "longest" /\ ~said.found
        BY <2>3, <3>1, <3>3, <4>2, <4>3, <4>4, <4>5
      <4>7. QED
        BY <2>4, <4>1, <4>6 DEF Said
    <3>4. QED
      BY <3>2, <3>3
  <2>8. QED
    BY <2>6, <2>7
<1>3. QED
  BY <1>1, <1>2, Zenon

\* What the highlight has to do with: neither the selection, nor the pinned start,
\* nor what is loading.
LEMMA SaidDepends ==
  ASSUME NEW v, Shows(v), NEW u, Shows(u), Said(v),
         \A f \in {"graph", "kinds", "optional", "query", "anchor", "focus", "pairs", "unasked"} :
           u[f] = v[f]
  PROVE  Said(u)
<1>1. /\ u.graph = v.graph /\ u.kinds = v.kinds /\ u.optional = v.optional /\ u.query = v.query
      /\ u.anchor = v.anchor /\ u.focus = v.focus /\ u.pairs = v.pairs /\ u.unasked = v.unasked
  OBVIOUS
<1>2. \A query, s, n : Result([u EXCEPT !.pin = n], query, s) = Result([v EXCEPT !.pin = n], query, s)
  <2> SUFFICES ASSUME NEW query, NEW s, NEW n
               PROVE  Result([u EXCEPT !.pin = n], query, s) = Result([v EXCEPT !.pin = n], query, s)
    OBVIOUS
  <2> DEFINE x == [u EXCEPT !.pin = n]
             y == [v EXCEPT !.pin = n]
  <2>1. x.graph = y.graph /\ x.kinds = y.kinds /\ x.optional = y.optional /\ x.pin = y.pin
    BY <1>1 DEF Shows, ViewFields
  <2> HIDE DEF x, y
  <2>2. Result(x, query, s) = Result(y, query, s)
    BY <2>1, ResultDepends
  <2>3. QED
    BY <2>2 DEF x, y
<1>3. SUFFICES ASSUME u.query # "", ~u.unasked
               PROVE  \E s, n \in u.graph.nodes \cup {Null} :
                        LET result == Result([u EXCEPT !.pin = n], u.query, s)
                        IN  /\ u.query \notin Independent =>
                                 s # Null /\ (u.anchor \in u.graph.nodes => u.anchor = s)
                            /\ u.query = "shortest" => n # Null
                            /\ \/ /\ result = Highlight(u.focus, u.pairs)
                                  /\ u.query \notin Independent => u.anchor = s
                               \/ u.query = "longest" /\ ~result.found
  BY Zenon DEF Said
<1>4. v.query # "" /\ ~v.unasked
  BY <1>1, <1>3, Zenon
<1>5. PICK s, n \in v.graph.nodes \cup {Null} :
        LET result == Result([v EXCEPT !.pin = n], v.query, s)
        IN  /\ v.query \notin Independent =>
                 s # Null /\ (v.anchor \in v.graph.nodes => v.anchor = s)
            /\ v.query = "shortest" => n # Null
            /\ \/ /\ result = Highlight(v.focus, v.pairs)
                  /\ v.query \notin Independent => v.anchor = s
               \/ v.query = "longest" /\ ~result.found
  BY <1>4, Zenon DEF Said
<1> DEFINE said == Result([v EXCEPT !.pin = n], v.query, s)
<1>6. Result([u EXCEPT !.pin = n], u.query, s) = said
  BY <1>1, <1>2
<1>7. /\ v.query \notin Independent => s # Null /\ (v.anchor \in v.graph.nodes => v.anchor = s)
      /\ v.query = "shortest" => n # Null
      /\ \/ /\ said = Highlight(v.focus, v.pairs)
            /\ v.query \notin Independent => v.anchor = s
         \/ v.query = "longest" /\ ~said.found
  BY <1>5
<1> HIDE DEF said
<1>8. QED
  BY <1>1, <1>5, <1>6, <1>7

\* A view that was restored asks its query again.
LEMMA RestoredSaid ==
  ASSUME workspace \in Workspaces, NEW v, Shows(v)
  PROVE  Said(RestoredLoaded(v))
<1> DEFINE p == v.pending
           nodes == v.graph.nodes
           restored ==
             [v EXCEPT !.selected = IF p.selected \in nodes THEN p.selected
                                    ELSE IF @ = Null /\ v.graph.roots # << >> THEN v.graph.roots[1]
                                    ELSE @,
                       !.pin = IF p.pin \in nodes THEN p.pin ELSE Null,
                       !.anchor = IF p.anchor \in nodes THEN p.anchor ELSE @,
                       !.pending = NoPending]
<1>1. RestoredLoaded(v) = RunAgain(restored)
  BY DEF RestoredLoaded
<1>2. Shows(restored)
  <2>1. /\ DOMAIN restored = ViewFields
        /\ restored.loading = v.loading /\ restored.graph = v.graph
        /\ restored.shown = v.shown /\ restored.query = v.query
        /\ restored.choice = v.choice /\ restored.mode = v.mode
    BY DEF Shows, ViewFields
  <2>2. restored.selected \in nodes \cup {Null}
    BY RootsAreNodes DEF Shows, ViewFields
  <2>3. restored.pin \in nodes \cup {Null}
    BY DEF Shows, ViewFields
  <2> HIDE DEF restored
  <2>4. QED
    BY <2>1, <2>2, <2>3 DEF Shows
<1> HIDE DEF restored
<1>3. QED
  BY <1>1, <1>2, AgainSaid

\* What was not asked says nothing.
LEMMA LoadingSaid ==
  ASSUME NEW v, Shows(v), Said(v), NEW choice \in Loadable
  PROVE  Said(Loading(v, choice))
<1>1. Shows(Loading(v, choice))
  BY LoadingShows
<1>2. CASE v.mode = "package"
  <2> DEFINE u == [v EXCEPT !.loading = choice]
  <2>1. u = Loading(v, choice)
    BY <1>2 DEF Loading
  <2>2. \A f \in {"graph", "kinds", "optional", "query", "anchor", "focus", "pairs", "unasked"} :
          u[f] = v[f]
    BY DEF Shows, ViewFields
  <2> HIDE DEF u
  <2>3. QED
    BY <1>1, <2>1, <2>2, SaidDepends
<1>3. CASE v.mode # "package"
  <2>1. Loading(v, choice).unasked = TRUE
    BY <1>3 DEF Loading, Cleared, Shows, ViewFields
  <2>2. QED
    BY <2>1, Zenon DEF Said
<1>4. QED
  BY <1>2, <1>3

\* A link that was only read has asked nothing.
LEMMA AppliedSaid ==
  ASSUME NEW v, DOMAIN v = ViewFields, NEW link
  PROVE  Said(Applied(v, link))
<1>1. Applied(v, link).unasked = TRUE
  BY DEF Applied, ViewFields
<1>2. QED
  BY <1>1, Zenon DEF Said

\* Whatever the visitor and the page do.
LEMMA VisitorKeepsSaid ==
  ASSUME Viewed, Said(view), Viewed', ViewNext
  PROVE  Said(view)'
<1>0. /\ workspace' = workspace /\ workspace \in Workspaces /\ Shows(view) /\ Shows(view')
      /\ \A link \in Links(workspace) : link.query \in Queries \cup {""} /\ link.choice \in Loadable
  <2>1. workspace' = workspace
    BY DEF ViewNext, Select, ClickQuery, ClearQuery, ToggleOptional, ResetView, ToggleKind,
       Choose, RestoreView, GraphArrives, LoadRefused, Does
  <2>2. QED
    BY <2>1, ViewAssumption DEF Viewed, Shows
<1>1. ASSUME Said(view') PROVE Said(view)'
  BY <1>0, <1>1 DEF Said, Result, FilteredEdges, RootsOf
<1>2. SUFFICES Said(view')
  BY <1>1
<1>3. ASSUME NEW n, view' = [view EXCEPT !.selected = n] PROVE Said(view')
  <2> DEFINE u == [view EXCEPT !.selected = n]
  <2>1. \A f \in {"graph", "kinds", "optional", "query", "anchor", "focus", "pairs", "unasked"} :
          u[f] = view[f]
    BY <1>0 DEF Shows, ViewFields
  <2> HIDE DEF u
  <2>2. u = view'
    BY <1>3 DEF u
  <2>3. QED
    BY <1>0, <2>1, <2>2, SaidDepends
<1>4. ASSUME NEW query \in Queries \cup {"pin-path"}, view' = RanQuery(view, query, FALSE)
      PROVE  Said(view')
  <2> DEFINE selected == Subject(view, FALSE)
             result == Result(view, query, selected)
             u == [view EXCEPT !.pin = selected]
  <2>1. \/ view' = view
        \/ query = "pin-path" /\ view' = u
        \/ /\ query # "pin-path" /\ result.found
           /\ query \notin Independent => selected # Null
           /\ view' = Answered(view, query, selected, result)
    BY <1>4 DEF RanQuery, Answered
  <2>2. CASE view' = u
    <3>1. \A f \in {"graph", "kinds", "optional", "query", "anchor", "focus", "pairs", "unasked"} :
            u[f] = view[f]
      BY <1>0 DEF Shows, ViewFields
    <3> HIDE DEF u
    <3>2. QED
      BY <1>0, <2>2, <3>1, SaidDepends
  <2>3. CASE /\ query # "pin-path" /\ result.found
             /\ query \notin Independent => selected # Null
             /\ view' = Answered(view, query, selected, result)
    <3>1. query \in Queries
      BY <2>3
    <3> HIDE DEF selected, result
    <3>2. Said(Answered(view, query, selected, result))
      BY <1>0, <2>3, <3>1, RunSaid DEF selected, result
    <3>3. QED
      BY <2>3, <3>2
  <2>4. QED
    BY <2>1, <2>2, <2>3
<1>5. CASE view'.query = ""
  BY <1>5, Zenon DEF Said
<1>6. ASSUME NEW v, Shows(v), view' = RunAgain(v) PROVE Said(view')
  BY <1>0, <1>6, AgainSaid
<1>7. ASSUME NEW c \in Loadable, Choose(c) PROVE Said(view')
  <2> DEFINE u == [view EXCEPT !.choice = c]
  <2>1. \A f \in {"graph", "kinds", "optional", "query", "anchor", "focus", "pairs", "unasked"} :
          u[f] = view[f]
    BY <1>0 DEF Shows, ViewFields
  <2>2. Shows(u)
    BY <1>0 DEF Shows, ViewFields
  <2>3. view' = Loading(u, c)
    BY <1>7 DEF Choose, Does
  <2> HIDE DEF u
  <2>4. Said(u)
    BY <1>0, <2>1, <2>2, SaidDepends
  <2>5. QED
    BY <2>2, <2>3, <2>4, LoadingSaid
<1>8. ASSUME NEW link \in Links(workspace), RestoreView(link) PROVE Said(view')
  <2> DEFINE applied == Applied(view, link)
  <2>1. Shows(applied) /\ applied.choice \in Loadable
    BY <1>0, AppliedShows
  <2>2. Said(applied)
    BY <1>0, AppliedSaid DEF Shows
  <2>3. view' = Loading(applied, applied.choice) \/ view' = RestoredLoaded(applied)
    BY <1>8 DEF RestoreView, RestoredFrom, Does
  <2> HIDE DEF applied
  <2>4. QED
    BY <1>0, <2>1, <2>2, <2>3, LoadingSaid, RestoredSaid
<1>9. CASE GraphArrives
  <2> DEFINE drawn == IF view.mode = "package" THEN Cleared(view) ELSE view
             arrived == [drawn EXCEPT !.graph = workspace.graph[view.loading],
                                      !.shown = view.loading, !.loading = Null]
  <2>1. Shows(drawn) /\ drawn.graph = BlankGraph /\ view.loading \in Loadable
    BY <1>0, <1>9, ClearedShows DEF GraphArrives, Cleared, Shows, ViewFields
  <2> HIDE DEF drawn
  <2>2. drawn.graph.nodes = {}
    BY <2>1 DEF BlankGraph
  <2>3. Shows(arrived)
    BY <2>1, <2>2 DEF Shows, ViewFields
  <2>4. view' = RestoredLoaded(arrived)
    BY <1>9 DEF GraphArrives, Loaded, drawn
  <2> HIDE DEF arrived
  <2>5. QED
    BY <1>0, <2>3, <2>4, RestoredSaid
<1>10. CASE LoadRefused
  <2> DEFINE over == [view EXCEPT !.loading = Null]
  <2>1. /\ Shows(over)
        /\ \A f \in {"graph", "kinds", "optional", "query", "anchor", "focus", "pairs", "unasked"} :
             over[f] = view[f]
    BY <1>0 DEF Shows, ViewFields
  <2> HIDE DEF over
  <2>2. view' = over \/ view' = Cleared(over) \/ view' = RestoredLoaded(over)
    BY <1>10 DEF LoadRefused, over
  <2>3. ASSUME view' = Cleared(over) PROVE Said(view')
    <3>1. view'.unasked = TRUE
      BY <2>1, <2>3 DEF Cleared, Shows, ViewFields
    <3>2. QED
      BY <3>1, Zenon DEF Said
  <2>4. QED
    BY <1>0, <2>1, <2>2, <2>3, SaidDepends, RestoredSaid
<1>11. ASSUME NEW k, ToggleKind(k) PROVE Said(view')
  <2> DEFINE toggled == [view EXCEPT !.kinds = IF k \in @ THEN @ \ {k} ELSE @ \cup {k}]
  <2>1. Shows(toggled)
    BY <1>0 DEF Shows, ViewFields
  <2>2. view' = RunAgain(toggled)
    BY <1>11 DEF ToggleKind, Does
  <2> HIDE DEF toggled
  <2>3. QED
    BY <1>6, <2>1, <2>2
<1>12. CASE ToggleOptional
  <2> DEFINE toggled == [view EXCEPT !.optional = ~@]
  <2>1. Shows(toggled)
    BY <1>0 DEF Shows, ViewFields
  <2>2. view' = RunAgain(toggled)
    BY <1>12 DEF ToggleOptional, Does
  <2> HIDE DEF toggled
  <2>3. QED
    BY <1>6, <2>1, <2>2
<1>13. CASE ClearQuery \/ ResetView
  <2>1. view'.query = ""
    BY <1>0, <1>13 DEF ClearQuery, ResetView, Unfocused, Does, Shows, ViewFields
  <2>2. QED
    BY <1>5, <2>1
<1>14. ASSUME NEW n, Select(n) PROVE Said(view')
  BY <1>3, <1>14 DEF Select, Does
<1>15. ASSUME NEW query \in Queries \cup {"pin-path"}, ClickQuery(query) PROVE Said(view')
  BY <1>4, <1>15 DEF ClickQuery, Does
<1>16. QED
  BY <1>7, <1>8, <1>9, <1>10, <1>11, <1>12, <1>13, <1>14, <1>15 DEF ViewNext

\* In every reachable state.
LEMMA SaidHolds == Spec => []Said(view)
<1>1. Init => Said(view)
  <2> SUFFICES ASSUME Init PROVE Said(view)
    OBVIOUS
  <2>1. PICK link \in Links(workspace) : view = Connected(workspace, link)
    BY DEF Init, ViewInit
  <2>2. workspace \in Workspaces
    BY DEF Init, ViewInit
  <2>3. link.query \in Queries \cup {""} /\ link.choice \in Loadable
    BY <2>1, <2>2, ViewAssumption
  <2> DEFINE new == Applied(NewView(workspace), link)
  <2>4. DOMAIN NewView(workspace) = ViewFields
    BY DEF NewView, ViewFields
  <2>5. Said(new)
    BY <2>4, AppliedSaid
  <2>6. Shows(new)
    BY <2>3 DEF Applied, NewView, NoPending, BlankGraph, Shows, ViewFields
  <2>7. view = Loading(new, link.choice)
    BY <2>1 DEF Connected
  <2> HIDE DEF new
  <2>8. QED
    BY <2>3, <2>5, <2>6, <2>7, LoadingSaid
<1>2. Viewed /\ Viewed' /\ Said(view) /\ [Next]_vars => Said(view)'
  <2>1. ASSUME Said(view), UNCHANGED viewVars PROVE Said(view)'
    <3>1. view' = view
      BY <2>1 DEF viewVars
    <3>2. Said(view')
      BY <2>1, <3>1
    <3>3. QED
      BY <3>2 DEF Said, Result, FilteredEdges, RootsOf
  <2>2. QED
    BY <2>1, VisitorKeepsSaid DEF Next, Panels, View, vars
<1>3. QED
  BY <1>1, <1>2, ViewedHolds, PTL DEF Spec

-----------------------------------------------------------------------------
(* What the queries answer. *)

\* What is highlighted, in the terms of the queries: of the package s, and from n.
Told(v, s, n) ==
  LET nodes == v.graph.nodes
      edges == FilteredEdges(v)
      next == Along(v)
      longest == LongestChain(s, next)
  IN  /\ v.query \notin Independent => s \in nodes /\ (v.anchor \in nodes => v.anchor = s)
      /\ v.query \notin Independent \cup {"longest"} => v.anchor = s
      /\ v.query = "direct" => /\ v.focus = {s} \cup next[s]
                               /\ v.pairs = Pairs({e \in edges : e.from = s})
      /\ v.query = "transitive" => v.focus = Walk(s, next)
      /\ v.query = "dependents" => v.focus = Walk(s, Incoming(nodes, edges))
      /\ v.query = "longest" => longest.cyclic \/ (v.anchor = s /\ IsHighlighted(v, longest.path))
      /\ v.query = "shortest" => n \in nodes /\ IsHighlighted(v, ShortestPath(n, s, next))
      /\ v.query = "cycles" => v.focus = CycleNodes(next, Incoming(nodes, edges))
      /\ v.query = "internal" => v.focus = RootsOf(v)
      /\ v.query = "external" => v.focus = nodes \ RootsOf(v)
      /\ v.query = "centrality" => v.focus = Central(nodes, edges)
      /\ v.query = "flagged" => v.focus = v.graph.flagged

\* A highlight is its packages and its edges.
LEMMA HighlightsAreSame ==
  ASSUME NEW a, NEW b, NEW c, NEW d, Highlight(a, b) = Highlight(c, d)
  PROVE  a = c /\ b = d
<1>1. Highlight(a, b).nodes = a /\ Highlight(a, b).pairs = b
  BY DEF Highlight
<1>2. Highlight(c, d).nodes = c /\ Highlight(c, d).pairs = d
  BY DEF Highlight
<1>3. QED
  BY <1>1, <1>2

\* Query by query.
LEMMA SaidIsTold ==
  ASSUME workspace \in Workspaces, NEW v, Shows(v), Said(v), v.query \in Queries, ~v.unasked
  PROVE  \E s, n \in v.graph.nodes \cup {Null} : Told(v, s, n)
<1>1. v.query # ""
  BY DEF Queries, Independent
<1>2. PICK s, n \in v.graph.nodes \cup {Null} :
        LET result == Result([v EXCEPT !.pin = n], v.query, s)
        IN  /\ v.query \notin Independent =>
                 s # Null /\ (v.anchor \in v.graph.nodes => v.anchor = s)
            /\ v.query = "shortest" => n # Null
            /\ \/ /\ result = Highlight(v.focus, v.pairs)
                  /\ v.query \notin Independent => v.anchor = s
               \/ v.query = "longest" /\ ~result.found
  BY <1>1, Zenon DEF Said
<1> DEFINE u == [v EXCEPT !.pin = n]
           result == Result(u, v.query, s)
           nodes == v.graph.nodes
           edges == FilteredEdges(v)
           next == Along(v)
           back == Incoming(nodes, edges)
           longest == LongestChain(s, next)
           path == ShortestPath(n, s, next)
<1>3. /\ v.query \notin Independent => s \in nodes /\ (v.anchor \in nodes => v.anchor = s)
      /\ v.query = "shortest" => n \in nodes
      /\ \/ /\ result = Highlight(v.focus, v.pairs)
            /\ v.query \notin Independent => v.anchor = s
         \/ v.query = "longest" /\ ~result.found
  BY <1>2
<1>4. /\ u.graph = v.graph /\ u.pin = n /\ FilteredEdges(u) = edges /\ RootsOf(u) = RootsOf(v)
      /\ Outgoing(u.graph.nodes, FilteredEdges(u)) = next
      /\ Incoming(u.graph.nodes, FilteredEdges(u)) = back
  BY DEF Shows, ViewFields, FilteredEdges, RootsOf, Along
<1> HIDE DEF u, result, nodes, edges, next, back, longest, path
<1>5. /\ v.query = "direct" => result = Highlight({s} \cup next[s], Pairs({e \in edges : e.from = s}))
      /\ v.query = "transitive" => result = Highlight(Walk(s, next), Null)
      /\ v.query = "dependents" => result = Highlight(Walk(s, back), Null)
  BY <1>4 DEF Result, result
<1>6. v.query = "longest" /\ result.found =>
        /\ ~longest.cyclic
        /\ result = Highlight({longest.path[i] : i \in DOMAIN longest.path}, PathEdgePairs(longest.path))
  BY <1>4 DEF Result, result, longest, NoHighlight
<1>7. v.query = "longest" /\ ~result.found => longest.cyclic
  BY <1>4 DEF Result, result, longest, Highlight
<1>8. v.query = "shortest" /\ n # Null =>
        result = Highlight({path[i] : i \in DOMAIN path}, PathEdgePairs(path))
  BY <1>4 DEF Result, result, path
<1>9. /\ v.query = "cycles" => result = Highlight(CycleNodes(next, back), Null)
      /\ v.query = "internal" => result = Highlight(RootsOf(v), Null)
      /\ v.query = "external" => result = Highlight(nodes \ RootsOf(v), Null)
      /\ v.query = "centrality" => result = Highlight(Central(nodes, edges), Null)
      /\ v.query = "flagged" => result = Highlight(v.graph.flagged, Null)
  BY <1>4 DEF Result, result, nodes
<1>10. \A a, b : result = Highlight(a, b) =>
         result.found /\ (v.query # "longest" => v.focus = a /\ v.pairs = b)
                      /\ (v.query = "longest" => v.focus = a /\ v.pairs = b /\ v.anchor = s)
  <2> SUFFICES ASSUME NEW a, NEW b, result = Highlight(a, b)
               PROVE  result.found /\ v.focus = a /\ v.pairs = b
                      /\ (v.query = "longest" => v.anchor = s)
    OBVIOUS
  <2>1. result.found = TRUE
    BY DEF Highlight
  <2>2. result = Highlight(v.focus, v.pairs) /\ (v.query \notin Independent => v.anchor = s)
    BY <1>3, <2>1
  <2> DEFINE focus == v.focus
             pairs == v.pairs
  <2>3. focus = a /\ pairs = b
    <3>1. Highlight(a, b) = Highlight(focus, pairs)
      BY <2>2
    <3> HIDE DEF focus, pairs
    <3>2. QED
      BY <3>1, HighlightsAreSame
  <2>4. QED
    BY <2>1, <2>2, <2>3 DEF Independent
<1>11. v.query \notin Independent \cup {"longest"} => v.anchor = s
  BY <1>3
<1>12. v.query = "longest" => longest.cyclic \/ (v.anchor = s /\ IsHighlighted(v, longest.path))
  <2> SUFFICES ASSUME v.query = "longest", ~longest.cyclic
               PROVE  v.anchor = s /\ IsHighlighted(v, longest.path)
    OBVIOUS
  <2>1. result.found
    BY <1>7
  <2>2. result = Highlight({longest.path[i] : i \in DOMAIN longest.path}, PathEdgePairs(longest.path))
    BY <1>6, <2>1
  <2>3. QED
    BY <1>10, <2>2 DEF IsHighlighted, PathEdgePairs
<1>13. v.query = "shortest" => n \in nodes /\ IsHighlighted(v, path)
  <2> SUFFICES ASSUME v.query = "shortest" PROVE n \in nodes /\ IsHighlighted(v, path)
    OBVIOUS
  <2>1. n # Null
    BY <1>2
  <2>2. result = Highlight({path[i] : i \in DOMAIN path}, PathEdgePairs(path))
    BY <1>8, <2>1
  <2>3. QED
    BY <1>3, <1>10, <2>2 DEF IsHighlighted, PathEdgePairs
<1>14. /\ v.query = "direct" => v.focus = {s} \cup next[s] /\ v.pairs = Pairs({e \in edges : e.from = s})
       /\ v.query = "transitive" => v.focus = Walk(s, next)
       /\ v.query = "dependents" => v.focus = Walk(s, back)
  BY <1>5, <1>10
<1>15. /\ v.query = "cycles" => v.focus = CycleNodes(next, back)
       /\ v.query = "internal" => v.focus = RootsOf(v)
       /\ v.query = "external" => v.focus = nodes \ RootsOf(v)
       /\ v.query = "centrality" => v.focus = Central(nodes, edges)
       /\ v.query = "flagged" => v.focus = v.graph.flagged
  BY <1>9, <1>10
<1>16. Told(v, s, n)
  BY <1>3, <1>11, <1>12, <1>13, <1>14, <1>15
     DEF Told, nodes, edges, next, back, longest, path
<1>17. QED
  BY <1>16

\* A package that can be come back to is on a cycle, in the terms of the property.
LEMMA CyclicIsOnCycle ==
  ASSUME workspace \in Workspaces, NEW v, Shows(v), NEW n \in v.graph.nodes
  PROVE  OnCycle(n, Along(v))
           <=> \E m \in Digraphs!Successors(Filtered(v), n) : n \in Reachable(Filtered(v), m)
<1> DEFINE next == Along(v)
<1>1. Neighbours(next) /\ DOMAIN next = v.graph.nodes
  BY FilteredGraph
<1>2. Digraphs!Successors(Filtered(v), n) = next[n] /\ next[n] \subseteq v.graph.nodes
  BY <1>1, ReachableIsReach DEF Neighbours
<1>3. \A m \in v.graph.nodes : Reachable(Filtered(v), m) = Reach(m, next)
  BY ReachableIsReach
<1> HIDE DEF next
<1>4. QED
  BY <1>2, <1>3 DEF OnCycle, next

\* The answers to the queries that only look at the neighbours, or at none.
LEMMA NearAnswers ==
  ASSUME workspace \in Workspaces, NEW v, Shows(v), NEW s, NEW n, Told(v, s, n),
         v.query \in {"direct", "internal", "external", "flagged"}
  PROVE  Answers(v)
<1> DEFINE next == Along(v)
           G == Filtered(v)
<1>1. CASE v.query = "direct"
  <2>1. /\ s \in v.graph.nodes /\ v.anchor = s /\ v.focus = {s} \cup next[s]
        /\ v.pairs = Pairs({e \in FilteredEdges(v) : e.from = s})
    BY <1>1 DEF Told, Independent
  <2>2. Digraphs!Successors(G, s) = next[s]
    BY <2>1, ReachableIsReach
  <2>3. next[s] = {e.to : e \in {x \in FilteredEdges(v) : x.from = s}}
    BY <2>1 DEF Along, Outgoing
  <2>4. v.pairs = {s} \X next[s]
    <3> HIDE DEF next
    <3>1. \A x, y : <<x, y>> \in v.pairs <=> x = s /\ y \in next[s]
      BY <2>1, <2>3 DEF Pairs
    <3>2. \A e \in v.pairs : \E x, y : e = <<x, y>>
      BY <2>1 DEF Pairs
    <3>3. QED
      BY <3>1, <3>2
  <2> HIDE DEF next, G
  <2>5. /\ v.focus = {v.anchor} \cup Digraphs!Successors(G, v.anchor)
        /\ v.pairs = {v.anchor} \X Digraphs!Successors(G, v.anchor)
    BY <2>1, <2>2, <2>4
  <2>6. QED
    BY <1>1, <2>5 DEF Answers, G
<1>2. CASE v.query = "internal"
  BY <1>2 DEF Told, Answers
<1>3. CASE v.query = "external"
  <2>1. RootsOf(v) \subseteq v.graph.nodes
    BY GraphsAreFinite DEF RootsOf
  <2>2. v.focus = v.graph.nodes \ RootsOf(v)
    BY <1>3 DEF Told
  <2>3. QED
    BY <1>3, <2>1, <2>2 DEF Answers
<1>4. CASE v.query = "flagged"
  BY <1>4 DEF Told, Answers
<1>5. QED
  BY <1>1, <1>2, <1>3, <1>4

\* What a package leads to, what leads to it, and what is on a cycle.
LEMMA WalkAnswers ==
  ASSUME workspace \in Workspaces, NEW v, Shows(v), NEW s, NEW n, Told(v, s, n),
         v.query \in {"transitive", "dependents", "cycles"}
  PROVE  Answers(v)
<1> DEFINE next == Along(v)
           back == Turned(next)
           G == Filtered(v)
           reached == [x \in G.node |-> Reachable(G, x)]
<1>1. /\ Neighbours(next) /\ DOMAIN next = v.graph.nodes /\ G.node = v.graph.nodes
      /\ Neighbours(back) /\ DOMAIN back = v.graph.nodes
      /\ Incoming(v.graph.nodes, FilteredEdges(v)) = back
      /\ Turned(back) = next
  BY FilteredGraph, TurnedTwice DEF Filtered
<1>2. \A x \in v.graph.nodes : reached[x] = Reach(x, next)
  BY <1>1, ReachableIsReach
<1>3. CASE v.query = "transitive"
  <2>1. s \in v.graph.nodes /\ v.anchor = s /\ v.focus = Walk(s, next)
    BY <1>3 DEF Told, Independent
  <2> HIDE DEF next, back, reached
  <2>2. v.focus = reached[v.anchor]
    BY <1>1, <1>2, <2>1, WalkIsReach
  <2>3. QED
    BY <1>3, <2>2 DEF Answers, reached, G
<1>4. CASE v.query = "dependents"
  <2>1. s \in v.graph.nodes /\ v.anchor = s /\ v.focus = Walk(s, back)
    BY <1>1, <1>4 DEF Told, Independent
  <2> HIDE DEF next, back, reached, G
  <2>2. v.focus = Reach(s, back)
    BY <1>1, <2>1, WalkIsReach
  <2>3. \A x \in v.graph.nodes : x \in Reach(s, back) => s \in Reach(x, next)
    BY <1>1, <2>1, ReachTurns
  <2>4. \A x \in v.graph.nodes : s \in Reach(x, next) => x \in Reach(s, back)
    BY <1>1, ReachTurns DEF back
  <2>5. Reach(s, back) \subseteq v.graph.nodes
    BY <1>1, <2>1, ReachIsLeast
  <2>6. v.focus = {x \in G.node : v.anchor \in reached[x]}
    BY <1>1, <1>2, <2>1, <2>2, <2>3, <2>4, <2>5
  <2>7. QED
    BY <1>4, <2>6 DEF Answers, reached, G
<1>5. CASE v.query = "cycles"
  <2>1. v.focus = CycleNodes(next, back)
    BY <1>1, <1>5 DEF Told
  <2> HIDE DEF next, back, G
  <2>2. v.focus = {x \in v.graph.nodes : OnCycle(x, next)}
    BY <1>1, <2>1, CyclesAreCycles DEF back
  <2>3. \A x \in v.graph.nodes : OnCycle(x, next) <=> \E m \in Digraphs!Successors(G, x) : x \in Reachable(G, m)
    BY CyclicIsOnCycle DEF next, G
  <2>4. \A x \in v.graph.nodes : Digraphs!Successors(G, x) \subseteq G.node
    BY DEF Digraphs!Successors
  <2>5. \A x \in v.graph.nodes : OnCycle(x, next) <=> \E m \in Digraphs!Successors(G, x) : x \in reached[m]
    BY <2>3, <2>4
  <2> HIDE DEF reached
  <2>6. v.focus = {x \in G.node : \E m \in Digraphs!Successors(G, x) : x \in reached[m]}
    BY <1>1, <2>2, <2>5
  <2>7. QED
    BY <1>5, <2>6 DEF Answers, reached, G
<1>6. QED
  BY <1>3, <1>4, <1>5

\* Those with the most edges.
LEMMA CentralAnswers ==
  ASSUME workspace \in Workspaces, NEW v, Shows(v), NEW s, NEW n, Told(v, s, n),
         v.query = "centrality"
  PROVE  Answers(v)
<1> DEFINE nodes == v.graph.nodes
           edges == FilteredEdges(v)
           rank(x) == Degree(x, edges)
           count == CentralCount(nodes)
           ranked == {x \in nodes : rank(x) > 0}
<1>1. v.focus = Central(nodes, edges)
  BY DEF Told
<1>2. IsFiniteSet(nodes) /\ IsFiniteSet(edges)
  BY FilteredGraph, GraphsAreFinite
<1>3. count \in Nat /\ \A x \in nodes : rank(x) \in Nat
  BY <1>2, DegreeIsANumber, CentralCountIsANumber
<1>4. Chosen(v.focus, count, nodes, edges)
  <2> HIDE DEF edges, nodes
  <2>1. QED
    BY <1>1, <1>2, CentralIsChosen
<1>5. /\ v.focus \in SUBSET ranked
      /\ \A x \in v.focus, m \in ranked \ v.focus : rank(m) <= rank(x)
      /\ Cardinality(v.focus) = count \/ (Cardinality(v.focus) <= count /\ v.focus = ranked)
  BY <1>4 DEF Chosen
<1> HIDE DEF rank, edges, count
<1>6. \A x \in v.focus : rank(x) > 0
  BY <1>5
<1>7. Cardinality(v.focus) <= count
  BY <1>3, <1>5
<1>8. \A x \in v.focus, m \in nodes \ v.focus : rank(x) >= rank(m)
  <2> SUFFICES ASSUME NEW x \in v.focus, NEW m \in nodes \ v.focus PROVE rank(x) >= rank(m)
    OBVIOUS
  <2>1. rank(x) \in Nat /\ rank(m) \in Nat /\ rank(x) > 0
    BY <1>3, <1>5
  <2>2. CASE rank(m) > 0
    BY <1>5, <2>1, <2>2
  <2>3. QED
    BY <2>1, <2>2
<1>9. Cardinality(v.focus) # count => \A m \in nodes \ v.focus : rank(m) = 0
  BY <1>3, <1>5
<1>10. QED
  BY <1>6, <1>7, <1>8, <1>9 DEF Answers, Filtered, rank, edges, count

\* The longest of the paths from a package, or it leads to a cycle.
LEMMA LongestAnswers ==
  ASSUME workspace \in Workspaces, NEW v, Shows(v), NEW s, NEW n, Told(v, s, n),
         v.query = "longest"
  PROVE  Answers(v)
<1> DEFINE next == Along(v)
           G == Filtered(v)
           reached == [x \in G.node |-> Reachable(G, x)]
           cyclic(x) == \E m \in Digraphs!Successors(G, x) : x \in reached[m]
           longest == LongestChain(s, next)
           from == {p \in SimplePaths(G) : p[1] = v.anchor}
<1>1. /\ Neighbours(next) /\ DOMAIN next = v.graph.nodes /\ G.node = v.graph.nodes
  BY FilteredGraph DEF Filtered
<1>2. \A x \in v.graph.nodes : reached[x] = Reach(x, next)
  BY <1>1, ReachableIsReach
<1>3. /\ s \in v.graph.nodes /\ (v.anchor \in v.graph.nodes => v.anchor = s)
      /\ longest.cyclic \/ (v.anchor = s /\ IsHighlighted(v, longest.path))
  BY DEF Told, Independent
<1>4. \A p : p \in SimplePaths(G) <=> Simple(p) /\ \E x, e : Leads(p, x, e, next)
  BY PathsAreSimple
<1>5. \A x \in v.graph.nodes : OnCycle(x, next) <=> cyclic(x)
  <2>1. \A x \in v.graph.nodes : OnCycle(x, next) <=> \E m \in Digraphs!Successors(G, x) : x \in Reachable(G, m)
    BY CyclicIsOnCycle
  <2>2. \A x \in v.graph.nodes : Digraphs!Successors(G, x) \subseteq G.node
    BY DEF Digraphs!Successors
  <2> HIDE DEF next, G
  <2>3. QED
    BY <2>1, <2>2
<1> HIDE DEF next, G, reached, cyclic, longest, from
<1>6. CASE longest.cyclic
  <2>1. \E y \in Reach(s, next) : OnCycle(y, next)
    BY <1>1, <1>3, <1>6, LongestChainIsLongest DEF longest
  <2>2. \E y \in G.node : cyclic(y) /\ (v.anchor \in G.node => y \in reached[v.anchor])
    BY <1>1, <1>2, <1>3, <1>5, <2>1, ReachIsLeast
  <2>3. QED
    BY <2>2 DEF Answers, G, cyclic, reached
<1>7. CASE ~longest.cyclic
  <2> DEFINE p == longest.path
  <2>1. PICK e \in Reach(s, next) :
          /\ Leads(p, s, e, next) /\ Simple(p)
          /\ \A m, q : Leads(q, s, m, next) => Len(q) <= Len(p)
    BY <1>1, <1>3, <1>7, LongestChainIsLongest DEF longest
  <2>2. v.anchor = s /\ IsHighlighted(v, p)
    BY <1>3, <1>7
  <2> HIDE DEF p
  <2>3. p \in from
    BY <1>4, <2>1, <2>2 DEF from, Leads
  <2>4. IsLongest(p, from)
    <3> SUFFICES ASSUME NEW q \in from PROVE Len(q) <= Len(p)
      BY DEF IsLongest
    <3>1. PICK x, m : Leads(q, x, m, next)
      BY <1>4 DEF from
    <3>2. x = s
      BY <2>2, <3>1 DEF from, Leads
    <3>3. QED
      BY <2>1, <3>1, <3>2
  <2>5. \E r \in from : IsHighlighted(v, r) /\ IsLongest(r, from)
    BY <2>2, <2>3, <2>4
  <2>6. QED
    BY <2>5 DEF Answers, G, from
<1>8. QED
  BY <1>6, <1>7

\* A shortest of the paths from a package that was pinned, if there is one.
LEMMA ShortestAnswers ==
  ASSUME workspace \in Workspaces, NEW v, Shows(v), NEW s, NEW n, Told(v, s, n),
         v.query = "shortest"
  PROVE  Answers(v)
<1> DEFINE next == Along(v)
           G == Filtered(v)
           reached == [x \in G.node |-> Reachable(G, x)]
           path == ShortestPath(n, s, next)
           from(x) == {p \in SimplePaths(G) : p[1] = x}
           to(x) == {p \in SimplePaths(G) : p[Len(p)] = x}
           both == from(n) \cap to(s)
<1>1. /\ Neighbours(next) /\ DOMAIN next = v.graph.nodes /\ G.node = v.graph.nodes
      /\ Null \notin DOMAIN next
  BY FilteredGraph, GraphsAreFinite DEF Filtered
<1>2. \A x \in v.graph.nodes : reached[x] = Reach(x, next)
  BY <1>1, ReachableIsReach
<1>3. s \in v.graph.nodes /\ v.anchor = s /\ n \in v.graph.nodes /\ IsHighlighted(v, path)
  BY DEF Told, Independent
<1>4. \A p : p \in SimplePaths(G) <=> Simple(p) /\ \E x, e : Leads(p, x, e, next)
  BY PathsAreSimple
<1> HIDE DEF next, G, reached, path
<1>5. CASE s \notin Reach(n, next)
  <2>1. path = << >>
    BY <1>1, <1>3, <1>5, ShortestPathIsShortest DEF path
  <2>2. \E x \in G.node : v.anchor \notin reached[x] /\ IsHighlighted(v, << >>)
    BY <1>1, <1>2, <1>3, <1>5, <2>1
  <2>3. QED
    BY <2>2 DEF Answers, G, reached
<1>6. CASE s \in Reach(n, next)
  <2>1. /\ Leads(path, n, s, next) /\ Simple(path)
        /\ \A r : Leads(r, n, s, next) => Len(path) <= Len(r)
    BY <1>1, <1>3, <1>6, ShortestPathIsShortest DEF path
  <2>2. path \in both
    BY <1>4, <2>1 DEF Leads
  <2>3. IsShortest(path, both)
    <3> SUFFICES ASSUME NEW q \in both PROVE Len(q) >= Len(path)
      BY DEF IsShortest
    <3>1. PICK x, e : Leads(q, x, e, next)
      BY <1>4
    <3>2. x = n /\ e = s
      BY <3>1 DEF Leads
    <3>3. Len(path) <= Len(q) /\ Len(path) \in Nat /\ Len(q) \in Nat
      <4>1. Len(path) <= Len(q)
        BY <2>1, <3>1, <3>2
      <4>2. path \in Seq(DOMAIN next) /\ q \in Seq(DOMAIN next)
        BY <2>1, <3>1 DEF Leads
      <4>3. QED
        BY <4>1, <4>2
    <3>4. QED
      BY <3>3
  <2>4. \E p \in from(n) \cap to(v.anchor) :
          IsHighlighted(v, p) /\ IsShortest(p, from(n) \cap to(v.anchor))
    BY <1>3, <2>2, <2>3
  <2>5. QED
    BY <1>1, <1>3, <2>4 DEF Answers, G
<1>7. QED
  BY <1>5, <1>6

\* What is highlighted answers the active query (runQuery), for any graphs, whatever is
\* selected, pinned, filtered, reset, loaded, refused and restored in between.
THEOREM HighlightAnswers == Spec => []HighlightAnswersQuery
<1>1. Viewed /\ Said(view) => HighlightAnswersQuery
  <2> SUFFICES ASSUME Viewed, Said(view), view.query # "", ~view.unasked PROVE Answers(view)
    BY Zenon DEF HighlightAnswersQuery
  <2>1. workspace \in Workspaces /\ Shows(view) /\ view.query \in Queries
    BY Zenon DEF Viewed, Shows
  <2>2. PICK s, n : Told(view, s, n)
    BY <2>1, SaidIsTold
  <2>3. \/ view.query \in {"direct", "internal", "external", "flagged"}
        \/ view.query \in {"transitive", "dependents", "cycles"}
        \/ view.query = "centrality" \/ view.query = "longest" \/ view.query = "shortest"
    BY <2>1 DEF Queries, Independent
  <2>4. QED
    BY <2>1, <2>2, <2>3, NearAnswers, WalkAnswers, CentralAnswers, LongestAnswers,
       ShortestAnswers
<1>2. QED
  BY ViewedHolds, SaidHolds, <1>1, PTL
=================================================================================
