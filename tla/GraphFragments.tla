----------------------------- MODULE GraphFragments -----------------------------
(***************************************************************************)
(* The server-rendered panels of the dependency-graph element              *)
(* (requestFragment and its callers in dependency-graph.js): a panel is    *)
(* rendered by the element itself, and the form of that rendering is then  *)
(* posted to dependency_graph_fragments.rs, whose answer htmx swaps in.    *)
(*                                                                         *)
(* The element calls htmx.ajax without a source, so htmx keeps every such  *)
(* request with the document's body: one is on the wire at a time, one     *)
(* more waits and is replaced by a later one, and the promise of one that  *)
(* waits is resolved at once (static/htmx.min.js, function he).  Aborting  *)
(* a panel finds no request of its own and does nothing.                   *)
(*                                                                         *)
(* An event of the page, and an answer, run to their end; the reactions to *)
(* promises they resolved run next, before anything else.                  *)
(***************************************************************************)
EXTENDS Integers, Sequences

CONSTANTS
  Nodes,         \* packages of the loaded graph
  None,
  Oversized,     \* those with more or longer text than the server renders
  PageSize,      \* QUERY_RESULT_PAGE_SIZE and QUERY_PAGE_SIZE
  MaxResults,    \* MAX_GRAPH_NODES and MAX_QUERY_RESULTS
  MaxTableRows,  \* MAX_FRAGMENT_TABLE_EDGES and MAX_FRAGMENT_RELATIONSHIPS
  MaxEdges,      \* MAX_GRAPH_EDGES and MAX_RELATIONSHIPS
  MaxEvents      \* bound: what the visitor and the page do

ASSUME FragmentsAssumption ==
  /\ None \notin Nodes /\ Oversized \subseteq Nodes
  /\ PageSize \in Nat \ {0}
  /\ {MaxResults, MaxTableRows, MaxEdges, MaxEvents} \subseteq Nat

VARIABLES
  ui,       \* the element, its panels and htmx
  events    \* how often something was done

fragmentVars == <<ui, events>>

Surfaces == {"inspector", "query", "table", "state"}

Form(surface, node, page, total, rows) ==
  [surface |-> surface, node |-> node, page |-> page, total |-> total, rows |-> rows]

NoForm    == Form("none", None, 0, 0, 0)
NoRequest == [form |-> NoForm, sequence |-> 0, mounted |-> 0, promised |-> FALSE]

\* What a panel holds: whose rendering of which form, and how many listeners
\* each of its buttons has.
Rendering(source, form, bound) == [source |-> source, form |-> form, bound |-> bound]
Blank == Rendering("blank", NoForm, 0)

SmallerOf(a, b) == IF a < b THEN a ELSE b

-----------------------------------------------------------------------------
(* Requests. *)

\* requestFragment of a form that was just rendered.  What has to wait behind
\* another panel's request has its promise resolved now, and nothing to tell
\* when it is answered.
Post(w, form) ==
  LET n == w.sequence[form.surface] + 1
      request == [form |-> form, sequence |-> n, mounted |-> w.mounted, promised |-> TRUE]
      sent == [w EXCEPT !.sequence[form.surface] = n]
  IN  IF w.wire = NoRequest THEN [sent EXCEPT !.wire = request]
      ELSE [sent EXCEPT !.queued = [request EXCEPT !.promised = FALSE],
                        !.reactions = Append(@, request)]

Rendered(w, form) ==
  Post([w EXCEPT !.panel[form.surface] = Rendering("local", form, 1)], form)

Blanked(w, surface) ==
  [w EXCEPT !.sequence[surface] = @ + 1, !.panel[surface] = Blank]

-----------------------------------------------------------------------------
(* Renderings. *)

RenderInspector(w) ==
  IF w.selected = None THEN Blanked(w, "inspector")
  ELSE Rendered(w, Form("inspector", w.selected, 0, 0, 0))

Pages(total) == IF total = 0 THEN 1 ELSE (total + PageSize - 1) \div PageSize

\* Mutant: the page is taken as it stands.
PageAsItStands(page, total) == page

\* The clamp of renderQuerySummary.
Clamped(page, total) == IF page < 0 THEN 0 ELSE SmallerOf(page, Pages(total) - 1)

RenderQuerySummary(w) ==
  IF w.matches = None THEN Blanked(w, "query")
  ELSE LET page == Clamped(w.page, w.matches)
           left == w.matches - page * PageSize
           rows == IF left < 0 THEN 0 ELSE SmallerOf(left, PageSize)
       IN  Rendered([w EXCEPT !.page = page], Form("query", None, page, w.matches, rows))

RenderGraph(w) == RenderQuerySummary(RenderInspector(w))

RenderAccessibleTable(w, edges) ==
  Rendered(w, Form("table", None, 0, edges, SmallerOf(edges, MaxTableRows)))

-----------------------------------------------------------------------------
(* What the visitor and the page do. *)

Quiet == ui.reactions = << >>

Happens(w) ==
  /\ Quiet /\ events < MaxEvents
  /\ events' = events + 1
  /\ ui' = w

SelectNode(n) == Happens(RenderGraph([ui EXCEPT !.selected = n]))

\* A query that finds so many packages, or "clear".
RunQuery(found) == Happens(RenderGraph([ui EXCEPT !.matches = found, !.page = 0]))

\* A click on Previous or Next runs each of the button's listeners, also those
\* left once the first has replaced the button; a button without one is dead.
TurnPage(step) ==
  LET shown == ui.panel["query"]
      turned[k \in 0 .. shown.bound] ==
        IF k = 0 THEN ui
        ELSE RenderQuerySummary([turned[k - 1] EXCEPT !.page = @ + step])
  IN  /\ ui.matches # None /\ shown.bound > 0
      /\ shown.form.page + step \in 0 .. Pages(shown.form.total) - 1
      /\ Happens(turned[shown.bound])

\* afterGraphLoaded, of a graph whose first root is selected; a query that was
\* active is run again and finds what it finds.
GraphLoaded(root, edges, found) ==
  LET cleared  == RenderGraph([ui EXCEPT !.selected = None, !.matches = None])
      tabled   == RenderAccessibleTable(cleared, edges)
      selected == RenderGraph([tabled EXCEPT !.selected = root])
  IN  /\ (found = None) <=> (ui.matches = None)
      /\ Happens(IF found = None THEN RenderQuerySummary(selected)
                 ELSE RenderGraph([selected EXCEPT !.matches = found, !.page = 0]))

\* Layout, search and filters draw the graph again; so does a package that was
\* expanded, with its relationships.
Redraw == Happens(RenderGraph(ui))
Expanded(edges) == Happens(RenderAccessibleTable(RenderGraph(ui), edges))

\* saveView, restoreSavedView, copyShareLink.
RequestStateFragment == Happens(Post(ui, Form("state", None, 0, 0, 0)))

\* disconnectedCallback and connectedCallback: the sequences start again and the
\* panels are new; the requests go on.
Reattach ==
  Happens([ui EXCEPT !.sequence = [s \in Surfaces |-> 0],
                     !.mounted = @ + 1, !.panel = [s \in Surfaces |-> Blank]])

-----------------------------------------------------------------------------
(* Answers, and the reactions to promises. *)

\* The server's checks.  The numbers of a page of rows have to agree, and the
\* text of a package to fit.
ValidQuery(form) ==
  /\ form.total <= MaxResults /\ form.rows <= PageSize
  /\ form.page \in 0 .. Pages(form.total) - 1
  /\ form.rows = SmallerOf(form.total - form.page * PageSize, PageSize)

ValidTable(form) ==
  /\ form.total <= MaxEdges
  /\ form.rows <= MaxTableRows /\ form.rows <= form.total

ValidInspector(form) == form.node \notin Oversized

Consistent(form) ==
  /\ form.surface = "query" => ValidQuery(form)
  /\ form.surface = "table" => ValidTable(form)

Accepted(form) == Consistent(form) /\ ValidInspector(form)

\* What the server renders of a form: buttons without listeners.
Fragment(form) == Rendering("htmx", form, 0)

\* onload, onerror: the promise is settled, and what waits is sent.
Ended(w, resolves) ==
  [w EXCEPT !.wire = w.queued, !.queued = NoRequest,
            !.reactions = IF resolves /\ w.wire.promised THEN Append(@, w.wire) ELSE @]

Answering == Quiet /\ ui.wire # NoRequest /\ UNCHANGED events

\* The answer is swapped into the panel it was asked for, if that is still there.
Swap ==
  LET form == ui.wire.form
  IN  /\ Answering /\ Accepted(form)
      /\ ui' = Ended(IF ui.wire.mounted = ui.mounted
                     THEN [ui EXCEPT !.panel[form.surface] = Fragment(form)]
                     ELSE ui, TRUE)

\* 400, or an error of the timeout layer: nothing is swapped, and the promise
\* resolves all the same.
ErrorAnswer == Answering /\ ui' = Ended(ui, TRUE)

\* No answer: the promise is rejected.
SendError == Answering /\ ui' = Ended(ui, FALSE)

\* afterSwap, unless there has been a later request for the panel: the controls
\* are bound, or the inspector rendered again if another package is selected.
AfterSwap ==
  LET request == Head(ui.reactions)
      surface == request.form.surface
      w == [ui EXCEPT !.reactions = Tail(@)]
  IN  /\ ~Quiet
      /\ ui' = IF request.sequence # w.sequence[surface] \/ surface \in {"table", "state"}
               THEN w
               ELSE IF surface = "inspector" /\ w.selected # request.form.node
               THEN RenderInspector(w)
               ELSE [w EXCEPT !.panel[surface].bound = @ + 1]
      /\ UNCHANGED events

-----------------------------------------------------------------------------
FragmentsInit ==
  /\ ui = [selected |-> None, matches |-> None, page |-> 0, mounted |-> 0,
           sequence |-> [s \in Surfaces |-> 0], panel |-> [s \in Surfaces |-> Blank],
           wire |-> NoRequest, queued |-> NoRequest, reactions |-> << >>]
  /\ events = 0

Found == 0 .. MaxResults

FragmentsNext ==
  \/ \E n \in Nodes \cup {None} : SelectNode(n)
  \/ \E found \in Found \cup {None} :
       \/ RunQuery(found)
       \/ \E root \in Nodes, edges \in 0 .. MaxEdges : GraphLoaded(root, edges, found)
  \/ \E step \in {-1, 1} : TurnPage(step)
  \/ \E edges \in 0 .. MaxEdges : Expanded(edges)
  \/ Redraw \/ RequestStateFragment \/ Reattach
  \/ Swap \/ ErrorAnswer \/ SendError \/ AfterSwap

-----------------------------------------------------------------------------
(* Properties. *)

\* Whatever page of whatever result is posted, the server's own arithmetic
\* (valid_query, valid_table) agrees with the element's (renderQuerySummary,
\* renderAccessibleTable): no page is refused for its numbers, although one click
\* may turn several pages, results change under a page, and forms wait while the
\* page is turned on.
PostsAreConsistent == Consistent(ui.wire.form) /\ Consistent(ui.queued.form)

\* What dependency_graph_fragments.rs:6 says: a rejected fragment leaves the
\* element's own rendering of it in place.
RejectionKeepsLocalRendering ==
  [][LET request == ui.wire
         surface == request.form.surface
     IN  /\ ErrorAnswer /\ ~Accepted(request.form)
         /\ request.mounted = ui.mounted
         /\ request.sequence = ui.sequence[surface]
         => ui'.panel[surface].source = "local"]_fragmentVars
=================================================================================
