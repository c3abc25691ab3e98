------------------------------ MODULE GraphQueries ------------------------------
(***************************************************************************)
(* What the queries of the dependency-graph element compute               *)
(* (dependency-graph.js): traversals of a graph given as the set of        *)
(* neighbours of each package, and the selections that need none.          *)
(*                                                                         *)
(* Maps and Sets keep their order of insertion in the code; neighbours     *)
(* come in an arbitrary fixed order here.                                  *)
(***************************************************************************)
EXTENDS Integers, FiniteSets, Sequences, SequencesExt

CONSTANTS
  Null,           \* none, and the empty string of a link
  CentralShare,   \* one in so many packages is central, at least one (10)
  MostCentral     \* MAX of them (20)

ASSUME QueriesAssumption == CentralShare \in Nat \ {0} /\ MostCentral \in Nat \ {0}

\* adjacency, from "from" to "to" and the other way round.
Outgoing(nodes, edges) == [n \in nodes |-> {e.to : e \in {x \in edges : x.from = n}}]
Incoming(nodes, edges) == [n \in nodes |-> {e.from : e \in {x \in edges : x.to = n}}]

-----------------------------------------------------------------------------
\* The breadth-first queue once its k-th entry was looked at: each package once,
\* with the one it was found from.
Looked(q, k, next) ==
  LET seen == {x.node : x \in ToSet(q)}
  IN  IF k > Len(q) THEN q
      ELSE q \o SetToSeq({[node |-> n, previous |-> q[k].node] :
                            n \in next[q[k].node] \ seen})

Search(start, next) ==
  LET queue[k \in 0 .. Cardinality(DOMAIN next)] ==
        IF k = 0 THEN << [node |-> start, previous |-> Null] >>
        ELSE Looked(queue[k - 1], k, next)
  IN  queue[Cardinality(DOMAIN next)]

Walk(start, next) == {x.node : x \in ToSet(Search(start, next))}

\* A path with the step before it, and << >> if there is none.
Extended(p, found) ==
  LET previous == (CHOOSE x \in ToSet(found) : x.node = p[1]).previous
  IN  IF previous = Null THEN p ELSE <<previous>> \o p

ShortestPath(start, end, next) ==
  LET found == Search(start, next)
      path[k \in 0 .. Len(found)] ==      \* the last k steps of it
        IF k = 0 THEN <<end>> ELSE Extended(path[k - 1], found)
  IN  IF \E x \in ToSet(found) : x.node = end THEN path[Len(found)] ELSE << >>

\* The packages of a set that lead to one of it.
Before(reachable, next) == [n \in reachable |-> {m \in reachable : n \in next[m]}]

\* The queue of longestChain once its k-th package left it.
Left(q, k, before, next) ==
  IF k > Len(q) THEN q
  ELSE q \o SetToSeq({n \in next[q[k]] : before[n] \subseteq {q[i] : i \in 1 .. k}})

\* What can be reached, in an order in which each comes after all that lead to
\* it; shorter than what can be reached if that has a cycle.
TopologicalOrder(reachable, next) ==
  LET before == Before(reachable, next)
      order[k \in 0 .. Cardinality(reachable)] ==
        IF k = 0 THEN SetToSeq({n \in reachable : before[n] = {}})
        ELSE Left(order[k - 1], k, before, next)
  IN  order[Cardinality(reachable)]

\* A longer chain to what a package leads to, by way of that package.
Relaxed(chain, id, next) ==
  [n \in DOMAIN chain |->
     IF n \in next[id] /\ Len(chain[id]) + 1 > Len(chain[n])
     THEN Append(chain[id], n) ELSE chain[n]]

\* A chain of the most edges, and whether there is no such thing.
LongestChain(start, next) ==
  LET reachable == Walk(start, next)
      ordered == TopologicalOrder(reachable, next)
      cyclic == Len(ordered) # Cardinality(reachable)
      chains[k \in 0 .. Len(ordered)] ==
        IF k = 0 THEN [n \in reachable |-> IF n = start THEN <<start>> ELSE << >>]
        ELSE Relaxed(chains[k - 1], ordered[k], next)
      chain == chains[Len(ordered)]
      end == CHOOSE n \in reachable : \A m \in reachable : Len(chain[m]) <= Len(chain[n])
  IN  [cyclic |-> cyclic, path |-> IF cyclic THEN << >> ELSE chain[end]]

\* The depth-first search of cycleNodes, with the stack of the code: a package
\* finishes when all that was found from it has.
Visit(id) == [id |-> id, expanded |-> FALSE]

Popped(s, next) ==
  LET top == Head(s.stack)
      rest == Tail(s.stack)
      visited == s.visited \cup {top.id}
  IN  IF s.stack = << >> THEN s
      ELSE IF top.expanded THEN [s EXCEPT !.stack = rest, !.finished = Append(@, top.id)]
      ELSE IF top.id \in s.visited THEN [s EXCEPT !.stack = rest]
      ELSE [s EXCEPT !.visited = visited,
                     !.stack = SetToSeq({Visit(n) : n \in next[top.id] \ visited})
                               \o << [top EXCEPT !.expanded = TRUE] >> \o rest]

FinishOrder(next) ==
  LET Steps == Cardinality(DOMAIN next) * (Cardinality(DOMAIN next) + 2)
      state[k \in 0 .. Steps] ==
        IF k = 0
        THEN [stack |-> SetToSeq({Visit(n) : n \in DOMAIN next}),
              visited |-> {}, finished |-> << >>]
        ELSE Popped(state[k - 1], next)
  IN  state[Steps].finished

\* Mutant: a package that depends on itself is a component of one.
CycleNodesOfSeveral(outgoing, incoming) ==
  {n \in DOMAIN outgoing : \E m \in Walk(n, outgoing) \ {n} : n \in Walk(m, outgoing)}

\* Strongly connected components: backwards from each package, last finished
\* first, through what no component has yet.
Assigned(s, start, outgoing, incoming) ==
  LET free == DOMAIN incoming \ s.assigned
      component == Walk(start, [n \in free |-> incoming[n] \cap free])
  IN  IF start \in s.assigned THEN s
      ELSE [assigned |-> s.assigned \cup component,
            cycles |-> IF Cardinality(component) > 1 \/ start \in outgoing[start]
                       THEN s.cycles \cup component ELSE s.cycles]

CycleNodes(outgoing, incoming) ==
  LET finished == FinishOrder(outgoing)
      after[k \in 0 .. Len(finished)] ==
        IF k = 0 THEN [assigned |-> {}, cycles |-> {}]
        ELSE Assigned(after[k - 1], finished[Len(finished) - k + 1], outgoing, incoming)
  IN  after[Len(finished)].cycles

-----------------------------------------------------------------------------
\* aggregateQueryNodes: the packages with the most edges, of those with any.
Degree(n, edges) ==
  Cardinality({e \in edges : e.from = n}) + Cardinality({e \in edges : e.to = n})

CentralCount(nodes) ==
  LET share == (Cardinality(nodes) + CentralShare - 1) \div CentralShare
  IN  IF share > MostCentral THEN MostCentral ELSE IF share = 0 THEN 1 ELSE share

\* With the next of those ranked, if one is left.
Ranked(chosen, ranked, edges) ==
  LET rest == ranked \ chosen
  IN  IF rest = {} THEN chosen
      ELSE chosen \cup {CHOOSE n \in rest : \A m \in rest : Degree(m, edges) <= Degree(n, edges)}

Central(nodes, edges) ==
  LET greatest[k \in 0 .. CentralCount(nodes)] ==
        IF k = 0 THEN {}
        ELSE Ranked(greatest[k - 1], {n \in nodes : Degree(n, edges) > 0}, edges)
  IN  greatest[CentralCount(nodes)]

\* pathEdgePairs
PathEdgePairs(path) == {<<path[i], path[i + 1]>> : i \in 1 .. Len(path) - 1}
=================================================================================
