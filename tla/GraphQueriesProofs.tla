--------------------------- MODULE GraphQueriesProofs ---------------------------
(***************************************************************************)
(* What the queries of the dependency-graph element compute, for every     *)
(* finite graph: the walk finds what can be reached, the shortest path is  *)
(* one, the longest chain is one or there is a cycle, the packages on      *)
(* cycles are those that cycleNodes finds, and the central ones have the   *)
(* most edges.                                                             *)
(***************************************************************************)
EXTENDS GraphQueries, FiniteSetTheorems, WellFoundedInduction, TLAPS

-----------------------------------------------------------------------------
(* Induction and recursion. *)

\* Induction over the natural numbers, for a set of them.
LEMMA Induction ==
  ASSUME NEW S, 0 \in S, \A n \in Nat : n \in S => n + 1 \in S
  PROVE  Nat \subseteq S
<1> DEFINE Rel == {ss \in Nat \X Nat : ss[1] < ss[2]}
           Bad == Nat \ S
<1>1. IsWellFoundedOn(Rel, Nat)
  BY NatLessThanWellFounded DEF OpToRel
<1> HIDE DEF Rel
<1>2. SUFFICES ASSUME Bad # {} PROVE FALSE
  OBVIOUS
<1>3. PICK x \in Bad : \A y \in Bad : <<y, x>> \notin Rel
  BY <1>1, <1>2, WFMin
<1>4. x \in Nat /\ x # 0
  BY <1>3
<1>5. <<x - 1, x>> \in Rel /\ x - 1 \in Nat
  BY <1>4 DEF Rel
<1>6. x - 1 \in S
  BY <1>3, <1>5
<1>7. QED
  BY <1>3, <1>4, <1>5, <1>6

\* What a recursive definition up to n needs: there is such a function.
Recurses(f, base, step, n, T) ==
  /\ f \in [0 .. n -> T] /\ f[0] = base
  /\ \A k \in 1 .. n : f[k] = step[<<f[k - 1], k>>]

\* A definition that goes on from its last value, up to n.
LEMMA Recursion ==
  ASSUME NEW T, NEW base \in T, NEW n \in Nat, NEW step \in [T \X (1 .. n) -> T]
  PROVE  \E f : Recurses(f, base, step, n, T)
<1> DEFINE Good(m, f) == /\ f \in [0 .. m -> T] /\ f[0] = base
                         /\ \A k \in 1 .. m : f[k] = step[<<f[k - 1], k>>]
           S == {m \in Nat : m <= n => \E f : Good(m, f)}
<1>1. 0 \in S
  <2>1. Good(0, [k \in 0 .. 0 |-> base])
    OBVIOUS
  <2>2. QED
    BY <2>1
<1>2. ASSUME NEW m \in Nat, m \in S PROVE m + 1 \in S
  <2>1. SUFFICES ASSUME m + 1 <= n PROVE \E f : Good(m + 1, f)
    OBVIOUS
  <2>2. PICK f : Good(m, f)
    BY <1>2, <2>1
  <2> DEFINE g == [k \in 0 .. m + 1 |-> IF k <= m THEN f[k] ELSE step[<<f[m], m + 1>>]]
  <2>3. step[<<f[m], m + 1>>] \in T
    BY <2>1, <2>2
  <2>4. g \in [0 .. m + 1 -> T] /\ g[0] = base
    BY <2>2, <2>3
  <2>5. \A k \in 0 .. m : g[k] = f[k]
    OBVIOUS
  <2>6. g[m + 1] = step[<<g[m], m + 1>>]
    <3>1. m + 1 \in 0 .. m + 1 /\ ~(m + 1 <= m) /\ m \in 0 .. m
      OBVIOUS
    <3>2. g[m + 1] = step[<<f[m], m + 1>>]
      BY <3>1
    <3>3. QED
      BY <2>5, <3>1, <3>2
  <2> HIDE DEF g
  <2>7. ASSUME NEW k \in 1 .. m + 1 PROVE g[k] = step[<<g[k - 1], k>>]
    <3>1. CASE k \in 1 .. m
      BY <2>2, <2>5, <3>1
    <3>2. CASE k = m + 1
      BY <2>6, <3>2
    <3>3. QED
      BY <3>1, <3>2
  <2> QED
    BY <2>4, <2>7
<1>3. n \in S
  BY <1>1, <1>2, Induction
<1>4. QED
  BY <1>3 DEF Recurses

\* A set as a sequence: each of its members, once.
LEMMA SetAsSequence ==
  ASSUME NEW S, IsFiniteSet(S)
  PROVE  /\ SetToSeq(S) \in Seq(S) /\ Len(SetToSeq(S)) = Cardinality(S)
         /\ Cardinality(S) \in Nat
         /\ \A x \in S : \E i \in 1 .. Len(SetToSeq(S)) : SetToSeq(S)[i] = x
         /\ \A i, j \in 1 .. Len(SetToSeq(S)) :
              SetToSeq(S)[i] = SetToSeq(S)[j] => i = j
<1> DEFINE n == Cardinality(S)
           s == SetToSeq(S)
<1>1. n \in Nat /\ ExistsBijection(1 .. n, S)
  BY FS_CardinalityType
<1>2. PICK f \in [1 .. n -> S] : IsInjective(f)
  BY <1>1 DEF ExistsBijection, Bijection, Injection, IsInjective
<1>3. s \in [1 .. n -> S] /\ IsInjective(s)
  BY <1>2 DEF SetToSeq
<1>4. IsFiniteSet(1 .. n) /\ Cardinality(1 .. n) = n
  BY <1>1, FS_Interval
<1>5. s \in Injection(1 .. n, S)
  BY <1>3 DEF Injection, IsInjective
<1>6. s \in Surjection(1 .. n, S)
  BY <1>1, <1>4, <1>5, FS_Injection
<1> HIDE DEF s
<1>7. s \in Seq(S) /\ Len(s) = n
  BY <1>1, <1>3
<1>8. QED
  BY <1>1, <1>3, <1>6, <1>7 DEF IsInjective, Surjection, s

-----------------------------------------------------------------------------
(* What can be reached. *)

\* The neighbours of each package, in a graph that is finite.
Neighbours(next) ==
  /\ IsFiniteSet(DOMAIN next)
  /\ next \in [DOMAIN next -> SUBSET DOMAIN next]

\* What nothing leads out of.
Closed(S, next) == \A n \in S : next[n] \subseteq S

\* What every closed set with the start has.
Reach(start, next) ==
  {n \in DOMAIN next : \A S \in SUBSET DOMAIN next : start \in S /\ Closed(S, next) => n \in S}

\* What can be reached is the least closed set with the start.
LEMMA ReachIsLeast ==
  ASSUME NEW next, Neighbours(next), NEW start \in DOMAIN next
  PROVE  /\ start \in Reach(start, next)
         /\ Reach(start, next) \subseteq DOMAIN next
         /\ Closed(Reach(start, next), next)
         /\ \A S \in SUBSET DOMAIN next :
              start \in S /\ Closed(S, next) => Reach(start, next) \subseteq S
BY DEF Reach, Closed, Neighbours

\* What is reached from what is reached.
LEMMA ReachIsTransitive ==
  ASSUME NEW next, Neighbours(next), NEW start \in DOMAIN next, NEW n \in Reach(start, next)
  PROVE  n \in DOMAIN next /\ Reach(n, next) \subseteq Reach(start, next)
BY ReachIsLeast

\* A neighbour of what is reached.
LEMMA ReachSteps ==
  ASSUME NEW next, Neighbours(next), NEW start \in DOMAIN next,
         NEW m \in Reach(start, next), NEW n \in next[m]
  PROVE  n \in Reach(start, next)
BY ReachIsLeast DEF Closed

\* What is reached is the start, or is reached from one of its neighbours.
LEMMA ReachByFirstStep ==
  ASSUME NEW next, Neighbours(next), NEW start \in DOMAIN next,
         NEW n \in Reach(start, next), n # start
  PROVE  \E m \in next[start] : n \in Reach(m, next)
<1> DEFINE S == {start} \cup UNION {Reach(m, next) : m \in next[start]}
<1>1. next[start] \subseteq DOMAIN next
  BY DEF Neighbours
<1>2. S \subseteq DOMAIN next
  BY <1>1, ReachIsLeast
<1>3. Closed(S, next)
  <2>1. ASSUME NEW x \in S PROVE next[x] \subseteq S
    <3>1. CASE x = start
      BY <1>1, <3>1, ReachIsLeast
    <3>2. ASSUME NEW m \in next[start], x \in Reach(m, next) PROVE next[x] \subseteq S
      <4>1. next[x] \subseteq Reach(m, next)
        BY <1>1, <3>2, ReachIsLeast DEF Closed
      <4>2. QED
        BY <4>1
    <3>3. QED
      BY <3>1, <3>2
  <2>2. QED
    BY <2>1 DEF Closed
<1>4. n \in S
  BY <1>2, <1>3, ReachIsLeast
<1>5. QED
  BY <1>4

\* What is reached is the start, or a neighbour of what is reached.
LEMMA ReachByLastStep ==
  ASSUME NEW next, Neighbours(next), NEW start \in DOMAIN next,
         NEW n \in Reach(start, next), n # start
  PROVE  \E m \in Reach(start, next) : n \in next[m]
<1> DEFINE S == {x \in Reach(start, next) : x = start \/ \E m \in Reach(start, next) : x \in next[m]}
<1>1. S \subseteq DOMAIN next /\ start \in S
  BY ReachIsLeast
<1>2. Closed(S, next)
  BY ReachSteps DEF Closed
<1>3. n \in S
  BY <1>1, <1>2, ReachIsLeast
<1>4. QED
  BY <1>3

\* The other way round.
Turned(next) == [n \in DOMAIN next |-> {m \in DOMAIN next : n \in next[m]}]

\* What can be reached reaches back the other way round.
LEMMA ReachTurns ==
  ASSUME NEW next, Neighbours(next), NEW m \in DOMAIN next, NEW n \in Reach(m, next)
  PROVE  m \in Reach(n, Turned(next))
<1> DEFINE back == Turned(next)
           S == {x \in DOMAIN next : m \in Reach(x, back)}
<1>1. Neighbours(back) /\ DOMAIN back = DOMAIN next
  BY DEF Turned, Neighbours
<1>2. m \in S
  BY <1>1, ReachIsLeast
<1>3. Closed(S, next)
  <2>1. ASSUME NEW x \in S, NEW y \in next[x] PROVE y \in S
    <3>1. y \in DOMAIN next /\ x \in back[y]
      BY <2>1 DEF Turned, Neighbours
    <3>2. y \in Reach(y, back)
      BY <1>1, <3>1, ReachIsLeast
    <3> HIDE DEF back
    <3>3. x \in Reach(y, back)
      BY <1>1, <3>1, <3>2, ReachSteps
    <3>4. m \in Reach(y, back)
      BY <1>1, <2>1, <3>1, <3>3, ReachIsTransitive
    <3>5. QED
      BY <3>1, <3>4
  <2>2. QED
    BY <2>1 DEF Closed
<1>4. n \in S
  BY <1>2, <1>3, ReachIsLeast
<1>5. QED
  BY <1>4

\* Turned twice, a graph is as it was.
LEMMA TurnedTwice ==
  ASSUME NEW next, Neighbours(next)
  PROVE  Turned(Turned(next)) = next /\ Neighbours(Turned(next)) /\ DOMAIN Turned(next) = DOMAIN next
BY DEF Turned, Neighbours

-----------------------------------------------------------------------------
(* Breadth-first search. *)

\* The packages of the queue, and what its entries may be.
NodesOf(q) == {q[i].node : i \in 1 .. Len(q)}

Entries(next) == [node : DOMAIN next, previous : DOMAIN next \cup {Null}]

\* The queue after k entries were looked at.
Queued(q, k, start, next) ==
  /\ q \in Seq(Entries(next)) /\ Len(q) >= 1
  /\ q[1] = [node |-> start, previous |-> Null]
  /\ \A i, j \in 1 .. Len(q) : q[i].node = q[j].node => i = j
  /\ NodesOf(q) \subseteq Reach(start, next)
  /\ \A i \in 1 .. Len(q) : i <= k => next[q[i].node] \subseteq NodesOf(q)

\* d says how far each entry is: one further than the one it was found from, and
\* no entry comes before a nearer one.
Levelled(q, k, next, d) ==
  /\ d \in [1 .. Len(q) -> Nat] /\ d[1] = 1
  /\ \A i \in 2 .. Len(q) :
       \E h \in 1 .. i - 1 : /\ q[h].node = q[i].previous
                             /\ q[i].node \in next[q[h].node]
                             /\ d[i] = d[h] + 1
  /\ \A i, j \in 1 .. Len(q) : i <= j => d[i] <= d[j]
  /\ k = 0 => Len(q) = 1
  /\ k \in 1 .. Len(q) => \A j \in 1 .. Len(q) : d[j] <= d[k] + 1
  /\ \A i, j \in 1 .. Len(q) :
       i <= k /\ q[j].node \in next[q[i].node] => d[j] <= d[i] + 1

\* One sequence after another.
Joined(t, q, r, S) ==
  /\ t \in Seq(S) /\ Len(q) \in Nat /\ Len(r) \in Nat /\ Len(t) = Len(q) + Len(r)
  /\ \A i \in 1 .. Len(q) : i \in 1 .. Len(t) /\ t[i] = q[i]
  /\ \A i \in 1 .. Len(t) : i > Len(q) => i - Len(q) \in 1 .. Len(r) /\ t[i] = r[i - Len(q)]
  /\ \A i \in 1 .. Len(r) : i + Len(q) \in 1 .. Len(t) /\ i + Len(q) > Len(q) /\ t[i + Len(q)] = r[i]

\* One sequence after another.
LEMMA Concatenated ==
  ASSUME NEW S, NEW q \in Seq(S), NEW r \in Seq(S), NEW t, t = q \o r
  PROVE  Joined(t, q, r, S)
<1>1. t \in Seq(S) /\ Len(q) \in Nat /\ Len(r) \in Nat /\ Len(t) = Len(q) + Len(r)
  OBVIOUS
<1>2. \A i \in 1 .. Len(q) : i \in 1 .. Len(t) /\ t[i] = q[i]
  OBVIOUS
<1>3. \A i \in 1 .. Len(t) : i > Len(q) => i - Len(q) \in 1 .. Len(r) /\ t[i] = r[i - Len(q)]
  OBVIOUS
<1>4. ASSUME NEW i \in 1 .. Len(r)
      PROVE  i + Len(q) \in 1 .. Len(t) /\ i + Len(q) > Len(q) /\ t[i + Len(q)] = r[i]
  <2>1. i + Len(q) \in 1 .. Len(t) /\ i + Len(q) > Len(q) /\ (i + Len(q)) - Len(q) = i
    BY <1>1
  <2>2. QED
    BY <1>3, <2>1
<1>5. QED
  BY <1>1, <1>2, <1>3, <1>4 DEF Joined

\* A queue and what was found from one of its entries.
Grown(t, q, N, here, next) ==
  /\ t \in Seq(Entries(next)) /\ Len(q) \in Nat /\ Len(t) \in Nat /\ Len(q) <= Len(t)
  /\ \A i \in 1 .. Len(q) : i \in 1 .. Len(t) /\ t[i] = q[i]
  /\ \A i \in 1 .. Len(t) : i > Len(q) => t[i].node \in N /\ t[i].previous = here
  /\ \A i, j \in 1 .. Len(t) :
       i > Len(q) /\ j > Len(q) /\ t[i].node = t[j].node => i = j
  /\ NodesOf(t) = NodesOf(q) \cup N

\* The neighbours of a package at the end of the queue.
LEMMA QueueGrows ==
  ASSUME NEW next, NEW q \in Seq(Entries(next)), NEW N \in SUBSET DOMAIN next, IsFiniteSet(N),
         NEW here \in DOMAIN next, NEW t,
         t = q \o SetToSeq({[node |-> n, previous |-> here] : n \in N})
  PROVE  Grown(t, q, N, here, next)
<1> DEFINE new == {[node |-> n, previous |-> here] : n \in N}
           r == SetToSeq(new)
           l == Len(q)
<1>1. IsFiniteSet(new)
  <2> DEFINE f == [n \in N |-> [node |-> n, previous |-> here]]
  <2>1. f \in Surjection(N, new)
    BY DEF Surjection
  <2> HIDE DEF f, new
  <2>2. QED
    BY <2>1, FS_Surjection
<1>2. /\ \A x \in new : x.node \in N /\ x.previous = here
      /\ \A x, y \in new : x.node = y.node => x = y
      /\ \A n \in N : \E x \in new : x.node = n
  <2>1. \A n \in N : [node |-> n, previous |-> here] \in new
    OBVIOUS
  <2>2. \A x \in new : \E n \in N : x = [node |-> n, previous |-> here]
    OBVIOUS
  <2>3. ASSUME NEW x \in new PROVE x.node \in N /\ x.previous = here /\ x = [node |-> x.node, previous |-> here]
    BY <2>2
  <2>4. ASSUME NEW n \in N PROVE \E x \in new : x.node = n
    BY <2>1
  <2> HIDE DEF new
  <2>5. ASSUME NEW x \in new, NEW y \in new, x.node = y.node PROVE x = y
    BY <2>3, <2>5
  <2>6. QED
    BY <2>3, <2>4, <2>5
<1>3. new \subseteq Entries(next)
  BY DEF Entries
<1> HIDE DEF new
<1>4. /\ r \in Seq(new) /\ Len(r) \in Nat
      /\ \A x \in new : \E i \in 1 .. Len(r) : r[i] = x
      /\ \A i, j \in 1 .. Len(r) : r[i] = r[j] => i = j
  BY <1>1, SetAsSequence
<1>5. t = q \o r
  BY DEF r, new
<1> HIDE DEF r
<1>6. \A i \in 1 .. Len(r) : r[i] \in new
  BY <1>4
<1>7. r \in Seq(Entries(next))
  BY <1>3, <1>4, <1>6
<1> HIDE DEF l
<1>8. /\ t \in Seq(Entries(next)) /\ l \in Nat /\ Len(r) \in Nat /\ Len(t) = l + Len(r)
      /\ \A i \in 1 .. l : i \in 1 .. Len(t) /\ t[i] = q[i]
      /\ \A i \in 1 .. Len(t) : i > l => i - l \in 1 .. Len(r) /\ t[i] = r[i - l]
      /\ \A i \in 1 .. Len(r) : i + l \in 1 .. Len(t) /\ i + l > l /\ t[i + l] = r[i]
  <2>1. Joined(t, q, r, Entries(next))
    BY <1>5, <1>7, Concatenated
  <2>2. QED
    BY <2>1 DEF Joined, l
<1>10. \A i \in 1 .. Len(t) : i > l => t[i] \in new
  BY <1>6, <1>8
<1>11. ASSUME NEW i \in 1 .. Len(t), NEW j \in 1 .. Len(t), i > l, j > l, t[i].node = t[j].node
       PROVE  i = j
  <2>1. t[i] = t[j]
    BY <1>2, <1>10, <1>11
  <2>2. r[i - l] = r[j - l] /\ i - l \in 1 .. Len(r) /\ j - l \in 1 .. Len(r)
    BY <1>8, <1>11, <2>1
  <2>3. i - l = j - l
    BY <1>4, <2>2
  <2>4. QED
    BY <1>8, <2>3
<1>12. NodesOf(t) = NodesOf(q) \cup N
  <2>1. ASSUME NEW i \in 1 .. Len(t) PROVE t[i].node \in NodesOf(q) \cup N
    <3>1. CASE i > l
      BY <1>2, <1>10, <3>1
    <3>2. CASE i <= l
      <4>1. i \in 1 .. l
        BY <1>8, <3>2
      <4>2. QED
        BY <1>8, <4>1 DEF NodesOf, l
    <3>3. QED
      BY <1>8, <3>1, <3>2
  <2>2. ASSUME NEW i \in 1 .. l PROVE q[i].node \in NodesOf(t)
    BY <1>8 DEF NodesOf
  <2>3. ASSUME NEW n \in N PROVE n \in NodesOf(t)
    <3>1. PICK x \in new : x.node = n
      BY <1>2
    <3>2. PICK i \in 1 .. Len(r) : r[i] = x
      BY <1>4
    <3>3. i + l \in 1 .. Len(t) /\ t[i + l].node = n
      BY <1>8, <3>1, <3>2
    <3>4. QED
      BY <3>3 DEF NodesOf
  <2>4. NodesOf(t) \subseteq NodesOf(q) \cup N
    BY <2>1 DEF NodesOf
  <2>5. NodesOf(q) \subseteq NodesOf(t)
    BY <2>2 DEF NodesOf, l
  <2>6. QED
    BY <2>3, <2>4, <2>5
<1>13. l <= Len(t) /\ Len(t) \in Nat
  BY <1>8
<1>14. \A i \in 1 .. Len(t) : i > l => t[i].node \in N /\ t[i].previous = here
  BY <1>2, <1>10
<1>15. QED
  BY <1>8, <1>11, <1>12, <1>13, <1>14 DEF Grown, l

\* The next entry of the queue is looked at.
LEMMA LookKeepsQueue ==
  ASSUME NEW next, Neighbours(next), NEW start \in DOMAIN next, NEW k \in Nat \ {0},
         NEW q, Queued(q, k - 1, start, next), NEW d, Levelled(q, k - 1, next, d)
  PROVE  /\ Queued(Looked(q, k, next), k, start, next)
         /\ \E e : Levelled(Looked(q, k, next), k, next, e)
<1> DEFINE l == Len(q)
<1>0. /\ q \in Seq(Entries(next)) /\ l \in Nat /\ l >= 1
      /\ \A i \in 1 .. l : q[i].node \in DOMAIN next /\ q[i].node \in Reach(start, next)
      /\ \A i, j \in 1 .. l : q[i].node = q[j].node => i = j
      /\ \A i \in 1 .. l : q[i].node \in NodesOf(q)
      /\ \A i \in 1 .. l : i < k => next[q[i].node] \subseteq NodesOf(q)
  <2>1. q \in Seq(Entries(next)) /\ l >= 1 /\ NodesOf(q) \subseteq Reach(start, next)
    BY DEF Queued
  <2>2. l \in Nat
    BY <2>1
  <2>3. \A i \in 1 .. l : q[i].node \in NodesOf(q)
    BY DEF NodesOf
  <2>4. \A i \in 1 .. l : i < k => i <= k - 1
    BY <2>2
  <2>5. QED
    BY <2>1, <2>2, <2>3, <2>4, ReachIsLeast DEF Queued
<1>1. CASE k > l
  <2>1. Looked(q, k, next) = q
    BY <1>1 DEF Looked
  <2>2. \A i \in 1 .. l : i <= k => i < k
    BY <1>0, <1>1
  <2>3. Queued(q, k, start, next)
    BY <1>0, <2>2 DEF Queued
  <2>4. \A i \in 1 .. l : i <= k => i <= k - 1
    BY <1>0, <1>1
  <2>5. k # 0 /\ k \notin 1 .. l
    BY <1>0, <1>1
  <2>6. Levelled(q, k, next, d)
    BY <1>0, <2>4, <2>5 DEF Levelled
  <2>7. QED
    BY <2>1, <2>3, <2>6
<1>2. CASE k <= l
  <2> DEFINE here == q[k].node
             N == next[here] \ NodesOf(q)
             t == q \o SetToSeq({[node |-> n, previous |-> here] : n \in N})
  <2>1. here \in DOMAIN next /\ here \in Reach(start, next) /\ k \in 1 .. l
    BY <1>0, <1>2
  <2>2. N \subseteq DOMAIN next /\ IsFiniteSet(N)
    BY <2>1, FS_Subset DEF Neighbours
  <2>4. Looked(q, k, next) = t
    <3>1. {x.node : x \in ToSet(q)} = NodesOf(q)
      <4>1. DOMAIN q = 1 .. Len(q)
        BY <1>0
      <4>2. QED
        BY <4>1 DEF ToSet, NodesOf
    <3>2. ~(k > Len(q))
      BY <1>2, <1>0
    <3>3. QED
      BY <3>1, <3>2, Zenon DEF Looked
  <2> HIDE DEF t, N
  <2>7. /\ t \in Seq(Entries(next)) /\ Len(t) \in Nat /\ l <= Len(t)
        /\ \A i \in 1 .. l : i \in 1 .. Len(t) /\ t[i] = q[i]
        /\ \A i \in 1 .. Len(t) : i > l => t[i].node \in N /\ t[i].previous = here
        /\ \A i, j \in 1 .. Len(t) : i > l /\ j > l /\ t[i].node = t[j].node => i = j
        /\ NodesOf(t) = NodesOf(q) \cup N
    <3> HIDE DEF here, l
    <3>1. t = q \o SetToSeq({[node |-> n, previous |-> here] : n \in N})
      BY DEF t
    <3>2. N \in SUBSET DOMAIN next /\ q \in Seq(Entries(next))
      BY <1>0, <2>2
    <3>3. QED
      <4>1. Grown(t, q, N, here, next)
        BY <2>1, <2>2, <3>1, <3>2, QueueGrows
      <4>2. QED
        BY <4>1 DEF Grown, l
  <2>8. \A n \in N : n \in next[here] /\ n \notin NodesOf(q)
    BY DEF N
  <2>9. next[here] \subseteq NodesOf(t)
    BY <2>7 DEF N
  <2> HIDE DEF here, l
  <2>10. Queued(t, k, start, next)
    <3>1. \A i, j \in 1 .. Len(t) : t[i].node = t[j].node => i = j
      <4> SUFFICES ASSUME NEW i \in 1 .. Len(t), NEW j \in 1 .. Len(t), t[i].node = t[j].node
                   PROVE  i = j
        OBVIOUS
      <4>0. \A h \in 1 .. Len(t) : h > l \/ h \in 1 .. l
        BY <1>0, <2>7
      <4>1. CASE i \in 1 .. l /\ j \in 1 .. l
        BY <1>0, <2>7, <4>1
      <4>2. CASE i > l /\ j > l
        BY <2>7, <4>2
      <4>3. ASSUME NEW g \in 1 .. l, NEW h \in 1 .. Len(t), h > l PROVE t[g].node # t[h].node
        BY <1>0, <2>7, <2>8, <4>3
      <4>4. QED
        BY <4>0, <4>1, <4>2, <4>3
    <3>2. NodesOf(t) \subseteq Reach(start, next)
      <4>1. N \subseteq Reach(start, next)
        BY <2>1, <2>8, ReachSteps
      <4>2. QED
        BY <2>7, <4>1 DEF Queued
    <3>3. \A i \in 1 .. Len(t) : i <= k => next[t[i].node] \subseteq NodesOf(t)
      <4> SUFFICES ASSUME NEW i \in 1 .. Len(t), i <= k PROVE next[t[i].node] \subseteq NodesOf(t)
        OBVIOUS
      <4>1. i \in 1 .. l /\ t[i] = q[i]
        BY <1>0, <1>2, <2>7 DEF l
      <4>2. CASE i = k
        BY <2>9, <4>1, <4>2 DEF here
      <4>3. CASE i # k
        <5>1. i < k
          BY <4>1, <4>3, <1>0
        <5>2. QED
          BY <1>0, <2>7, <4>1, <5>1
      <4>4. QED
        BY <4>2, <4>3
    <3>4. t[1] = [node |-> start, previous |-> Null] /\ Len(t) >= 1
      <4>1. 1 \in 1 .. l /\ Len(t) >= 1
        BY <1>0, <2>7
      <4>2. QED
        BY <2>7, <4>1 DEF Queued
    <3>5. QED
      BY <2>7, <3>1, <3>2, <3>3, <3>4 DEF Queued
  <2>11. \E e : Levelled(t, k, next, e)
    <3> DEFINE e == [i \in 1 .. Len(t) |-> IF i <= l THEN d[i] ELSE d[k] + 1]
    <3>0. /\ d \in [1 .. l -> Nat] /\ d[1] = 1
          /\ \A i, j \in 1 .. l : i <= j => d[i] <= d[j]
          /\ \A i, j \in 1 .. l : i < k /\ q[j].node \in next[q[i].node] => d[j] <= d[i] + 1
          /\ \A i \in 2 .. l :
               \E h \in 1 .. i - 1 : /\ q[h].node = q[i].previous
                                     /\ q[i].node \in next[q[h].node]
                                     /\ d[i] = d[h] + 1
      <4>1. \A i \in 1 .. l : i < k => i <= k - 1
        BY <1>0
      <4>2. QED
        BY <4>1 DEF Levelled, l
    <3>1. k \in 1 .. l /\ d[k] \in Nat /\ \A j \in 1 .. l : d[j] <= d[k] + 1
      <4>1. CASE k = 1
        <5>1. l = 1
          BY <4>1 DEF Levelled, l
        <5>2. QED
          BY <2>1, <3>0, <4>1, <5>1
      <4>2. CASE k # 1
        <5>1. k - 1 \in 1 .. l /\ k \in 1 .. l /\ k - 1 <= k
          BY <1>0, <2>1, <4>2
        <5>2. d[k - 1] <= d[k] /\ d[k] \in Nat /\ d[k - 1] \in Nat
          BY <3>0, <5>1
        <5>3. \A j \in 1 .. l : d[j] <= d[k - 1] + 1
          BY <5>1 DEF Levelled, l
        <5>4. \A j \in 1 .. l : d[j] <= d[k] + 1
          BY <3>0, <5>2, <5>3
        <5>5. QED
          BY <5>1, <5>2, <5>4
      <4>3. QED
        BY <4>1, <4>2
    <3>2. /\ e \in [1 .. Len(t) -> Nat]
          /\ \A i \in 1 .. Len(t) : i \in 1 .. l => e[i] = d[i]
          /\ \A i \in 1 .. Len(t) : i > l => e[i] = d[k] + 1
      BY <1>0, <2>7, <3>0, <3>1
    <3> HIDE DEF e
    <3>3. \A h \in 1 .. Len(t) : h > l \/ h \in 1 .. l
      BY <1>0, <2>7
    <3>4. \A h \in 1 .. l : h \in 1 .. Len(t)
      BY <1>0, <2>7
    <3>5. \A i \in 2 .. Len(t) :
            \E h \in 1 .. i - 1 : /\ t[h].node = t[i].previous
                                  /\ t[i].node \in next[t[h].node]
                                  /\ e[i] = e[h] + 1
      <4> SUFFICES ASSUME NEW i \in 2 .. Len(t)
                   PROVE  \E h \in 1 .. i - 1 : /\ t[h].node = t[i].previous
                                                /\ t[i].node \in next[t[h].node]
                                                /\ e[i] = e[h] + 1
        OBVIOUS
      <4>0. i \in 1 .. Len(t)
        BY <2>7
      <4>1. CASE i \in 1 .. l
        <5>0. i \in 2 .. l
          BY <1>0, <4>1
        <5>1. PICK h \in 1 .. i - 1 : /\ q[h].node = q[i].previous
                                      /\ q[i].node \in next[q[h].node]
                                      /\ d[i] = d[h] + 1
          BY <3>0, <5>0
        <5>2. h \in 1 .. l
          BY <1>0, <4>1
        <5>3. t[h] = q[h] /\ t[i] = q[i] /\ e[h] = d[h] /\ e[i] = d[i]
          BY <2>7, <3>2, <3>4, <4>1, <5>2
        <5>4. QED
          BY <5>1, <5>3
      <4>2. CASE i > l
        <5>1. k \in 1 .. i - 1 /\ k \in 1 .. Len(t)
          BY <1>0, <2>1, <2>7, <4>2
        <5>2. t[k].node = here /\ e[k] = d[k] /\ e[i] = d[k] + 1
          BY <2>1, <2>7, <3>2, <4>0, <4>2, <5>1 DEF here
        <5>3. t[i].previous = here /\ t[i].node \in next[here]
          BY <2>7, <2>8, <4>0, <4>2
        <5>4. QED
          BY <5>1, <5>2, <5>3
      <4>3. QED
        BY <3>3, <4>0, <4>1, <4>2
    <3>6. ASSUME NEW i \in 1 .. Len(t), NEW j \in 1 .. Len(t), i <= j
          PROVE  e[i] <= e[j]
      <4>1. CASE i \in 1 .. l /\ j \in 1 .. l
        BY <3>0, <3>2, <3>6, <4>1
      <4>2. CASE i \in 1 .. l /\ j > l
        BY <3>1, <3>2, <4>2
      <4>3. CASE i > l
        <5>1. j > l
          BY <1>0, <2>7, <3>6, <4>3
        <5>2. QED
          BY <3>1, <3>2, <4>3, <5>1
      <4>4. QED
        BY <3>3, <4>1, <4>2, <4>3
    <3>7. \A j \in 1 .. Len(t) : e[j] <= e[k] + 1
      <4>1. k \in 1 .. Len(t) /\ e[k] = d[k]
        BY <3>1, <3>2, <3>4
      <4>2. QED
        BY <3>1, <3>2, <3>3, <4>1
    <3>8. ASSUME NEW i \in 1 .. Len(t), NEW j \in 1 .. Len(t), i <= k,
                 t[j].node \in next[t[i].node]
          PROVE  e[j] <= e[i] + 1
      <4>1. i \in 1 .. l /\ t[i] = q[i]
        BY <1>0, <2>1, <2>7, <3>8
      <4>2. CASE i = k
        BY <3>7, <4>2
      <4>3. CASE i # k
        <5>1. i < k
          BY <2>1, <3>8, <4>3, <1>0
        <5>2. next[q[i].node] \subseteq NodesOf(q)
          BY <1>0, <4>1, <5>1
        <5>3. j \in 1 .. l
          BY <2>7, <2>8, <3>3, <3>8, <4>1, <5>2
        <5>4. d[j] <= d[i] + 1
          BY <2>7, <3>0, <3>8, <4>1, <5>1, <5>3
        <5>5. QED
          BY <3>2, <4>1, <5>3, <5>4
      <4>4. QED
        BY <4>2, <4>3
    <3>9. e[1] = 1 /\ k # 0
      BY <1>0, <3>0, <3>2, <3>4
    <3>10. Levelled(t, k, next, e)
      BY <3>2, <3>5, <3>6, <3>7, <3>8, <3>9 DEF Levelled
    <3>11. QED
      BY <3>10
  <2>12. QED
    BY <2>4, <2>10, <2>11
<1>3. QED
  BY <1>0, <1>1, <1>2

\* The queue at first.
Start(start) == << [node |-> start, previous |-> Null] >>

\* The queue, step by step.
LEMMA LookedIsAQueue ==
  ASSUME NEW next, Neighbours(next), NEW q \in Seq(Entries(next)), NEW k \in Nat \ {0}
  PROVE  Looked(q, k, next) \in Seq(Entries(next))
<1>1. CASE k > Len(q)
  BY <1>1 DEF Looked
<1>2. CASE ~(k > Len(q))
  <2> DEFINE here == q[k].node
             N == next[here] \ {x.node : x \in ToSet(q)}
             t == q \o SetToSeq({[node |-> n, previous |-> here] : n \in N})
  <2>1. k \in 1 .. Len(q)
    BY <1>2
  <2>2. here \in DOMAIN next
    <3>1. q[k] \in Entries(next)
      BY <2>1
    <3>2. QED
      BY <3>1 DEF Entries
  <2>3. N \in SUBSET DOMAIN next /\ IsFiniteSet(N)
    BY <2>2, FS_Subset DEF Neighbours
  <2>4. Looked(q, k, next) = t
    BY <1>2, Zenon DEF Looked
  <2> HIDE DEF here, N
  <2>5. Grown(t, q, N, here, next)
    BY <2>2, <2>3, QueueGrows
  <2>6. QED
    BY <2>4, <2>5 DEF Grown
<1>3. QED
  BY <1>1, <1>2

\* The search is the queue once as many entries were looked at as there are packages.
LEMMA SearchByStep ==
  ASSUME NEW next, Neighbours(next), NEW start \in DOMAIN next
  PROVE  \E queue \in [0 .. Cardinality(DOMAIN next) -> Seq(Entries(next))] :
           /\ queue[0] = Start(start)
           /\ \A k \in 1 .. Cardinality(DOMAIN next) : queue[k] = Looked(queue[k - 1], k, next)
           /\ Search(start, next) = queue[Cardinality(DOMAIN next)]
<1> DEFINE n == Cardinality(DOMAIN next)
           T == Seq(Entries(next))
           step == [x \in T \X (1 .. n) |-> Looked(x[1], x[2], next)]
           Is(f) == f = [k \in 0 .. n |-> IF k = 0 THEN Start(start)
                                         ELSE Looked(f[k - 1], k, next)]
           queue == CHOOSE f : Is(f)
<1>1. n \in Nat
  BY FS_CardinalityType DEF Neighbours
<1>2. Start(start) \in T
  BY DEF Start, Entries
<1>3. \A k \in 1 .. n : k \in Nat \ {0} /\ k - 1 \in 0 .. n
  BY <1>1
<1>4. step \in [T \X (1 .. n) -> T]
  BY <1>3, LookedIsAQueue
<1>5. \A q \in T, k \in 1 .. n : step[<<q, k>>] = Looked(q, k, next)
  OBVIOUS
<1> HIDE DEF step, T, n
<1>6. PICK f \in [0 .. n -> T] : f[0] = Start(start) /\ \A k \in 1 .. n : f[k] = step[<<f[k - 1], k>>]
  <2>1. \E f : Recurses(f, Start(start), step, n, T)
    BY <1>1, <1>2, <1>4, Recursion
  <2>2. QED
    BY <2>1 DEF Recurses
<1>7. \A k \in 0 .. n : f[k] = IF k = 0 THEN Start(start) ELSE Looked(f[k - 1], k, next)
  <2>1. \A k \in 0 .. n : k = 0 \/ k \in 1 .. n
    BY <1>1
  <2>2. QED
    BY <1>3, <1>5, <1>6, <2>1
<1>8. Is(f)
  BY <1>6, <1>7
<1>9. Is(queue)
  BY <1>8
<1>10. Search(start, next) = queue[n]
  BY DEF Search, Start, n
<1> HIDE DEF queue
<1>11. \A k \in 0 .. n : queue[k] = IF k = 0 THEN Start(start) ELSE Looked(queue[k - 1], k, next)
  BY <1>9
<1>12. queue = f
  <2> DEFINE S == {m \in Nat : m <= n => queue[m] = f[m]}
  <2>1. 0 \in S
    BY <1>1, <1>6, <1>11
  <2>2. ASSUME NEW m \in Nat, m \in S PROVE m + 1 \in S
    <3>1. CASE m + 1 <= n
      <4>1. m + 1 \in 0 .. n /\ m + 1 # 0 /\ (m + 1) - 1 = m /\ m <= n
        BY <1>1, <3>1
      <4>2. queue[m + 1] = Looked(queue[m], m + 1, next) /\ f[m + 1] = Looked(f[m], m + 1, next)
        BY <1>7, <1>11, <4>1
      <4>3. QED
        BY <2>2, <4>1, <4>2
    <3>2. QED
      BY <3>1
  <2>3. \A m \in Nat : m \in S
    BY <2>1, <2>2, Induction
  <2>4. \A m \in 0 .. n : queue[m] = f[m]
    BY <1>1, <2>3
  <2>5. QED
    BY <1>6, <1>9, <2>4
<1>13. QED
  BY <1>1, <1>3, <1>6, <1>10, <1>11, <1>12 DEF n, T

\* All that can be reached was found, and looked at.
Searched(q, start, next) ==
  /\ Queued(q, Len(q), start, next)
  /\ NodesOf(q) = Reach(start, next)
  /\ \E d : Levelled(q, Len(q), next, d)

\* A queue of packages that differ cannot be longer than there are packages: every
\* entry was looked at, so that what was found is closed.
LEMMA SearchIsComplete ==
  ASSUME NEW next, Neighbours(next), NEW start \in DOMAIN next
  PROVE  Searched(Search(start, next), start, next)
<1> DEFINE n == Cardinality(DOMAIN next)
<1>1. n \in Nat
  BY FS_CardinalityType DEF Neighbours
<1>2. PICK queue \in [0 .. n -> Seq(Entries(next))] :
        /\ queue[0] = Start(start)
        /\ \A k \in 1 .. n : queue[k] = Looked(queue[k - 1], k, next)
        /\ Search(start, next) = queue[n]
  BY SearchByStep
<1> HIDE DEF n
<1> DEFINE Good(k) == Queued(queue[k], k, start, next) /\ \E d : Levelled(queue[k], k, next, d)
           S == {k \in Nat : k <= n => Good(k)}
<1>3. 0 \in S
  <2> DEFINE q == Start(start)
             d == [i \in 1 .. 1 |-> 1]
  <2>1. /\ Len(q) = 1 /\ q[1] = [node |-> start, previous |-> Null]
        /\ q[1].node = start
        /\ q \in Seq(Entries(next))
        /\ \A i \in 1 .. Len(q) : i = 1
    BY DEF Start, Entries
  <2>2. start \in Reach(start, next)
    BY ReachIsLeast
  <2> HIDE DEF q
  <2>3. Queued(q, 0, start, next)
    <3>1. NodesOf(q) \subseteq Reach(start, next)
      BY <2>1, <2>2 DEF NodesOf
    <3>2. \A i \in 1 .. Len(q) : ~(i <= 0)
      BY <2>1
    <3>3. QED
      BY <2>1, <3>1, <3>2 DEF Queued
  <2>4. Levelled(q, 0, next, d)
    <3>1. 2 .. Len(q) = {} /\ d \in [1 .. Len(q) -> Nat] /\ d[1] = 1
      BY <2>1
    <3> HIDE DEF d
    <3>2. QED
      BY <2>1, <3>1 DEF Levelled
  <2>5. queue[0] = q
    BY <1>2 DEF q
  <2>6. QED
    BY <2>3, <2>4, <2>5
<1>4. ASSUME NEW m \in Nat, m \in S PROVE m + 1 \in S
  <2> SUFFICES ASSUME m + 1 <= n PROVE Good(m + 1)
    OBVIOUS
  <2>1. m + 1 \in 1 .. n /\ m + 1 \in Nat \ {0} /\ (m + 1) - 1 = m /\ m <= n
    BY <1>1
  <2>2. PICK d : Levelled(queue[m], m, next, d)
    BY <1>4, <2>1
  <2>3. Queued(queue[m], m, start, next)
    BY <1>4, <2>1
  <2>4. queue[m + 1] = Looked(queue[m], m + 1, next)
    BY <1>2, <2>1
  <2>5. QED
    BY <2>1, <2>2, <2>3, <2>4, LookKeepsQueue
<1>5. Good(n)
  <2>1. Nat \subseteq S
    <3> HIDE DEF S
    <3>1. QED
      BY <1>3, <1>4, Induction
  <2>2. QED
    BY <1>1, <2>1
<1> DEFINE q == Search(start, next)
<1>6. Queued(q, n, start, next) /\ \E d : Levelled(q, n, next, d)
  BY <1>2, <1>5
<1> HIDE DEF q
<1>7. /\ q \in Seq(Entries(next)) /\ Len(q) \in Nat /\ Len(q) >= 1
      /\ \A i, j \in 1 .. Len(q) : q[i].node = q[j].node => i = j
      /\ NodesOf(q) \subseteq Reach(start, next)
  <2>1. q \in Seq(Entries(next))
    BY <1>6 DEF Queued
  <2>2. QED
    BY <1>6, <2>1 DEF Queued
<1>8. Len(q) <= n
  <2> DEFINE f == [i \in 1 .. Len(q) |-> q[i].node]
  <2>1. \A i \in 1 .. Len(q) : q[i].node \in DOMAIN next
    BY <1>7, ReachIsLeast DEF NodesOf
  <2>2. f \in Injection(1 .. Len(q), DOMAIN next)
    BY <1>7, <2>1 DEF Injection, IsInjective
  <2> HIDE DEF f
  <2>3. IsFiniteSet(1 .. Len(q)) /\ Cardinality(1 .. Len(q)) = Len(q)
    BY <1>7, FS_Interval
  <2>4. QED
    BY <2>2, <2>3, FS_Injection DEF n, Neighbours
<1>9. \A i \in 1 .. Len(q) : i <= n /\ i <= Len(q)
  BY <1>1, <1>7, <1>8
<1>10. Queued(q, Len(q), start, next)
  BY <1>6, <1>9 DEF Queued
<1>11. ASSUME NEW d, Levelled(q, n, next, d) PROVE Levelled(q, Len(q), next, d)
  <2>1. Len(q) \in 1 .. Len(q) /\ Len(q) # 0
    BY <1>7
  <2>2. /\ d \in [1 .. Len(q) -> Nat]
        /\ \A i, j \in 1 .. Len(q) : i <= j => d[i] <= d[j]
        /\ \A i, j \in 1 .. Len(q) : q[j].node \in next[q[i].node] => d[j] <= d[i] + 1
        /\ d[1] = 1
        /\ \A i \in 2 .. Len(q) :
             \E h \in 1 .. i - 1 : /\ q[h].node = q[i].previous
                                   /\ q[i].node \in next[q[h].node]
                                   /\ d[i] = d[h] + 1
    BY <1>9, <1>11 DEF Levelled
  <2>3. \A j \in 1 .. Len(q) : d[j] <= d[Len(q)] + 1
    BY <1>9, <2>1, <2>2
  <2>4. QED
    BY <2>1, <2>2, <2>3 DEF Levelled
<1>12. Reach(start, next) \subseteq NodesOf(q)
  <2>1. Closed(NodesOf(q), next)
    BY <1>10, <1>9 DEF Queued, Closed, NodesOf
  <2>2. start \in NodesOf(q)
    <3>1. 1 \in 1 .. Len(q) /\ q[1].node = start
      BY <1>7, <1>10 DEF Queued
    <3>2. QED
      BY <3>1 DEF NodesOf
  <2>3. QED
    BY <1>7, <2>1, <2>2, ReachIsLeast
<1>13. Searched(q, start, next)
  BY <1>6, <1>7, <1>10, <1>11, <1>12 DEF Searched
<1>14. QED
  BY <1>13 DEF q

\* What a walk finds is what can be reached.
THEOREM WalkIsReach ==
  ASSUME NEW next, Neighbours(next), NEW start \in DOMAIN next
  PROVE  Walk(start, next) = Reach(start, next)
<1> DEFINE q == Search(start, next)
<1>1. Searched(q, start, next)
  BY SearchIsComplete
<1> HIDE DEF q
<1>2. DOMAIN q = 1 .. Len(q)
  BY <1>1 DEF Searched, Queued
<1>3. {x.node : x \in ToSet(q)} = NodesOf(q)
  BY <1>2 DEF ToSet, NodesOf
<1>4. QED
  BY <1>1, <1>3 DEF Walk, Searched, q

-----------------------------------------------------------------------------
(* Shortest paths. *)

\* The end of a path that the search found, from its h-th entry to its e-th.
Traced(p, h, e, q, next, d) ==
  /\ p \in Seq(DOMAIN next) /\ Len(p) >= 1
  /\ h \in 1 .. Len(q) /\ p[1] = q[h].node /\ p[Len(p)] = q[e].node
  /\ d[h] + Len(p) = d[e] + 1 /\ h + Len(p) <= Len(q) + 1
  /\ \A i \in 2 .. Len(p) : p[i] \in next[p[i - 1]]
  /\ \A i \in 1 .. Len(p) : \E g \in 1 .. Len(q) : q[g].node = p[i] /\ d[g] + 1 = d[h] + i

\* A trace is extended by the package its head was found from, one level before it.
LEMMA TraceExtends ==
  ASSUME NEW next, Neighbours(next), NEW start \in DOMAIN next, Null \notin DOMAIN next,
         NEW q, Queued(q, Len(q), start, next), NEW d, Levelled(q, Len(q), next, d),
         NEW e \in 1 .. Len(q), NEW p, NEW h, Traced(p, h, e, q, next, d)
  PROVE  /\ h = 1 => Extended(p, q) = p
         /\ h # 1 => /\ Len(Extended(p, q)) = Len(p) + 1
                     /\ \E g : Traced(Extended(p, q), g, e, q, next, d)
<1>0. /\ q \in Seq(Entries(next)) /\ Len(q) \in Nat
      /\ p \in Seq(DOMAIN next) /\ Len(p) \in Nat /\ Len(p) >= 1
      /\ h \in 1 .. Len(q) /\ p[1] = q[h].node /\ p[Len(p)] = q[e].node
      /\ \A i, j \in 1 .. Len(q) : q[i].node = q[j].node => i = j
      /\ \A i \in 1 .. Len(q) : d[i] \in Nat /\ q[i].node \in DOMAIN next
  <2>1. q \in Seq(Entries(next)) /\ d \in [1 .. Len(q) -> Nat]
    BY DEF Queued, Levelled
  <2>2. Len(q) \in Nat /\ \A i \in 1 .. Len(q) : q[i] \in Entries(next)
    BY <2>1
  <2>3. \A i \in 1 .. Len(q) : d[i] \in Nat /\ q[i].node \in DOMAIN next
    BY <2>1, <2>2 DEF Entries
  <2>4. p \in Seq(DOMAIN next) /\ Len(p) \in Nat
    BY DEF Traced
  <2>5. QED
    BY <2>1, <2>2, <2>3, <2>4 DEF Queued, Traced
<1>1. (CHOOSE x \in ToSet(q) : x.node = p[1]) = q[h]
  <2>1. DOMAIN q = 1 .. Len(q)
    BY <1>0
  <2>2. q[h] \in ToSet(q)
    BY <1>0, <2>1 DEF ToSet
  <2>3. \A x \in ToSet(q) : \E i \in 1 .. Len(q) : x = q[i]
    BY <2>1 DEF ToSet
  <2>4. \A x \in ToSet(q) : x.node = p[1] => x = q[h]
    BY <1>0, <2>3
  <2>5. QED
    BY <1>0, <2>2, <2>4
<1>2. CASE h = 1
  <2>1. q[h].previous = Null
    BY <1>2 DEF Queued
  <2>2. QED
    BY <1>1, <1>2, <2>1 DEF Extended
<1>3. CASE h # 1
  <2>1. PICK g \in 1 .. h - 1 : /\ q[g].node = q[h].previous
                                /\ q[h].node \in next[q[g].node]
                                /\ d[h] = d[g] + 1
    <3>1. h \in 2 .. Len(q)
      BY <1>0, <1>3
    <3>2. QED
      BY <3>1 DEF Levelled
  <2>2. g \in 1 .. Len(q) /\ g + 1 <= h /\ g \in Nat /\ h \in Nat
    BY <1>0, <2>1
  <2> DEFINE n == q[g].node
             t == <<n>> \o p
  <2>3. Extended(p, q) = t
    <3>1. q[h].previous # Null
      BY <1>0, <2>1, <2>2
    <3>2. QED
      BY <1>1, <2>1, <3>1 DEF Extended
  <2>4. n \in DOMAIN next
    BY <1>0, <2>2
  <2> HIDE DEF t, n
  <2>5. <<n>> \in Seq(DOMAIN next) /\ Len(<<n>>) = 1 /\ <<n>>[1] = n
    BY <2>4
  <2>6. Joined(t, <<n>>, p, DOMAIN next)
    BY <1>0, <2>5, Concatenated DEF t
  <2>7. /\ t \in Seq(DOMAIN next) /\ Len(t) = 1 + Len(p) /\ t[1] = n
        /\ \A i \in 1 .. Len(t) : i > 1 => i - 1 \in 1 .. Len(p) /\ t[i] = p[i - 1]
    <3>1. 1 \in 1 .. 1
      OBVIOUS
    <3>2. QED
      BY <2>5, <2>6, <3>1 DEF Joined
  <2>8. Traced(t, g, e, q, next, d)
    <3>1. t[Len(t)] = q[e].node
      <4>1. Len(t) \in 1 .. Len(t) /\ Len(t) > 1 /\ Len(t) - 1 = Len(p)
        BY <1>0, <2>7
      <4>2. QED
        BY <1>0, <2>7, <4>1
    <3>2. d[g] + Len(t) = d[e] + 1 /\ g + Len(t) <= Len(q) + 1
      <4>1. d[h] + Len(p) = d[e] + 1 /\ h + Len(p) <= Len(q) + 1
        BY DEF Traced
      <4>2. d[g] \in Nat /\ d[h] \in Nat
        BY <1>0, <2>2
      <4>3. QED
        BY <1>0, <2>1, <2>2, <2>7, <4>1, <4>2, SMTT(20)
    <3>3. ASSUME NEW i \in 2 .. Len(t) PROVE t[i] \in next[t[i - 1]]
      <4>1. i \in 1 .. Len(t) /\ i > 1 /\ t[i] = p[i - 1]
        BY <1>0, <2>7
      <4>2. CASE i = 2
        BY <1>0, <2>1, <2>7, <4>1, <4>2 DEF n
      <4>3. CASE i # 2
        <5>1. i - 1 \in 1 .. Len(t) /\ i - 1 > 1 /\ i - 1 \in 2 .. Len(p)
          BY <1>0, <2>7, <4>1, <4>3
        <5>2. t[i - 1] = p[(i - 1) - 1]
          BY <2>7, <5>1
        <5>3. p[i - 1] \in next[p[(i - 1) - 1]]
          BY <5>1 DEF Traced
        <5>4. QED
          BY <4>1, <5>2, <5>3
      <4>4. QED
        BY <4>2, <4>3
    <3>4. ASSUME NEW i \in 1 .. Len(t)
          PROVE  \E k \in 1 .. Len(q) : q[k].node = t[i] /\ d[k] + 1 = d[g] + i
      <4>1. CASE i = 1
        <5>1. q[g].node = t[i] /\ d[g] + 1 = d[g] + i
          BY <2>7, <4>1 DEF n
        <5>2. QED
          BY <2>2, <5>1
      <4>2. CASE i # 1
        <5>1. i > 1 /\ i - 1 \in 1 .. Len(p) /\ t[i] = p[i - 1]
          BY <2>7, <4>2
        <5>2. PICK k \in 1 .. Len(q) : q[k].node = p[i - 1] /\ d[k] + 1 = d[h] + (i - 1)
          BY <5>1 DEF Traced
        <5>3. d[k] \in Nat /\ d[h] \in Nat /\ d[g] \in Nat /\ i \in Nat
          BY <1>0, <2>2
        <5>4. d[k] + 1 = d[g] + i
          BY <2>1, <5>2, <5>3
        <5>5. QED
          BY <5>1, <5>2, <5>4
      <4>3. QED
        BY <4>1, <4>2
    <3>5. QED
      BY <1>0, <2>2, <2>7, <3>1, <3>2, <3>3, <3>4 DEF Traced, n
  <2>9. QED
    BY <1>0, <1>3, <2>3, <2>7, <2>8
<1>4. QED
  BY <1>2, <1>3

\* What a sequence has to be to lead from one package to another.
Leads(p, start, end, next) ==
  /\ p \in Seq(DOMAIN next) /\ Len(p) >= 1
  /\ p[1] = start /\ p[Len(p)] = end
  /\ \A i \in 2 .. Len(p) : p[i] \in next[p[i - 1]]

\* The trace that goes back to the start.
LEMMA PathIsTraced ==
  ASSUME NEW next, Neighbours(next), NEW start \in DOMAIN next, Null \notin DOMAIN next,
         NEW end, NEW q, q = Search(start, next), NEW d, Levelled(q, Len(q), next, d),
         NEW e \in 1 .. Len(q), q[e].node = end
  PROVE  Traced(ShortestPath(start, end, next), 1, e, q, next, d)
<1> DEFINE n == Len(q)
           T == {p \in Seq(DOMAIN next) : \E h : Traced(p, h, e, q, next, d)}
           step == [x \in T \X (1 .. n) |-> Extended(x[1], q)]
           Is(f) == f = [k \in 0 .. n |-> IF k = 0 THEN <<end>> ELSE Extended(f[k - 1], q)]
           path == CHOOSE f : Is(f)
<1>0. Searched(q, start, next)
  BY SearchIsComplete
<1>1. /\ q \in Seq(Entries(next)) /\ n \in Nat /\ n >= 1 /\ q[1].node = start
      /\ Queued(q, Len(q), start, next)
  BY <1>0 DEF Searched, Queued
<1>2. <<end>> \in T
  <2> DEFINE p == <<end>>
  <2>1. end \in DOMAIN next
    <3>1. q[e] \in Entries(next)
      BY <1>1
    <3>2. QED
      BY <3>1 DEF Entries
  <2>2. p \in Seq(DOMAIN next) /\ Len(p) = 1 /\ p[1] = end
    BY <2>1
  <2> HIDE DEF p
  <2>3. d[e] \in Nat
    BY DEF Levelled
  <2>4. Traced(p, e, e, q, next, d)
    <3>1. 2 .. Len(p) = {} /\ 1 .. Len(p) = {1} /\ e + Len(p) <= Len(q) + 1
      BY <1>1, <2>2
    <3>2. d[e] + 1 = d[e] + Len(p)
      BY <2>2
    <3>3. QED
      BY <2>2, <3>1, <3>2 DEF Traced
  <2>5. QED
    BY <2>2, <2>4 DEF p
<1>3. \A p \in T : Extended(p, q) \in T
  <2> SUFFICES ASSUME NEW p \in T PROVE Extended(p, q) \in T
    OBVIOUS
  <2>1. PICK h : Traced(p, h, e, q, next, d)
    OBVIOUS
  <2>2. CASE h = 1
    <3>1. Extended(p, q) = p
      BY <1>1, <2>1, <2>2, TraceExtends
    <3>2. QED
      BY <3>1
  <2>3. CASE h # 1
    <3>1. PICK g : Traced(Extended(p, q), g, e, q, next, d)
      BY <1>1, <2>1, <2>3, TraceExtends
    <3>2. QED
      BY <3>1 DEF Traced
  <2>4. QED
    BY <2>2, <2>3
<1>4. step \in [T \X (1 .. n) -> T] /\ \A p \in T, k \in 1 .. n : step[<<p, k>>] = Extended(p, q)
  <2> HIDE DEF T
  <2>1. QED
    BY <1>3
<1> HIDE DEF step, T
<1>5. PICK f : f \in [0 .. n -> T] /\ f[0] = <<end>> /\ \A k \in 1 .. n : f[k] = step[<<f[k - 1], k>>]
  <2>1. \E f : Recurses(f, <<end>>, step, n, T)
    BY <1>1, <1>2, <1>4, Recursion
  <2>2. QED
    BY <2>1 DEF Recurses
<1> HIDE DEF n
<1>6. \A k \in 1 .. n : k \in 0 .. n /\ k - 1 \in 0 .. n /\ k # 0
  BY <1>1 DEF n
<1>7. \A k \in 0 .. n : f[k] = IF k = 0 THEN <<end>> ELSE Extended(f[k - 1], q)
  <2>1. \A k \in 0 .. n : k = 0 \/ k \in 1 .. n
    BY <1>1 DEF n
  <2>2. QED
    BY <1>4, <1>5, <1>6, <2>1
<1>8. Is(path)
  BY <1>5, <1>7
<1> HIDE DEF path
<1>9. \A k \in 0 .. n : path[k] = IF k = 0 THEN <<end>> ELSE Extended(path[k - 1], q)
  BY <1>8
<1> DEFINE Good(k) == /\ \E h : Traced(path[k], h, e, q, next, d)
                      /\ Traced(path[k], 1, e, q, next, d) \/ Len(path[k]) = k + 1
           S == {k \in Nat : k <= n => Good(k)}
<1>10. 0 \in S
  <2>1. path[0] = <<end>> /\ Len(path[0]) = 1
    BY <1>1, <1>9 DEF n
  <2>2. QED
    BY <1>2, <2>1 DEF T
<1>11. ASSUME NEW m \in Nat, m \in S PROVE m + 1 \in S
  <2> SUFFICES ASSUME m + 1 <= n PROVE Good(m + 1)
    OBVIOUS
  <2>1. m + 1 \in 0 .. n /\ m + 1 # 0 /\ (m + 1) - 1 = m /\ m <= n
    BY <1>1 DEF n
  <2>2. path[m + 1] = Extended(path[m], q)
    BY <1>9, <2>1
  <2>3. Good(m)
    BY <1>11, <2>1
  <2>4. CASE Traced(path[m], 1, e, q, next, d)
    BY <1>1, <2>2, <2>4, TraceExtends
  <2>5. CASE ~Traced(path[m], 1, e, q, next, d)
    <3>1. PICK h : Traced(path[m], h, e, q, next, d)
      BY <2>3
    <3>2. h # 1 /\ Len(path[m]) = m + 1
      BY <2>3, <2>5, <3>1
    <3>3. /\ Len(Extended(path[m], q)) = Len(path[m]) + 1
          /\ \E g : Traced(Extended(path[m], q), g, e, q, next, d)
      BY <1>1, <3>1, <3>2, TraceExtends
    <3>4. QED
      BY <2>2, <3>2, <3>3
  <2>6. QED
    BY <2>4, <2>5
<1>12. Good(n)
  <2>1. Nat \subseteq S
    <3> HIDE DEF S
    <3>1. QED
      BY <1>10, <1>11, Induction
  <2>2. QED
    BY <1>1, <2>1 DEF n
<1>13. Traced(path[n], 1, e, q, next, d)
  <2>1. PICK h : Traced(path[n], h, e, q, next, d)
    BY <1>12
  <2>2. h \in 1 .. n /\ h + Len(path[n]) <= n + 1
    BY <2>1 DEF Traced, n
  <2>3. Len(path[n]) # n + 1
    BY <1>1, <2>2 DEF n
  <2>4. QED
    BY <1>12, <2>3
<1>14. ShortestPath(start, end, next) = path[n]
  <2>1. \E x \in ToSet(q) : x.node = end
    <3>1. q[e] \in ToSet(q)
      BY <1>1 DEF ToSet
    <3>2. QED
      BY <3>1
  <2>2. QED
    BY <2>1, Zenon DEF ShortestPath, path, n
<1>15. QED
  BY <1>13, <1>14

\* A search comes to each package by a path that is not longer than any other.
LEMMA LevelsAreShortest ==
  ASSUME NEW next, Neighbours(next), NEW start \in DOMAIN next, NEW q, Searched(q, start, next),
         NEW d, Levelled(q, Len(q), next, d), NEW e \in 1 .. Len(q),
         NEW p, Leads(p, start, q[e].node, next)
  PROVE  d[e] <= Len(p)
<1>0. /\ q \in Seq(Entries(next)) /\ Len(q) \in Nat /\ Len(q) >= 1 /\ q[1].node = start
      /\ \A i, j \in 1 .. Len(q) : q[i].node = q[j].node => i = j
      /\ \A i \in 1 .. Len(q) : next[q[i].node] \subseteq NodesOf(q)
  <2>1. q \in Seq(Entries(next)) /\ Queued(q, Len(q), start, next)
    BY DEF Searched, Queued
  <2>2. \A i \in 1 .. Len(q) : i <= Len(q)
    OBVIOUS
  <2>3. QED
    BY <2>1, <2>2 DEF Queued
<1>1. /\ d \in [1 .. Len(q) -> Nat] /\ d[1] = 1
      /\ \A i, j \in 1 .. Len(q) : q[j].node \in next[q[i].node] => d[j] <= d[i] + 1
  <2>1. \A i \in 1 .. Len(q) : i <= Len(q)
    OBVIOUS
  <2>2. QED
    BY <2>1 DEF Levelled
<1>2. Len(p) \in Nat /\ Len(p) >= 1
  BY DEF Leads
<1> DEFINE S == {k \in Nat : k + 1 <= Len(p) => \E j \in 1 .. Len(q) : q[j].node = p[k + 1] /\ d[j] <= k + 1}
<1>3. 0 \in S
  <2>1. 1 \in 1 .. Len(q) /\ p[1] = start
    BY <1>0 DEF Leads
  <2>2. QED
    BY <1>0, <1>1, <2>1
<1>4. ASSUME NEW k \in Nat, k \in S PROVE k + 1 \in S
  <2> SUFFICES ASSUME (k + 1) + 1 <= Len(p)
               PROVE  \E j \in 1 .. Len(q) : q[j].node = p[(k + 1) + 1] /\ d[j] <= (k + 1) + 1
    OBVIOUS
  <2>1. PICK i \in 1 .. Len(q) : q[i].node = p[k + 1] /\ d[i] <= k + 1
    BY <1>2, <1>4
  <2>2. p[(k + 1) + 1] \in next[p[k + 1]]
    <3>1. (k + 1) + 1 \in 2 .. Len(p) /\ ((k + 1) + 1) - 1 = k + 1
      BY <1>2
    <3>2. QED
      BY <3>1 DEF Leads
  <2>3. PICK j \in 1 .. Len(q) : q[j].node = p[(k + 1) + 1]
    BY <1>0, <2>1, <2>2 DEF NodesOf
  <2>4. d[j] <= d[i] + 1 /\ d[i] \in Nat /\ d[j] \in Nat
    BY <1>1, <2>1, <2>2, <2>3
  <2>5. QED
    BY <2>1, <2>3, <2>4
<1>5. Nat \subseteq S
  <2> HIDE DEF S
  <2>1. QED
    BY <1>3, <1>4, Induction
<1>6. PICK j \in 1 .. Len(q) : q[j].node = p[Len(p)] /\ d[j] <= Len(p)
  <2>1. Len(p) - 1 \in Nat /\ (Len(p) - 1) + 1 = Len(p)
    BY <1>2
  <2>2. Len(p) - 1 \in S
    BY <1>5, <2>1
  <2>3. QED
    BY <1>2, <2>1, <2>2
<1>7. j = e
  BY <1>0, <1>6 DEF Leads
<1>8. QED
  BY <1>6, <1>7

\* No package twice.
Simple(p) == \A i, j \in 1 .. Len(p) : p[i] = p[j] => i = j

\* shortestPath finds a path that repeats no package and is not longer than any
\* other, and none if the end cannot be reached.
THEOREM ShortestPathIsShortest ==
  ASSUME NEW next, Neighbours(next), Null \notin DOMAIN next,
         NEW start \in DOMAIN next, NEW end \in DOMAIN next
  PROVE  /\ end \notin Reach(start, next) => ShortestPath(start, end, next) = << >>
         /\ end \in Reach(start, next) =>
              /\ Leads(ShortestPath(start, end, next), start, end, next)
              /\ Simple(ShortestPath(start, end, next))
              /\ \A r : Leads(r, start, end, next) => Len(ShortestPath(start, end, next)) <= Len(r)
<1> DEFINE q == Search(start, next)
           p == ShortestPath(start, end, next)
<1>1. Searched(q, start, next)
  BY SearchIsComplete
<1>2. /\ q \in Seq(Entries(next)) /\ Len(q) \in Nat /\ Len(q) >= 1 /\ q[1].node = start
      /\ \A i, j \in 1 .. Len(q) : q[i].node = q[j].node => i = j
      /\ NodesOf(q) = Reach(start, next)
  <2> HIDE DEF q
  <2>1. q \in Seq(Entries(next)) /\ Queued(q, Len(q), start, next)
    BY <1>1 DEF Searched, Queued
  <2>2. QED
    BY <1>1, <2>1 DEF Queued, Searched
<1>3. CASE end \notin Reach(start, next)
  <2>1. ~ \E x \in ToSet(q) : x.node = end
    <3> HIDE DEF q
    <3>1. \A x \in ToSet(q) : x.node \in NodesOf(q)
      BY <1>2 DEF ToSet, NodesOf
    <3>2. QED
      BY <1>2, <1>3, <3>1
  <2>2. p = << >>
    BY <2>1, Zenon DEF ShortestPath
  <2>3. QED
    BY <1>3, <2>2
<1>4. CASE end \in Reach(start, next)
  <2>1. PICK e \in 1 .. Len(q) : q[e].node = end
    BY <1>2, <1>4 DEF NodesOf
  <2>2. PICK d : Levelled(q, Len(q), next, d)
    BY <1>1 DEF Searched
  <2>3. Traced(p, 1, e, q, next, d)
    BY <2>1, <2>2, PathIsTraced
  <2> HIDE DEF p, q
  <2>4. Leads(p, start, end, next)
    BY <1>2, <2>1, <2>3 DEF Traced, Leads
  <2>5. d[1] = 1 /\ \A i \in 1 .. Len(q) : d[i] \in Nat
    BY <2>2 DEF Levelled
  <2>6. Simple(p)
    <3> SUFFICES ASSUME NEW i \in 1 .. Len(p), NEW j \in 1 .. Len(p), p[i] = p[j] PROVE i = j
      BY DEF Simple
    <3>1. PICK g \in 1 .. Len(q) : q[g].node = p[i] /\ d[g] + 1 = d[1] + i
      BY <2>3 DEF Traced
    <3>2. PICK h \in 1 .. Len(q) : q[h].node = p[j] /\ d[h] + 1 = d[1] + j
      BY <2>3 DEF Traced
    <3>3. g = h
      BY <1>2, <3>1, <3>2
    <3>4. QED
      BY <2>5, <3>1, <3>2, <3>3
  <2>7. Len(p) = d[e]
    <3>1. d[1] + Len(p) = d[e] + 1 /\ Len(p) \in Nat
      BY <2>3 DEF Traced
    <3>2. QED
      BY <2>5, <3>1
  <2>8. \A r : Leads(r, start, end, next) => Len(p) <= Len(r)
    BY <1>1, <2>1, <2>2, <2>7, LevelsAreShortest
  <2>9. QED
    BY <1>4, <2>4, <2>6, <2>8 DEF p
<1>5. QED
  BY <1>3, <1>4

-----------------------------------------------------------------------------
(* Longest chains. *)

\* A least of some numbers, and a greatest of finitely many.
LEMMA Minimum ==
  ASSUME NEW S, NEW f \in [S -> Nat], S # {}
  PROVE  \E x \in S : \A y \in S : f[x] <= f[y]
<1> DEFINE Rel == {ss \in Nat \X Nat : ss[1] < ss[2]}
           Values == {f[x] : x \in S}
<1>1. IsWellFoundedOn(Rel, Nat)
  BY NatLessThanWellFounded DEF OpToRel
<1>2. Values \subseteq Nat /\ Values # {}
  OBVIOUS
<1>3. \A a, b \in Nat : <<a, b>> \notin Rel => b <= a
  OBVIOUS
<1> HIDE DEF Rel
<1>4. PICK v \in Values : \A u \in Values : <<u, v>> \notin Rel
  <2>1. IsWellFoundedOn(Rel, Nat) /\ Values \in SUBSET Nat /\ Values # {}
    BY <1>1, <1>2
  <2> HIDE DEF Values
  <2>2. \E v \in Values : \A u \in Values : <<u, v>> \notin Rel
    BY <2>1, WFMin
  <2>3. QED
    BY <2>2
<1>5. QED
  BY <1>2, <1>3, <1>4

\* A greatest one: the one that has the fewest above it.
LEMMA Maximum ==
  ASSUME NEW S, IsFiniteSet(S), NEW f \in [S -> Nat], S # {}
  PROVE  \E x \in S : \A y \in S : f[y] <= f[x]
<1> DEFINE Above(x) == {y \in S : f[y] > f[x]}
           g == [x \in S |-> Cardinality(Above(x))]
<1>1. \A x \in S : Above(x) \in SUBSET S /\ IsFiniteSet(Above(x)) /\ Cardinality(Above(x)) \in Nat
  BY FS_Subset, FS_CardinalityType
<1>2. g \in [S -> Nat]
  BY <1>1
<1>3. PICK x \in S : \A y \in S : g[x] <= g[y]
  <2> HIDE DEF g
  <2>1. QED
    BY <1>2, Minimum
<1>4. ASSUME NEW y \in S, ~(f[y] <= f[x]) PROVE FALSE
  <2>1. f[x] \in Nat /\ f[y] \in Nat /\ f[y] > f[x]
    BY <1>4
  <2>2. y \in Above(x) /\ y \notin Above(y) /\ Above(y) \subseteq Above(x)
    BY <2>1
  <2>3. Cardinality(Above(y)) <= Cardinality(Above(x)) /\ Cardinality(Above(y)) # Cardinality(Above(x))
    BY <1>1, <2>2, FS_Subset
  <2>4. QED
    BY <1>1, <1>3, <2>3
<1>5. QED
  BY <1>4

\* A package on a cycle.
OnCycle(n, next) == \E m \in next[n] : n \in Reach(m, next)

\* Where each of some packages has another before it, they come to a cycle.
LEMMA NoFirstMeansCycle ==
  ASSUME NEW next, Neighbours(next), NEW B \in SUBSET DOMAIN next, B # {},
         \A x \in B : \E y \in B : x \in next[y]
  PROVE  \E y \in B : OnCycle(y, next)
<1> DEFINE Behind(x) == {y \in DOMAIN next : x \in Reach(y, next)}
           g == [x \in B |-> Cardinality(Behind(x))]
<1>1. \A x \in B : Behind(x) \in SUBSET DOMAIN next /\ IsFiniteSet(Behind(x)) /\ Cardinality(Behind(x)) \in Nat
  BY FS_Subset, FS_CardinalityType DEF Neighbours
<1>2. g \in [B -> Nat]
  BY <1>1
<1>3. PICK x \in B : \A y \in B : g[x] <= g[y]
  <2> HIDE DEF g
  <2>1. QED
    BY <1>2, Minimum
<1>4. PICK y \in B : x \in next[y]
  OBVIOUS
<1>5. Behind(y) \subseteq Behind(x)
  <2> SUFFICES ASSUME NEW z \in DOMAIN next, y \in Reach(z, next) PROVE x \in Reach(z, next)
    OBVIOUS
  <2>1. QED
    BY <1>4, ReachSteps
<1>6. Cardinality(Behind(x)) = Cardinality(Behind(y))
  <2>1. Cardinality(Behind(y)) <= Cardinality(Behind(x))
    BY <1>1, <1>5, FS_Subset
  <2>2. g[x] = Cardinality(Behind(x)) /\ g[y] = Cardinality(Behind(y)) /\ g[x] <= g[y]
    BY <1>3
  <2>3. QED
    BY <1>1, <2>1, <2>2, SMTT(20)
<1>7. Behind(y) = Behind(x)
  BY <1>1, <1>5, <1>6, FS_Subset
<1>8. x \in Behind(x)
  BY ReachIsLeast
<1>9. y \in Reach(x, next)
  <2>1. y \in Behind(y)
    BY ReachIsLeast
  <2>2. x \in Behind(y)
    BY <1>7, <1>8
  <2>3. y \in Behind(x)
    BY <1>7, <2>1
  <2>4. x \in DOMAIN next /\ \A S \in SUBSET DOMAIN next : x \in S /\ Closed(S, next) => TRUE
    OBVIOUS
  <2>5. QED
    BY <2>2, <2>3
<1>10. QED
  BY <1>4, <1>9 DEF OnCycle

\* Some of what can be reached, each after all that lead to it; k of them gone.
Members(q) == {q[i] : i \in 1 .. Len(q)}

\* The order once k packages left the queue: each comes after all that lead to it,
\* and what only they lead to is in it.
Ordered(q, k, reachable, next) ==
  LET before == Before(reachable, next)
  IN  /\ q \in Seq(reachable)
      /\ Simple(q)
      /\ \A i \in 1 .. Len(q) :
           before[q[i]] \subseteq {q[j] : j \in {h \in 1 .. Len(q) : h <= k /\ h < i}}
      /\ \A n \in reachable :
           before[n] \subseteq {q[j] : j \in {h \in 1 .. Len(q) : h <= k}} => n \in Members(q)

\* The queue of longestChain holds what can be reached.
LEMMA LeftIsASequence ==
  ASSUME NEW next, Neighbours(next), NEW reachable \in SUBSET DOMAIN next, Closed(reachable, next),
         NEW q \in Seq(reachable), NEW k \in Nat \ {0}
  PROVE  Left(q, k, Before(reachable, next), next) \in Seq(reachable)
<1> DEFINE before == Before(reachable, next)
<1>1. CASE k > Len(q)
  BY <1>1 DEF Left
<1>2. CASE ~(k > Len(q))
  <2> DEFINE N == {n \in next[q[k]] : before[n] \subseteq {q[i] : i \in 1 .. k}}
             r == SetToSeq(N)
  <2>1. q[k] \in reachable
    BY <1>2
  <2>2. N \in SUBSET reachable /\ IsFiniteSet(N)
    BY <2>1, FS_Subset DEF Closed, Neighbours
  <2>3. Left(q, k, before, next) = q \o r
    BY <1>2, Zenon DEF Left
  <2> HIDE DEF N
  <2>4. r \in Seq(N)
    BY <2>2, SetAsSequence
  <2>5. r \in Seq(reachable)
    <3> HIDE DEF r
    <3>1. QED
      BY <2>2, <2>4
  <2>6. QED
    BY <2>3, <2>5
<1>3. QED
  BY <1>1, <1>2

\* The next package leaves the queue, and lets those go that waited for it alone.
LEMMA LeavingKeepsOrder ==
  ASSUME NEW next, Neighbours(next), NEW reachable \in SUBSET DOMAIN next, Closed(reachable, next),
         NEW k \in Nat \ {0}, NEW q, Ordered(q, k - 1, reachable, next)
  PROVE  Ordered(Left(q, k, Before(reachable, next), next), k, reachable, next)
<1> DEFINE before == Before(reachable, next)
           l == Len(q)
<1>0. /\ q \in Seq(reachable) /\ l \in Nat
      /\ \A i \in 1 .. l : q[i] \in reachable
      /\ \A i, j \in 1 .. l : q[i] = q[j] => i = j
      /\ \A i \in 1 .. l : before[q[i]] \subseteq {q[j] : j \in {h \in 1 .. l : h < k /\ h < i}}
      /\ \A n \in reachable : before[n] \subseteq {q[j] : j \in {h \in 1 .. l : h < k}} => n \in Members(q)
  <2>1. q \in Seq(reachable)
    BY DEF Ordered
  <2>2. l \in Nat /\ \A i \in 1 .. l : q[i] \in reachable
    BY <2>1
  <2>3. \A h \in 1 .. l : h <= k - 1 <=> h < k
    BY <2>2
  <2>4. {h \in 1 .. l : h <= k - 1} = {h \in 1 .. l : h < k}
    BY <2>3
  <2>5. \A i \in 1 .. l : {h \in 1 .. l : h <= k - 1 /\ h < i} = {h \in 1 .. l : h < k /\ h < i}
    BY <2>3
  <2>6. QED
    BY <2>1, <2>2, <2>4, <2>5, Zenon DEF Ordered, Simple
<1>b. \A n \in reachable : before[n] = {m \in reachable : n \in next[m]}
  BY DEF Before
<1>1. CASE k > l
  <2>1. Left(q, k, before, next) = q
    BY <1>1 DEF Left
  <2>2. \A h \in 1 .. l : h < k /\ h <= k
    BY <1>0, <1>1
  <2>3. {h \in 1 .. l : h <= k} = {h \in 1 .. l : h < k}
    BY <2>2
  <2>4. \A i \in 1 .. l : {h \in 1 .. l : h <= k /\ h < i} = {h \in 1 .. l : h < k /\ h < i}
    BY <2>2
  <2>5. Ordered(q, k, reachable, next)
    BY <1>0, <2>3, <2>4, Zenon DEF Ordered, Simple
  <2>6. QED
    BY <2>1, <2>5
<1>2. CASE ~(k > l)
  <2> DEFINE here == q[k]
             N == {n \in next[here] : before[n] \subseteq {q[i] : i \in 1 .. k}}
             r == SetToSeq(N)
             t == q \o r
  <2>1. k \in 1 .. l /\ here \in reachable
    BY <1>0, <1>2
  <2>2. N \in SUBSET reachable /\ IsFiniteSet(N)
    BY <2>1, FS_Subset DEF Closed, Neighbours
  <2>3. Left(q, k, before, next) = t
    BY <1>2, Zenon DEF Left
  <2>4. \A n \in N : here \in before[n] /\ before[n] \subseteq {q[i] : i \in 1 .. k}
    BY <1>b, <2>1, <2>2
  <2>5. \A n \in next[here] : before[n] \subseteq {q[i] : i \in 1 .. k} => n \in N
    OBVIOUS
  <2> HIDE DEF N, here
  <2>6. /\ r \in Seq(N) /\ Len(r) \in Nat
        /\ \A x \in N : \E i \in 1 .. Len(r) : r[i] = x
        /\ \A i, j \in 1 .. Len(r) : r[i] = r[j] => i = j
    BY <2>2, SetAsSequence
  <2> HIDE DEF r
  <2>7. r \in Seq(reachable) /\ \A i \in 1 .. Len(r) : r[i] \in N
    BY <2>2, <2>6
  <2> HIDE DEF l, t
  <2>8. /\ t \in Seq(reachable) /\ Len(t) = l + Len(r)
        /\ \A i \in 1 .. l : i \in 1 .. Len(t) /\ t[i] = q[i]
        /\ \A i \in 1 .. Len(t) : i > l => i - l \in 1 .. Len(r) /\ t[i] = r[i - l]
        /\ \A i \in 1 .. Len(r) : i + l \in 1 .. Len(t) /\ t[i + l] = r[i]
    <3>1. Joined(t, q, r, reachable)
      BY <1>0, <2>7, Concatenated DEF t
    <3>2. QED
      BY <3>1 DEF Joined, l
  <2>9. \A i \in 1 .. Len(t) : i \in 1 .. l \/ i > l
    BY <1>0, <2>6, <2>8
  <2>10. \A n \in N : n \notin Members(q)
    <3> SUFFICES ASSUME NEW i \in 1 .. l, q[i] \in N PROVE FALSE
      BY DEF Members, l
    <3>1. here \in {q[j] : j \in {h \in 1 .. l : h < k /\ h < i}}
      BY <1>0, <2>4
    <3>2. PICK j \in 1 .. l : j < k /\ here = q[j]
      BY <3>1
    <3>3. j = k
      BY <1>0, <2>1, <3>2 DEF here
    <3>4. QED
      BY <1>0, <3>2, <3>3
  <2>11. Simple(t)
    <3> SUFFICES ASSUME NEW i \in 1 .. Len(t), NEW j \in 1 .. Len(t), t[i] = t[j] PROVE i = j
      BY DEF Simple
    <3>1. CASE i \in 1 .. l /\ j \in 1 .. l
      BY <1>0, <2>8, <3>1
    <3>2. CASE i > l /\ j > l
      <4>1. r[i - l] = r[j - l] /\ i - l \in 1 .. Len(r) /\ j - l \in 1 .. Len(r)
        BY <2>8, <3>2
      <4>2. i - l = j - l
        BY <2>6, <4>1
      <4>3. QED
        BY <1>0, <2>6, <2>8, <4>2
    <3>3. ASSUME NEW g \in 1 .. l, NEW h \in 1 .. Len(t), h > l PROVE t[g] # t[h]
      <4>1. t[h] \in N
        BY <2>7, <2>8, <3>3
      <4>2. t[g] \in Members(q)
        BY <2>8 DEF Members, l
      <4>3. QED
        BY <2>10, <4>1, <4>2
    <3>4. QED
      BY <2>9, <3>1, <3>2, <3>3
  <2>12. \A j \in 1 .. k : j \in 1 .. l /\ j \in 1 .. Len(t) /\ t[j] = q[j] /\ j <= k
    BY <1>0, <2>1, <2>8
  <2>13. ASSUME NEW i \in 1 .. Len(t)
         PROVE  before[t[i]] \subseteq {t[j] : j \in {h \in 1 .. Len(t) : h <= k /\ h < i}}
    <3> SUFFICES ASSUME NEW m \in before[t[i]]
                 PROVE  \E j \in 1 .. Len(t) : j <= k /\ j < i /\ m = t[j]
      OBVIOUS
    <3>1. CASE i \in 1 .. l
      <4>1. m \in {q[j] : j \in {h \in 1 .. l : h < k /\ h < i}}
        BY <1>0, <2>8, <3>1
      <4>2. PICK j \in 1 .. l : j < k /\ j < i /\ m = q[j]
        BY <4>1
      <4>3. j <= k /\ j \in 1 .. Len(t) /\ t[j] = m
        BY <1>0, <2>8, <4>2
      <4>4. QED
        BY <4>2, <4>3
    <3>2. CASE i > l
      <4>1. t[i] \in N
        BY <2>7, <2>8, <3>2
      <4>2. PICK j \in 1 .. k : m = q[j]
        BY <2>4, <4>1
      <4>3. j < i
        BY <1>0, <2>12, <3>2
      <4>4. QED
        BY <2>12, <4>2, <4>3
    <3>3. QED
      BY <2>9, <3>1, <3>2
  <2>14. ASSUME NEW n \in reachable, before[n] \subseteq {t[j] : j \in {h \in 1 .. Len(t) : h <= k}}
         PROVE  n \in Members(t)
    <3>1. \A j \in 1 .. Len(t) : j <= k => j \in 1 .. k
      BY <1>0, <2>8, <2>6
    <3>2. \A m \in before[n] : \E j \in 1 .. k : m = q[j]
      BY <2>12, <2>14, <3>1
    <3>3. CASE here \in before[n]
      <4>1. n \in next[here]
        BY <1>b, <3>3
      <4>2. n \in N
        BY <2>5, <3>2, <4>1
      <4>3. PICK i \in 1 .. Len(r) : r[i] = n
        BY <2>6, <4>2
      <4>4. QED
        BY <2>8, <4>3 DEF Members
    <3>4. CASE here \notin before[n]
      <4>1. \A m \in before[n] : \E j \in 1 .. l : j < k /\ m = q[j]
        <5> SUFFICES ASSUME NEW m \in before[n] PROVE \E j \in 1 .. l : j < k /\ m = q[j]
          OBVIOUS
        <5>1. PICK j \in 1 .. k : m = q[j]
          BY <3>2
        <5>2. j # k
          BY <3>4, <5>1 DEF here
        <5>3. QED
          BY <2>1, <2>12, <5>1, <5>2
      <4>2. n \in Members(q)
        BY <1>0, <4>1
      <4>3. QED
        BY <2>8, <4>2 DEF Members, l
    <3>5. QED
      BY <3>3, <3>4
  <2>15. Ordered(t, k, reachable, next)
    BY <2>8, <2>11, <2>13, <2>14 DEF Ordered
  <2>16. QED
    BY <2>3, <2>15
<1>3. QED
  BY <1>1, <1>2

\* The order once as many packages left the queue as can be reached.
LEMMA OrderByStep ==
  ASSUME NEW next, Neighbours(next), NEW reachable \in SUBSET DOMAIN next, Closed(reachable, next)
  PROVE  Ordered(TopologicalOrder(reachable, next), Cardinality(reachable), reachable, next)
<1> DEFINE n == Cardinality(reachable)
           before == Before(reachable, next)
           First == {m \in reachable : before[m] = {}}
           base == SetToSeq(First)
           T == Seq(reachable)
           step == [x \in T \X (1 .. n) |-> Left(x[1], x[2], before, next)]
           Is(f) == f = [k \in 0 .. n |-> IF k = 0 THEN base ELSE Left(f[k - 1], k, before, next)]
           order == CHOOSE f : Is(f)
<1>0. n \in Nat
  BY FS_Subset, FS_CardinalityType DEF Neighbours
<1>1. TopologicalOrder(reachable, next) = order[n]
  BY Zenon DEF TopologicalOrder
<1>2. Ordered(base, 0, reachable, next)
  <2>1. First \in SUBSET reachable /\ IsFiniteSet(First)
    BY FS_Subset DEF Neighbours
  <2>2. \A m \in reachable : before[m] = {} <=> m \in First
    OBVIOUS
  <2> HIDE DEF First
  <2>3. /\ base \in Seq(First) /\ Len(base) \in Nat
        /\ \A x \in First : \E i \in 1 .. Len(base) : base[i] = x
        /\ \A i, j \in 1 .. Len(base) : base[i] = base[j] => i = j
    BY <2>1, SetAsSequence
  <2> HIDE DEF base
  <2>4. base \in Seq(reachable) /\ \A i \in 1 .. Len(base) : base[i] \in First
    BY <2>1, <2>3
  <2>5. \A i \in 1 .. Len(base) : before[base[i]] = {}
    BY <2>1, <2>2, <2>4
  <2>6. {h \in 1 .. Len(base) : h <= 0} = {}
    BY <2>3
  <2>7. \A m \in reachable : before[m] \subseteq {} => m \in Members(base)
    BY <2>2, <2>3 DEF Members
  <2> HIDE DEF before
  <2>8. QED
    BY <2>3, <2>4, <2>5, <2>6, <2>7 DEF Ordered, Simple, before
<1>3. base \in T
  BY <1>2 DEF Ordered
<1>4. \A k \in 1 .. n : k \in 0 .. n /\ k - 1 \in 0 .. n /\ k # 0 /\ k \in Nat \ {0}
  BY <1>0
<1> HIDE DEF base, n
<1>5. step \in [T \X (1 .. n) -> T] /\ \A q \in T, k \in 1 .. n : step[<<q, k>>] = Left(q, k, before, next)
  <2>1. \A q \in T, k \in 1 .. n : Left(q, k, before, next) \in T
    BY <1>4, LeftIsASequence
  <2> HIDE DEF T, before
  <2>2. QED
    BY <2>1
<1> HIDE DEF step, T, before
<1>6. PICK f : f \in [0 .. n -> T] /\ f[0] = base /\ \A k \in 1 .. n : f[k] = step[<<f[k - 1], k>>]
  <2>1. \E f : Recurses(f, base, step, n, T)
    BY <1>0, <1>3, <1>5, Recursion
  <2>2. QED
    BY <2>1 DEF Recurses
<1>7. \A k \in 0 .. n : f[k] = IF k = 0 THEN base ELSE Left(f[k - 1], k, before, next)
  <2>1. \A k \in 0 .. n : k = 0 \/ k \in 1 .. n
    BY <1>0
  <2>2. QED
    BY <1>4, <1>5, <1>6, <2>1
<1>8. Is(order)
  BY <1>6, <1>7
<1> HIDE DEF order
<1>9. \A k \in 0 .. n : order[k] = IF k = 0 THEN base ELSE Left(order[k - 1], k, before, next)
  BY <1>8
<1> DEFINE S == {k \in Nat : k <= n => Ordered(order[k], k, reachable, next)}
<1>10. 0 \in S
  BY <1>0, <1>2, <1>9
<1>11. ASSUME NEW m \in Nat, m \in S PROVE m + 1 \in S
  <2> SUFFICES ASSUME m + 1 <= n PROVE Ordered(order[m + 1], m + 1, reachable, next)
    OBVIOUS
  <2>1. m + 1 \in 0 .. n /\ m + 1 # 0 /\ (m + 1) - 1 = m /\ m <= n /\ m + 1 \in Nat \ {0}
    BY <1>0
  <2>2. order[m + 1] = Left(order[m], m + 1, before, next)
    BY <1>9, <2>1
  <2>3. Ordered(order[m], (m + 1) - 1, reachable, next)
    BY <1>11, <2>1
  <2>4. QED
    BY <2>1, <2>2, <2>3, LeavingKeepsOrder DEF before
<1>12. Nat \subseteq S
  <2> HIDE DEF S
  <2>1. QED
    BY <1>10, <1>11, Induction
<1>13. Ordered(order[n], n, reachable, next)
  BY <1>0, <1>12
<1>14. QED
  BY <1>1, <1>13 DEF n

\* Either all that can be reached is in the order, each after all that lead to
\* it, or it has a cycle.
LEMMA OrderIsTopological ==
  ASSUME NEW next, Neighbours(next), NEW reachable \in SUBSET DOMAIN next, Closed(reachable, next),
         NEW q, q = TopologicalOrder(reachable, next)
  PROVE  /\ q \in Seq(reachable) /\ Simple(q)
         /\ \A i \in 1 .. Len(q) : \A m \in reachable :
              q[i] \in next[m] => \E j \in 1 .. Len(q) : j < i /\ m = q[j]
         /\ Len(q) = Cardinality(reachable) => Members(q) = reachable
         /\ Len(q) # Cardinality(reachable) => \E y \in reachable : OnCycle(y, next)
<1> DEFINE n == Cardinality(reachable)
           before == Before(reachable, next)
<1>1. Ordered(q, n, reachable, next)
  BY OrderByStep
<1>2. /\ q \in Seq(reachable) /\ Len(q) \in Nat
      /\ \A i \in 1 .. Len(q) : q[i] \in reachable
      /\ Simple(q) /\ IsFiniteSet(reachable) /\ n \in Nat
  BY <1>1, FS_Subset, FS_CardinalityType DEF Ordered, Neighbours
<1>3. \A m \in reachable : before[m] = {x \in reachable : m \in next[x]}
  BY DEF Before
<1> DEFINE f == [i \in 1 .. Len(q) |-> q[i]]
<1>4. f \in Injection(1 .. Len(q), reachable)
  BY <1>2 DEF Injection, IsInjective, Simple
<1>5. Cardinality(1 .. Len(q)) = Len(q)
  <2> DEFINE l == Len(q)
  <2>1. 1 \in Int /\ l \in Int /\ l \in Nat
    BY <1>2
  <2> HIDE DEF l
  <2>2. Cardinality(1 .. l) = IF 1 > l THEN 0 ELSE l - 1 + 1
    BY <2>1, FS_Interval
  <2>3. Cardinality(1 .. l) = l
    BY <2>1, <2>2
  <2>4. QED
    BY <2>3 DEF l
<1>6. Len(q) <= n /\ (Len(q) = n <=> f \in Surjection(1 .. Len(q), reachable))
  <2> HIDE DEF f
  <2>1. QED
    BY <1>2, <1>4, <1>5, FS_Injection
<1>7. Len(q) = n => Members(q) = reachable
  BY <1>2, <1>6 DEF Surjection, Members
<1>8. Members(q) = reachable => Len(q) = n
  BY <1>2, <1>4, <1>6 DEF Surjection, Members, Injection
<1> HIDE DEF before, n, f
<1>9. ASSUME NEW i \in 1 .. Len(q), NEW m \in reachable, q[i] \in next[m]
      PROVE  \E j \in 1 .. Len(q) : j < i /\ m = q[j]
  <2>1. m \in before[q[i]]
    BY <1>2, <1>3, <1>9
  <2>2. before[q[i]] \subseteq {q[j] : j \in {h \in 1 .. Len(q) : h <= n /\ h < i}}
    BY <1>1 DEF Ordered, before
  <2>3. QED
    BY <2>1, <2>2
<1>10. ASSUME Len(q) # n PROVE \E y \in reachable : OnCycle(y, next)
  <2> DEFINE B == reachable \ Members(q)
  <2>1. B # {} /\ B \in SUBSET DOMAIN next
    BY <1>2, <1>8, <1>10 DEF Members
  <2>2. ASSUME NEW x \in B PROVE \E y \in B : x \in next[y]
    <3>1. ~(before[x] \subseteq {q[j] : j \in {h \in 1 .. Len(q) : h <= n}})
      BY <1>1, <2>2 DEF Ordered, before
    <3>2. \A h \in 1 .. Len(q) : h <= n
      BY <1>2, <1>6
    <3>3. {q[j] : j \in {h \in 1 .. Len(q) : h <= n}} = Members(q)
      BY <3>2 DEF Members
    <3>4. PICK y \in before[x] : y \notin Members(q)
      BY <3>1, <3>3
    <3>5. QED
      BY <1>3, <3>4
  <2> HIDE DEF B
  <2>3. PICK y \in B : OnCycle(y, next)
    BY <2>1, <2>2, NoFirstMeansCycle
  <2>4. QED
    BY <2>3 DEF B
<1>11. QED
  BY <1>2, <1>7, <1>9, <1>10 DEF n

\* What is known of the chains once k of the packages were relaxed.
Chained(chain, k, q, start, reachable, next) ==
  /\ chain \in [reachable -> Seq(DOMAIN next)]
  /\ chain[start] # << >>
  /\ \A n \in reachable : chain[n] = << >> \/ Leads(chain[n], start, n, next)
  /\ \A n \in reachable : \A p :
       /\ Leads(p, start, n, next)
       /\ Len(p) = 1 \/ \E i \in 1 .. Len(q) : i <= k /\ p[Len(p) - 1] = q[i]
       => Len(p) <= Len(chain[n])

\* A path without its last package.
LEMMA AllButLast ==
  ASSUME NEW next, NEW start, NEW n, NEW p, Leads(p, start, n, next), Len(p) # 1
  PROVE  /\ Len(p) - 1 \in 1 .. Len(p)
         /\ \E r : Leads(r, start, p[Len(p) - 1], next) /\ Len(p) = Len(r) + 1
         /\ n \in next[p[Len(p) - 1]]
<1> DEFINE l == Len(p) - 1
           r == [i \in 1 .. l |-> p[i]]
<1>1. p \in Seq(DOMAIN next) /\ Len(p) \in Nat /\ Len(p) >= 1
  BY DEF Leads
<1>2. l \in Nat /\ l >= 1 /\ l + 1 = Len(p) /\ l \in 1 .. Len(p)
  <2> DEFINE m == Len(p)
  <2>1. m \in Nat /\ m >= 1 /\ m # 1
    BY <1>1
  <2> HIDE DEF m
  <2>2. m - 1 \in Nat /\ m - 1 >= 1 /\ (m - 1) + 1 = m /\ m - 1 \in 1 .. m
    BY <2>1
  <2>3. QED
    BY <2>2 DEF m
<1> HIDE DEF l
<1>3. \A i \in 1 .. l : i \in 1 .. Len(p) /\ p[i] \in DOMAIN next
  BY <1>1, <1>2
<1>4. r \in Seq(DOMAIN next) /\ Len(r) = l /\ \A i \in 1 .. l : r[i] = p[i]
  BY <1>2, <1>3
<1> HIDE DEF r
<1>5. Leads(r, start, p[l], next)
  <2>1. r[1] = start /\ r[Len(r)] = p[l]
    BY <1>2, <1>4 DEF Leads
  <2>2. ASSUME NEW i \in 2 .. Len(r) PROVE r[i] \in next[r[i - 1]]
    <3>1. i \in 1 .. l /\ i - 1 \in 1 .. l /\ i \in 2 .. Len(p)
      BY <1>2, <1>4
    <3>2. QED
      BY <1>4, <3>1 DEF Leads
  <2>3. QED
    BY <1>2, <1>4, <2>1, <2>2 DEF Leads
<1>6. n \in next[p[l]]
  <2>1. Len(p) \in 2 .. Len(p) /\ Len(p) - 1 = l
    BY <1>1, <1>2
  <2>2. QED
    BY <2>1 DEF Leads
<1>7. QED
  BY <1>2, <1>4, <1>5, <1>6 DEF l

\* One more package at its end.
LEMMA OneMore ==
  ASSUME NEW next, NEW start, NEW m, NEW p, Leads(p, start, m, next),
         NEW n \in next[m], n \in DOMAIN next
  PROVE  Leads(Append(p, n), start, n, next) /\ Len(Append(p, n)) = Len(p) + 1
<1> DEFINE t == Append(p, n)
<1>1. p \in Seq(DOMAIN next) /\ Len(p) \in Nat /\ Len(p) >= 1
  BY DEF Leads
<1>2. /\ t \in Seq(DOMAIN next) /\ Len(t) = Len(p) + 1 /\ t[Len(t)] = n
      /\ \A i \in 1 .. Len(p) : t[i] = p[i]
  BY <1>1
<1> HIDE DEF t
<1>3. ASSUME NEW i \in 2 .. Len(t) PROVE t[i] \in next[t[i - 1]]
  <2>1. CASE i = Len(t)
    <3>1. i - 1 = Len(p) /\ Len(p) \in 1 .. Len(p)
      BY <1>1, <1>2, <2>1
    <3>2. QED
      BY <1>2, <2>1, <3>1 DEF Leads
  <2>2. CASE i # Len(t)
    <3>1. i \in 1 .. Len(p) /\ i - 1 \in 1 .. Len(p) /\ i \in 2 .. Len(p)
      BY <1>1, <1>2, <2>2
    <3>2. QED
      BY <1>2, <3>1 DEF Leads
  <2>3. QED
    BY <2>1, <2>2
<1>4. t[1] = start /\ Len(t) >= 1
  BY <1>1, <1>2 DEF Leads
<1>5. QED
  BY <1>2, <1>3, <1>4 DEF Leads, t

\* A path leads to what is reached.
LEMMA ReachedByPath ==
  ASSUME NEW next, Neighbours(next), NEW start \in DOMAIN next, NEW n \in Reach(start, next)
  PROVE  \E p : Leads(p, start, n, next)
<1> DEFINE S == {m \in DOMAIN next : \E p : Leads(p, start, m, next)}
<1>1. start \in S
  <2> DEFINE p == <<start>>
  <2>1. p \in Seq(DOMAIN next) /\ Len(p) = 1 /\ p[1] = start
    OBVIOUS
  <2> HIDE DEF p
  <2>2. 2 .. Len(p) = {}
    BY <2>1
  <2>3. Leads(p, start, start, next)
    BY <2>1, <2>2 DEF Leads
  <2>4. QED
    BY <2>3
<1>2. ASSUME NEW m \in S, NEW x \in next[m] PROVE x \in S
  <2>1. x \in DOMAIN next
    BY <1>2 DEF Neighbours
  <2>2. PICK p : Leads(p, start, m, next)
    BY <1>2
  <2>3. Leads(Append(p, x), start, x, next)
    BY <1>2, <2>1, <2>2, OneMore
  <2>4. QED
    BY <2>1, <2>3
<1>3. n \in S
  <2>1. Closed(S, next) /\ S \in SUBSET DOMAIN next
    BY <1>2 DEF Closed
  <2> HIDE DEF S
  <2>2. QED
    BY <1>1, <2>1, ReachIsLeast
<1>4. QED
  BY <1>3

\* A path leads to nothing else, and each of its packages leads to its end.
LEMMA LeadsToWhatIsReached ==
  ASSUME NEW next, Neighbours(next), NEW start \in DOMAIN next, NEW n, NEW p, Leads(p, start, n, next)
  PROVE  n \in Reach(start, next) /\ \A i \in 1 .. Len(p) : p[i] \in Reach(start, next)
<1>1. Len(p) \in Nat /\ Len(p) >= 1
  BY DEF Leads
<1> DEFINE S == {k \in Nat : k + 1 <= Len(p) => p[k + 1] \in Reach(start, next)}
<1>2. 0 \in S
  BY ReachIsLeast DEF Leads
<1>3. ASSUME NEW k \in Nat, k \in S PROVE k + 1 \in S
  <2> SUFFICES ASSUME (k + 1) + 1 <= Len(p) PROVE p[(k + 1) + 1] \in Reach(start, next)
    OBVIOUS
  <2>1. p[k + 1] \in Reach(start, next)
    BY <1>1, <1>3
  <2>2. (k + 1) + 1 \in 2 .. Len(p) /\ ((k + 1) + 1) - 1 = k + 1
    BY <1>1
  <2>3. p[(k + 1) + 1] \in next[p[k + 1]]
    BY <2>2 DEF Leads
  <2>4. QED
    BY <2>1, <2>3, ReachSteps
<1>4. Nat \subseteq S
  <2> HIDE DEF S
  <2>1. QED
    BY <1>2, <1>3, Induction
<1>5. ASSUME NEW i \in 1 .. Len(p) PROVE p[i] \in Reach(start, next)
  <2>1. i - 1 \in Nat /\ (i - 1) + 1 = i /\ i <= Len(p)
    BY <1>1
  <2>2. i - 1 \in S
    BY <1>4, <2>1
  <2>3. QED
    BY <2>1, <2>2
<1>6. Len(p) \in 1 .. Len(p) /\ p[Len(p)] = n
  BY <1>1 DEF Leads
<1>7. QED
  BY <1>5, <1>6

\* The next package of the order is relaxed: all that lead to it come before it, so
\* its own chain is final.
LEMMA RelaxingKeepsChains ==
  ASSUME NEW next, Neighbours(next), NEW start \in DOMAIN next,
         NEW reachable, reachable = Reach(start, next),
         NEW q \in Seq(reachable),
         \A i \in 1 .. Len(q) : \A m \in reachable :
           q[i] \in next[m] => \E j \in 1 .. Len(q) : j < i /\ m = q[j],
         NEW k \in 1 .. Len(q), NEW chain, Chained(chain, k - 1, q, start, reachable, next)
  PROVE  Chained(Relaxed(chain, q[k], next), k, q, start, reachable, next)
<1> DEFINE id == q[k]
           c == Relaxed(chain, id, next)
           Better(n) == n \in next[id] /\ Len(chain[id]) + 1 > Len(chain[n])
<1>1. /\ chain \in [reachable -> Seq(DOMAIN next)] /\ chain[start] # << >>
      /\ \A n \in reachable : chain[n] = << >> \/ Leads(chain[n], start, n, next)
      /\ id \in reachable /\ reachable \subseteq DOMAIN next /\ start \in reachable
      /\ Len(q) \in Nat /\ k \in Nat /\ k >= 1
  BY ReachIsLeast DEF Chained
<1>2. DOMAIN chain = reachable
  BY <1>1
<1>3. /\ DOMAIN c = reachable
      /\ \A n \in reachable : Better(n) => c[n] = Append(chain[id], n)
      /\ \A n \in reachable : ~Better(n) => c[n] = chain[n]
  BY <1>2 DEF Relaxed
<1>c. c = [n \in reachable |-> c[n]]
  BY <1>2 DEF Relaxed
<1>4. \A n \in reachable : Len(chain[n]) \in Nat /\ chain[n] \in Seq(DOMAIN next)
  BY <1>1
<1>5. ASSUME NEW n \in reachable, NEW p, Leads(p, start, n, next),
             Len(p) = 1 \/ \E i \in 1 .. Len(q) : i <= k - 1 /\ p[Len(p) - 1] = q[i]
      PROVE  Len(p) <= Len(chain[n])
  BY <1>5 DEF Chained
<1>6. \A p : Leads(p, start, id, next) => Len(p) <= Len(chain[id])
  <2> SUFFICES ASSUME NEW p, Leads(p, start, id, next) PROVE Len(p) <= Len(chain[id])
    OBVIOUS
  <2>1. CASE Len(p) = 1
    BY <1>1, <1>5, <2>1
  <2>2. CASE Len(p) # 1
    <3>1. PICK r : Leads(r, start, p[Len(p) - 1], next)
      BY <2>2, AllButLast
    <3>2. p[Len(p) - 1] \in reachable /\ id \in next[p[Len(p) - 1]]
      BY <2>2, <3>1, AllButLast, LeadsToWhatIsReached
    <3>3. PICK j \in 1 .. Len(q) : j < k /\ p[Len(p) - 1] = q[j]
      BY <3>2
    <3>4. j <= k - 1
      BY <1>1, <3>3
    <3>5. QED
      BY <1>1, <1>5, <3>3, <3>4
  <2>3. QED
    BY <2>1, <2>2
<1>7. Leads(chain[id], start, id, next)
  <2>1. PICK p : Leads(p, start, id, next)
    BY <1>1, ReachedByPath
  <2>2. Len(p) >= 1 /\ Len(p) \in Nat
    BY <2>1 DEF Leads
  <2>3. Len(chain[id]) >= 1
    BY <1>1, <1>4, <1>6, <2>1, <2>2
  <2>4. chain[id] # << >>
    BY <2>3
  <2>5. QED
    BY <1>1, <2>4
<1> HIDE DEF c, id
<1>8. ASSUME NEW n \in reachable
      PROVE  /\ c[n] \in Seq(DOMAIN next) /\ Len(c[n]) >= Len(chain[n])
             /\ n \in next[id] => Len(c[n]) >= Len(chain[id]) + 1
             /\ c[n] = << >> \/ Leads(c[n], start, n, next)
             /\ Len(c[n]) \in Nat
  <2>1. CASE Better(n)
    <3>1. Leads(Append(chain[id], n), start, n, next) /\ Len(Append(chain[id], n)) = Len(chain[id]) + 1
      BY <1>1, <1>7, <2>1, OneMore
    <3>2. Leads(c[n], start, n, next) /\ Len(c[n]) = Len(chain[id]) + 1
      BY <1>3, <2>1, <3>1
    <3>3. c[n] \in Seq(DOMAIN next)
      BY <3>2 DEF Leads
    <3>4. Len(chain[id]) \in Nat /\ Len(chain[n]) \in Nat /\ Len(chain[id]) + 1 > Len(chain[n])
      BY <1>1, <1>4, <2>1
    <3>5. QED
      BY <3>2, <3>3, <3>4
  <2>2. CASE ~Better(n)
    <3>1. c[n] = chain[n]
      BY <1>3, <2>2
    <3>2. QED
      BY <1>1, <1>4, <2>2, <3>1
  <2>3. QED
    BY <2>1, <2>2
<1>9. c \in [reachable -> Seq(DOMAIN next)]
  BY <1>c, <1>8
<1>10. c[start] # << >>
  <2>1. Len(chain[start]) >= 1
    <3>1. Leads(chain[start], start, start, next)
      BY <1>1
    <3>2. QED
      BY <3>1 DEF Leads
  <2>2. Len(c[start]) >= 1
    BY <1>1, <1>4, <1>8, <2>1
  <2>3. QED
    BY <2>2
<1>11. ASSUME NEW n \in reachable, NEW p, Leads(p, start, n, next),
              Len(p) = 1 \/ \E i \in 1 .. Len(q) : i <= k /\ p[Len(p) - 1] = q[i]
       PROVE  Len(p) <= Len(c[n])
  <2>0. Len(p) \in Nat
    BY <1>11 DEF Leads
  <2>1. CASE Len(p) = 1 \/ \E i \in 1 .. Len(q) : i <= k - 1 /\ p[Len(p) - 1] = q[i]
    <3>1. Len(p) <= Len(chain[n])
      BY <1>5, <1>11, <2>1
    <3>2. QED
      BY <1>4, <1>8, <2>0, <3>1
  <2>2. CASE ~(Len(p) = 1 \/ \E i \in 1 .. Len(q) : i <= k - 1 /\ p[Len(p) - 1] = q[i])
    <3>1. PICK i \in 1 .. Len(q) : i <= k /\ p[Len(p) - 1] = q[i]
      BY <1>11, <2>2
    <3>2. i = k
      <4>1. ~(i <= k - 1)
        BY <2>2, <3>1
      <4>2. i \in Nat
        BY <1>1
      <4>3. QED
        BY <1>1, <3>1, <4>1, <4>2
    <3>3. PICK r : Leads(r, start, id, next) /\ Len(p) = Len(r) + 1
      BY <1>11, <2>2, <3>1, <3>2, AllButLast DEF id
    <3>4. n \in next[id]
      BY <1>11, <2>2, <3>1, <3>2, AllButLast DEF id
    <3>5. Len(r) <= Len(chain[id]) /\ Len(r) \in Nat
      <4>1. Len(r) <= Len(chain[id])
        BY <1>6, <3>3
      <4>2. Len(r) \in Nat
        BY <3>3 DEF Leads
      <4>3. QED
        BY <4>1, <4>2
    <3>6. Len(c[n]) >= Len(chain[id]) + 1 /\ Len(c[n]) \in Nat
      BY <1>8, <3>4
    <3>7. Len(chain[id]) \in Nat
      BY <1>1, <1>4
    <3>8. QED
      BY <3>3, <3>5, <3>6, <3>7
  <2>3. QED
    BY <2>1, <2>2
<1>12. QED
  BY <1>8, <1>9, <1>10, <1>11 DEF Chained, c, id

\* No path has a package twice, where each comes after all that lead to it.
LEMMA OrderedPathsAreSimple ==
  ASSUME NEW next, Neighbours(next), NEW start \in DOMAIN next,
         NEW q \in Seq(Reach(start, next)), Simple(q), Members(q) = Reach(start, next),
         \A i \in 1 .. Len(q) : \A m \in Reach(start, next) :
           q[i] \in next[m] => \E j \in 1 .. Len(q) : j < i /\ m = q[j],
         NEW n, NEW p, Leads(p, start, n, next)
  PROVE  Simple(p)
<1> DEFINE R == Reach(start, next)
           place == [m \in R |-> CHOOSE i \in 1 .. Len(q) : q[i] = m]
<1>0. Len(p) \in Nat /\ \A i \in 1 .. Len(p) : p[i] \in R
  BY LeadsToWhatIsReached DEF Leads
<1>1. \A m \in R : place[m] \in 1 .. Len(q) /\ q[place[m]] = m
  BY DEF Members
<1> HIDE DEF place
<1>2. ASSUME NEW m \in R, NEW x \in R, x \in next[m] PROVE place[m] < place[x]
  <2>1. PICK j \in 1 .. Len(q) : j < place[x] /\ m = q[j]
    BY <1>1, <1>2
  <2>2. place[m] = j
    BY <1>1, <2>1 DEF Simple
  <2>3. QED
    BY <2>1, <2>2
<1> HIDE DEF R
<1>3. ASSUME NEW i \in 1 .. Len(p), NEW j \in 1 .. Len(p), i < j PROVE place[p[i]] < place[p[j]]
  <2> DEFINE S == {k \in Nat : i + k + 1 <= Len(p) => place[p[i]] < place[p[i + k + 1]]}
  <2>0. \A h \in 2 .. Len(p) : place[p[h - 1]] < place[p[h]]
    <3> SUFFICES ASSUME NEW h \in 2 .. Len(p) PROVE place[p[h - 1]] < place[p[h]]
      OBVIOUS
    <3>1. h \in 1 .. Len(p) /\ h - 1 \in 1 .. Len(p)
      BY <1>0
    <3>2. p[h] \in next[p[h - 1]]
      BY DEF Leads
    <3>3. QED
      BY <1>0, <1>2, <3>1, <3>2
  <2>1. 0 \in S
    <3>1. i + 0 + 1 <= Len(p) => i + 0 + 1 \in 2 .. Len(p) /\ (i + 0 + 1) - 1 = i
      BY <1>0
    <3>2. QED
      BY <2>0, <3>1
  <2>2. ASSUME NEW k \in Nat, k \in S PROVE k + 1 \in S
    <3> SUFFICES ASSUME i + (k + 1) + 1 <= Len(p) PROVE place[p[i]] < place[p[i + (k + 1) + 1]]
      OBVIOUS
    <3>1. /\ i + (k + 1) + 1 \in 2 .. Len(p) /\ (i + (k + 1) + 1) - 1 = i + k + 1
          /\ i + k + 1 \in 1 .. Len(p) /\ i + (k + 1) + 1 \in 1 .. Len(p) /\ i + k + 1 <= Len(p)
      BY <1>0
    <3>2. place[p[i]] < place[p[i + k + 1]]
      BY <2>2, <3>1
    <3>3. place[p[i + k + 1]] < place[p[i + (k + 1) + 1]]
      BY <2>0, <3>1
    <3>4. \A h \in 1 .. Len(p) : place[p[h]] \in Nat
      BY <1>0, <1>1
    <3>5. QED
      BY <3>1, <3>2, <3>3, <3>4
  <2>3. Nat \subseteq S
    <3> HIDE DEF S
    <3>1. QED
      BY <2>1, <2>2, Induction
  <2>4. j - i - 1 \in Nat /\ i + (j - i - 1) + 1 = j /\ j <= Len(p)
    BY <1>0, <1>3
  <2>5. j - i - 1 \in S
    BY <2>3, <2>4
  <2>6. QED
    BY <2>4, <2>5
<1>4. ASSUME NEW i \in 1 .. Len(p), NEW j \in 1 .. Len(p), i # j PROVE p[i] # p[j]
  <2>1. i < j \/ j < i
    BY <1>0, <1>4
  <2>2. place[p[i]] \in Nat /\ place[p[j]] \in Nat
    BY <1>0, <1>1
  <2>3. QED
    BY <1>3, <2>1, <2>2
<1>5. QED
  BY <1>4 DEF Simple

\* The chain is the longest path from the package, or what can be reached from
\* it has a cycle.
THEOREM LongestChainIsLongest ==
  ASSUME NEW next, Neighbours(next), NEW start \in DOMAIN next,
         NEW longest, longest = LongestChain(start, next)
  PROVE  /\ longest.cyclic => \E y \in Reach(start, next) : OnCycle(y, next)
         /\ ~longest.cyclic =>
              \E n \in Reach(start, next) :
                /\ Leads(longest.path, start, n, next) /\ Simple(longest.path)
                /\ \A m, p : Leads(p, start, m, next) => Len(p) <= Len(longest.path)
<1> DEFINE reachable == Walk(start, next)
           q == TopologicalOrder(reachable, next)
           l == Len(q)
           cyclic == l # Cardinality(reachable)
           base == [n \in reachable |-> IF n = start THEN <<start>> ELSE << >>]
           Is(f) == f = [k \in 0 .. l |-> IF k = 0 THEN base ELSE Relaxed(f[k - 1], q[k], next)]
           chains == CHOOSE f : Is(f)
           chain == chains[l]
           Most(n) == \A m \in reachable : Len(chain[m]) <= Len(chain[n])
           end == CHOOSE n \in reachable : Most(n)
<1>r. reachable = Reach(start, next)
  BY WalkIsReach
<1>1. longest = [cyclic |-> cyclic, path |-> IF cyclic THEN << >> ELSE chain[end]]
  BY Zenon DEF LongestChain
<1> HIDE DEF chain, chains, end
<1>1b. longest.cyclic = cyclic /\ (~cyclic => longest.path = chain[end])
  BY <1>1
<1> HIDE DEF reachable
<1>0. /\ start \in reachable /\ reachable \in SUBSET DOMAIN next /\ Closed(reachable, next)
      /\ IsFiniteSet(reachable)
  BY <1>r, ReachIsLeast, FS_Subset DEF Neighbours
<1> HIDE DEF q
<1>2. /\ q \in Seq(reachable) /\ Simple(q) /\ l \in Nat
      /\ \A i \in 1 .. l : \A m \in reachable :
           q[i] \in next[m] => \E j \in 1 .. l : j < i /\ m = q[j]
      /\ ~cyclic => Members(q) = reachable
      /\ cyclic => \E y \in reachable : OnCycle(y, next)
  <2>1. q = TopologicalOrder(reachable, next)
    BY DEF q
  <2> HIDE DEF reachable
  <2>2. /\ q \in Seq(reachable) /\ Simple(q)
        /\ \A i \in 1 .. l : \A m \in reachable :
             q[i] \in next[m] => \E j \in 1 .. l : j < i /\ m = q[j]
        /\ l = Cardinality(reachable) => Members(q) = reachable
        /\ l # Cardinality(reachable) => \E y \in reachable : OnCycle(y, next)
    BY <1>0, <2>1, OrderIsTopological
  <2>3. QED
    BY <2>2
<1>3. CASE cyclic
  BY <1>1b, <1>2, <1>3, <1>r
<1>4. CASE ~cyclic
  <2>1. Members(q) = reachable /\ longest.path = chain[end] /\ ~longest.cyclic
    BY <1>1b, <1>2, <1>4
  <2> HIDE DEF cyclic, l
  <2>2. Chained(base, 0, q, start, reachable, next)
    <3>1. /\ <<start>> \in Seq(DOMAIN next) /\ Len(<<start>>) = 1 /\ <<start>>[1] = start
          /\ << >> \in Seq(DOMAIN next) /\ <<start>> # << >> /\ Len(<< >>) = 0
      OBVIOUS
    <3>2. base \in [reachable -> Seq(DOMAIN next)] /\ base[start] = <<start>>
      BY <1>0, <3>1
    <3>3. \A n \in reachable : n # start => base[n] = << >>
      OBVIOUS
    <3>4. Leads(<<start>>, start, start, next)
      <4>1. 2 .. Len(<<start>>) = {}
        BY <3>1
      <4>2. QED
        BY <3>1, <4>1 DEF Leads
    <3> HIDE DEF base
    <3>5. ASSUME NEW n \in reachable, NEW p, Leads(p, start, n, next),
                 Len(p) = 1 \/ \E i \in 1 .. Len(q) : i <= 0 /\ p[Len(p) - 1] = q[i]
          PROVE  Len(p) <= Len(base[n])
      <4>1. \A i \in 1 .. Len(q) : ~(i <= 0)
        OBVIOUS
      <4>2. Len(p) = 1
        BY <3>5, <4>1
      <4>3. n = start
        BY <3>5, <4>2 DEF Leads
      <4>4. Len(base[start]) = 1
        BY <3>1, <3>2
      <4>5. QED
        BY <4>2, <4>3, <4>4
    <3>6. QED
      BY <3>1, <3>2, <3>3, <3>4, <3>5 DEF Chained
  <2>3. ASSUME NEW k \in 1 .. l, NEW c, Chained(c, k - 1, q, start, reachable, next)
        PROVE  Chained(Relaxed(c, q[k], next), k, q, start, reachable, next)
    BY <1>2, <1>r, <2>3, RelaxingKeepsChains DEF l
  <2>4. \A k \in 0 .. l : chains[k] = IF k = 0 THEN base ELSE Relaxed(chains[k - 1], q[k], next)
    <3> DEFINE T == [reachable -> Seq(DOMAIN next)]
               step == [x \in T \X (1 .. l) |-> IF Relaxed(x[1], q[x[2]], next) \in T
                                                THEN Relaxed(x[1], q[x[2]], next) ELSE base]
    <3>0. base \in T
      BY <2>2 DEF Chained
    <3> HIDE DEF T, base
    <3>1. step \in [T \X (1 .. l) -> T]
      BY <3>0
    <3>2. \A c \in T, k \in 1 .. l : Relaxed(c, q[k], next) \in T => step[<<c, k>>] = Relaxed(c, q[k], next)
      OBVIOUS
    <3> HIDE DEF step
    <3>3. PICK f : f \in [0 .. l -> T] /\ f[0] = base /\ \A k \in 1 .. l : f[k] = step[<<f[k - 1], k>>]
      <4>1. \E f : Recurses(f, base, step, l, T)
        BY <1>2, <3>0, <3>1, Recursion
      <4>2. QED
        BY <4>1 DEF Recurses
    <3>4. \A k \in 1 .. l : k \in 0 .. l /\ k - 1 \in 0 .. l /\ k # 0
      BY <1>2
    <3>5. ASSUME NEW c \in T, NEW k \in 1 .. l PROVE Relaxed(c, q[k], next) \in T
      <4>1. q[k] \in reachable
        BY <1>2 DEF l
      <4>2. DOMAIN c = reachable /\ \A n \in reachable : c[n] \in Seq(DOMAIN next) /\ n \in DOMAIN next
        BY <1>0, <3>5 DEF T
      <4>3. \A n \in reachable : Append(c[q[k]], n) \in Seq(DOMAIN next)
        BY <4>1, <4>2
      <4>4. QED
        BY <4>2, <4>3 DEF Relaxed, T
    <3>6. \A k \in 1 .. l : f[k] = Relaxed(f[k - 1], q[k], next)
      BY <3>2, <3>3, <3>4, <3>5
    <3>7. \A k \in 0 .. l : f[k] = IF k = 0 THEN base ELSE Relaxed(f[k - 1], q[k], next)
      <4>1. \A k \in 0 .. l : k = 0 \/ k \in 1 .. l
        BY <1>2
      <4>2. QED
        BY <3>3, <3>4, <3>6, <4>1
    <3>8. Is(f)
      BY <3>3, <3>7
    <3>9. Is(chains)
      BY <3>8 DEF chains
    <3>10. QED
      BY <3>9
  <2> HIDE DEF base
  <2> DEFINE S == {k \in Nat : k <= l => Chained(chains[k], k, q, start, reachable, next)}
  <2>5. 0 \in S
    BY <1>2, <2>2, <2>4
  <2>6. ASSUME NEW m \in Nat, m \in S PROVE m + 1 \in S
    <3> SUFFICES ASSUME m + 1 <= l PROVE Chained(chains[m + 1], m + 1, q, start, reachable, next)
      OBVIOUS
    <3>1. m + 1 \in 0 .. l /\ m + 1 \in 1 .. l /\ m + 1 # 0 /\ (m + 1) - 1 = m /\ m <= l
      BY <1>2
    <3>2. chains[m + 1] = Relaxed(chains[m], q[m + 1], next)
      BY <2>4, <3>1
    <3>3. Chained(chains[m], (m + 1) - 1, q, start, reachable, next)
      BY <2>6, <3>1
    <3>4. QED
      BY <2>3, <3>1, <3>2, <3>3
  <2>7. Nat \subseteq S
    <3> HIDE DEF S
    <3>1. QED
      BY <2>5, <2>6, Induction
  <2>8. Chained(chain, l, q, start, reachable, next)
    BY <1>2, <2>7 DEF chain
  <2>9. /\ chain \in [reachable -> Seq(DOMAIN next)] /\ chain[start] # << >>
        /\ \A n \in reachable : chain[n] = << >> \/ Leads(chain[n], start, n, next)
        /\ \A n \in reachable : Len(chain[n]) \in Nat
    BY <2>8 DEF Chained
  <2>10. ASSUME NEW n \in reachable, NEW p, Leads(p, start, n, next) PROVE Len(p) <= Len(chain[n])
    <3>1. Len(p) = 1 \/ \E i \in 1 .. Len(q) : i <= l /\ p[Len(p) - 1] = q[i]
      <4>1. CASE Len(p) = 1
        BY <4>1
      <4>2. CASE Len(p) # 1
        <5>1. PICK r : Leads(r, start, p[Len(p) - 1], next)
          BY <2>10, <4>2, AllButLast
        <5>2. p[Len(p) - 1] \in Members(q)
          BY <1>r, <2>1, <5>1, LeadsToWhatIsReached
        <5>3. \A i \in 1 .. Len(q) : i <= l
          BY <1>2 DEF l
        <5>4. QED
          BY <5>2, <5>3 DEF Members
      <4>3. QED
        BY <4>1, <4>2
    <3>2. QED
      BY <2>8, <2>10, <3>1 DEF Chained
  <2>11. end \in reachable /\ Most(end)
    <3> DEFINE f == [n \in reachable |-> Len(chain[n])]
    <3>1. f \in [reachable -> Nat] /\ reachable # {}
      BY <1>0, <2>9
    <3>2. \A n \in reachable : f[n] = Len(chain[n])
      OBVIOUS
    <3> HIDE DEF f
    <3>3. \E n \in reachable : \A m \in reachable : f[m] <= f[n]
      BY <1>0, <3>1, Maximum
    <3>4. \E n \in reachable : Most(n)
      BY <3>2, <3>3
    <3> HIDE DEF Most
    <3>5. QED
      BY <3>4 DEF end
  <2>12. Leads(chain[end], start, end, next)
    <3>1. Leads(chain[start], start, start, next)
      BY <1>0, <2>9
    <3>2. Len(chain[start]) >= 1
      BY <3>1 DEF Leads
    <3>3. Len(chain[end]) >= 1
      BY <1>0, <2>9, <2>11, <3>2
    <3>4. chain[end] # << >>
      BY <3>3
    <3>5. QED
      BY <2>9, <2>11, <3>4
  <2>13. Simple(chain[end])
    BY <1>2, <1>r, <2>1, <2>12, OrderedPathsAreSimple DEF l
  <2>14. ASSUME NEW m, NEW p, Leads(p, start, m, next) PROVE Len(p) <= Len(chain[end])
    <3>1. m \in reachable
      BY <1>r, <2>14, LeadsToWhatIsReached
    <3>2. Len(p) <= Len(chain[m]) /\ Len(p) \in Nat
      BY <2>10, <2>14, <3>1 DEF Leads
    <3>3. QED
      BY <2>9, <2>11, <3>1, <3>2
  <2>15. QED
    BY <1>r, <2>1, <2>11, <2>12, <2>13, <2>14
<1>5. QED
  BY <1>3, <1>4

-----------------------------------------------------------------------------
(* Cycles: the depth-first search. *)

\* Each leads to the other.
Same(a, b, next) == b \in Reach(a, next) /\ a \in Reach(b, next)

\* Packages of one component.
LEMMA SameIsAnEquivalence ==
  ASSUME NEW next, Neighbours(next), NEW a \in DOMAIN next, NEW b, NEW c, Same(a, b, next)
  PROVE  /\ b \in DOMAIN next /\ Same(a, a, next) /\ Same(b, a, next)
         /\ Same(b, c, next) => Same(a, c, next)
<1>1. b \in DOMAIN next /\ a \in Reach(a, next)
  BY ReachIsLeast DEF Same
<1>2. ASSUME Same(b, c, next) PROVE Same(a, c, next)
  <2>1. c \in DOMAIN next
    BY <1>1, <1>2, ReachIsLeast DEF Same
  <2>2. QED
    BY <1>1, <1>2, <2>1, ReachIsTransitive DEF Same
<1>3. QED
  BY <1>1, <1>2 DEF Same

\* What the stack and the search may be.
VisitEntries(next) == [id : DOMAIN next, expanded : BOOLEAN]
VisitStates(next) ==
  [stack : Seq(VisitEntries(next)), visited : SUBSET DOMAIN next, finished : Seq(DOMAIN next)]

\* Expanded packages have not finished, and lead to all that is above them.
StackInOrder(s, next) ==
  /\ \A i \in 1 .. Len(s.stack) :
       s.stack[i].expanded => s.stack[i].id \in s.visited \ Members(s.finished)
  /\ \A i, j \in 1 .. Len(s.stack) :
       s.stack[i].expanded /\ s.stack[j].expanded /\ s.stack[i].id = s.stack[j].id => i = j
  /\ \A i, j \in 1 .. Len(s.stack) :
       i < j /\ s.stack[j].expanded => s.stack[i].id \in Reach(s.stack[j].id, next)
  /\ \A j \in 1 .. Len(s.stack) : \A m \in next[s.stack[j].id] :
       s.stack[j].expanded => m \in s.visited \/ \E i \in 1 .. Len(s.stack) : i < j /\ s.stack[i].id = m

\* What was visited has finished, or will; and all are visited, or will be.
NoneForgotten(s, next) ==
  /\ Members(s.finished) \subseteq s.visited
  /\ \A x \in s.visited \ Members(s.finished) :
       \E i \in 1 .. Len(s.stack) : s.stack[i].expanded /\ s.stack[i].id = x
  /\ \A x \in DOMAIN next \ s.visited : \E i \in 1 .. Len(s.stack) : s.stack[i].id = x
  /\ \A x \in Members(s.finished) : next[x] \subseteq s.visited

\* What has finished and leads to what has not is on a cycle with what is expanded.
StillOpen(s, next) ==
  \A a \in Members(s.finished), b \in DOMAIN next \ Members(s.finished) :
    b \in Reach(a, next) => \E g \in s.visited \ Members(s.finished) : Same(a, g, next)

\* What leads to a package is on a cycle with it, or with one that finishes later.
FinishedLast(finished, next) ==
  \A j \in 1 .. Len(finished) : \A a \in DOMAIN next :
    finished[j] \in Reach(a, next) =>
      \/ a \in Reach(finished[j], next)
      \/ \E y \in DOMAIN next : Same(a, y, next) /\ \A i \in 1 .. j : finished[i] # y

\* All of that, at a step of the search.
Searching(s, next) ==
  /\ s \in VisitStates(next) /\ Simple(s.finished)
  /\ StackInOrder(s, next) /\ NoneForgotten(s, next) /\ StillOpen(s, next)
  /\ FinishedLast(s.finished, next)

\* How much is left to do.
Rest(s, next) ==
  Len(s.stack) + Cardinality(DOMAIN next) * (Cardinality(DOMAIN next) - Cardinality(s.visited))

\* A package that was found twice.
LEMMA PopsVisited ==
  ASSUME NEW next, Neighbours(next), NEW s, Searching(s, next), s.stack # << >>,
         ~Head(s.stack).expanded, Head(s.stack).id \in s.visited
  PROVE  /\ Searching(Popped(s, next), next)
         /\ Popped(s, next).visited = s.visited /\ Len(Popped(s, next).stack) = Len(s.stack) - 1
<1> DEFINE rest == Tail(s.stack)
           t == [s EXCEPT !.stack = rest]
<1>0. /\ s \in VisitStates(next) /\ s.stack \in Seq(VisitEntries(next))
      /\ s.stack[1] = Head(s.stack) /\ Len(s.stack) \in Nat /\ Len(s.stack) >= 1
  BY DEF Searching, VisitStates
<1>1. Popped(s, next) = t
  BY DEF Popped
<1>2. /\ rest \in Seq(VisitEntries(next)) /\ Len(rest) = Len(s.stack) - 1
      /\ \A i \in 1 .. Len(rest) : i + 1 \in 1 .. Len(s.stack) /\ rest[i] = s.stack[i + 1]
  BY <1>0
<1> HIDE DEF rest
<1>3. t \in VisitStates(next) /\ t.stack = rest /\ t.visited = s.visited /\ t.finished = s.finished
  BY <1>0, <1>2 DEF VisitStates
<1> HIDE DEF t
<1>4. \A j \in 1 .. Len(s.stack) : j # 1 => j - 1 \in 1 .. Len(rest) /\ rest[j - 1] = s.stack[j]
  <2> SUFFICES ASSUME NEW j \in 1 .. Len(s.stack), j # 1
               PROVE  j - 1 \in 1 .. Len(rest) /\ rest[j - 1] = s.stack[j]
    OBVIOUS
  <2>1. j - 1 \in 1 .. Len(rest) /\ (j - 1) + 1 = j
    BY <1>0, <1>2
  <2>2. QED
    BY <1>2, <2>1
<1>5. StackInOrder(t, next)
  <2>1. ASSUME NEW i \in 1 .. Len(rest)
        PROVE  rest[i].expanded => rest[i].id \in s.visited \ Members(s.finished)
    BY <1>2 DEF Searching, StackInOrder
  <2>2. ASSUME NEW i \in 1 .. Len(rest), NEW j \in 1 .. Len(rest),
               rest[i].expanded, rest[j].expanded, rest[i].id = rest[j].id
        PROVE  i = j
    <3>1. i + 1 = j + 1
      <4>1. \A g, h \in 1 .. Len(s.stack) :
              /\ s.stack[g].expanded /\ s.stack[h].expanded
              /\ s.stack[g].id = s.stack[h].id
              => g = h
        BY DEF Searching, StackInOrder
      <4>2. /\ i + 1 \in 1 .. Len(s.stack) /\ rest[i] = s.stack[i + 1]
            /\ j + 1 \in 1 .. Len(s.stack) /\ rest[j] = s.stack[j + 1]
        BY <1>2
      <4>3. QED
        BY <2>2, <4>1, <4>2
    <3>2. QED
      BY <1>0, <1>2, <3>1
  <2>3. ASSUME NEW i \in 1 .. Len(rest), NEW j \in 1 .. Len(rest), i < j, rest[j].expanded
        PROVE  rest[i].id \in Reach(rest[j].id, next)
    <3>1. i + 1 < j + 1
      BY <1>0, <1>2, <2>3
    <3>2. QED
      BY <1>2, <2>3, <3>1 DEF Searching, StackInOrder
  <2>4. ASSUME NEW j \in 1 .. Len(rest), NEW m \in next[rest[j].id], rest[j].expanded
        PROVE  m \in s.visited \/ \E i \in 1 .. Len(rest) : i < j /\ rest[i].id = m
    <3>1. m \in s.visited \/ \E i \in 1 .. Len(s.stack) : i < j + 1 /\ s.stack[i].id = m
      BY <1>2, <2>4 DEF Searching, StackInOrder
    <3>2. ASSUME NEW i \in 1 .. Len(s.stack), i < j + 1, s.stack[i].id = m, m \notin s.visited
          PROVE  i - 1 \in 1 .. Len(rest) /\ i - 1 < j /\ rest[i - 1].id = m
      <4>1. i # 1
        BY <1>0, <3>2
      <4>2. QED
        BY <1>0, <1>2, <1>4, <3>2, <4>1
    <3>3. QED
      BY <3>1, <3>2
  <2>5. QED
    BY <1>3, <2>1, <2>2, <2>3, <2>4 DEF StackInOrder
<1>6. NoneForgotten(t, next)
  <2>1. ASSUME NEW x \in s.visited \ Members(s.finished)
        PROVE  \E i \in 1 .. Len(rest) : rest[i].expanded /\ rest[i].id = x
    <3>1. PICK i \in 1 .. Len(s.stack) : s.stack[i].expanded /\ s.stack[i].id = x
      BY DEF Searching, NoneForgotten
    <3>2. i # 1
      BY <1>0, <3>1
    <3>3. QED
      BY <1>4, <3>1, <3>2
  <2>2. ASSUME NEW x \in DOMAIN next \ s.visited PROVE \E i \in 1 .. Len(rest) : rest[i].id = x
    <3>1. PICK i \in 1 .. Len(s.stack) : s.stack[i].id = x
      BY DEF Searching, NoneForgotten
    <3>2. i # 1
      BY <1>0, <3>1
    <3>3. QED
      BY <1>4, <3>1, <3>2
  <2>3. QED
    BY <1>3, <2>1, <2>2 DEF NoneForgotten, Searching
<1>7. StillOpen(t, next) /\ FinishedLast(t.finished, next) /\ Simple(t.finished)
  BY <1>3 DEF StillOpen, Searching
<1>8. QED
  BY <1>1, <1>2, <1>3, <1>5, <1>6, <1>7 DEF Searching

\* A package that all that was found from has finished.
LEMMA PopsExpanded ==
  ASSUME NEW next, Neighbours(next), NEW s, Searching(s, next), s.stack # << >>,
         Head(s.stack).expanded
  PROVE  /\ Searching(Popped(s, next), next)
         /\ Popped(s, next).visited = s.visited /\ Len(Popped(s, next).stack) = Len(s.stack) - 1
<1> DEFINE rest == Tail(s.stack)
           g == Head(s.stack).id
           finished == Append(s.finished, g)
           t == [s EXCEPT !.stack = rest, !.finished = finished]
           Fin == Members(s.finished)
           Done == Members(finished)
<1>0. /\ s \in VisitStates(next) /\ s.stack \in Seq(VisitEntries(next))
      /\ s.stack[1] = Head(s.stack) /\ Len(s.stack) \in Nat /\ Len(s.stack) >= 1
      /\ s.finished \in Seq(DOMAIN next) /\ Simple(s.finished) /\ s.visited \subseteq DOMAIN next
      /\ Fin \subseteq s.visited
  BY DEF Searching, VisitStates, NoneForgotten
<1>1. Popped(s, next) = t
  <2>1. s.stack # << >> /\ Head(s.stack).expanded
    OBVIOUS
  <2>2. QED
    BY <2>1, Zenon DEF Popped
<1>2. /\ rest \in Seq(VisitEntries(next)) /\ Len(rest) = Len(s.stack) - 1
      /\ \A i \in 1 .. Len(rest) : i + 1 \in 1 .. Len(s.stack) /\ rest[i] = s.stack[i + 1]
  BY <1>0
<1>g. /\ g \in DOMAIN next /\ g \in s.visited \ Fin
      /\ 1 \in 1 .. Len(s.stack) /\ s.stack[1].id = g /\ s.stack[1].expanded
  <2>1. s.stack[1] \in VisitEntries(next) /\ 1 \in 1 .. Len(s.stack)
    BY <1>0
  <2>2. g \in DOMAIN next
    BY <1>0, <2>1 DEF VisitEntries
  <2>3. QED
    BY <1>0, <2>1, <2>2 DEF Searching, StackInOrder
<1> HIDE DEF rest, g
<1>f. /\ finished \in Seq(DOMAIN next) /\ Len(finished) = Len(s.finished) + 1 /\ Len(s.finished) \in Nat
      /\ finished[Len(finished)] = g
      /\ \A i \in 1 .. Len(s.finished) : finished[i] = s.finished[i]
      /\ Done = Fin \cup {g}
  <2>1. /\ finished \in Seq(DOMAIN next) /\ Len(finished) = Len(s.finished) + 1 /\ Len(s.finished) \in Nat
        /\ finished[Len(finished)] = g
        /\ \A i \in 1 .. Len(s.finished) : finished[i] = s.finished[i]
    BY <1>0, <1>g
  <2> HIDE DEF finished
  <2>2. \A i \in 1 .. Len(finished) : i \in 1 .. Len(s.finished) \/ i = Len(finished)
    BY <2>1
  <2>3. Len(finished) \in 1 .. Len(finished) /\ \A i \in 1 .. Len(s.finished) : i \in 1 .. Len(finished)
    BY <2>1
  <2>4. QED
    BY <2>1, <2>2, <2>3 DEF Members
<1> HIDE DEF finished
<1>3. t \in VisitStates(next) /\ t.stack = rest /\ t.visited = s.visited /\ t.finished = finished
  BY <1>0, <1>2, <1>f DEF VisitStates
<1> HIDE DEF t, Fin, Done
<1>4. \A j \in 1 .. Len(s.stack) : j # 1 => j - 1 \in 1 .. Len(rest) /\ rest[j - 1] = s.stack[j]
  <2> SUFFICES ASSUME NEW j \in 1 .. Len(s.stack), j # 1
               PROVE  j - 1 \in 1 .. Len(rest) /\ rest[j - 1] = s.stack[j]
    OBVIOUS
  <2>1. j - 1 \in 1 .. Len(rest) /\ (j - 1) + 1 = j
    BY <1>0, <1>2
  <2>2. QED
    BY <1>2, <2>1
<1>5. StackInOrder(t, next)
  <2>1. ASSUME NEW i \in 1 .. Len(rest), rest[i].expanded
        PROVE  rest[i].id \in s.visited \ Done
    <3>1. rest[i].id \in s.visited \ Fin
      BY <1>2, <2>1 DEF Searching, StackInOrder, Fin
    <3>2. rest[i].id # g
      <4>1. i + 1 # 1
        BY <1>0, <1>2
      <4>2. QED
        BY <1>2, <1>g, <2>1, <4>1 DEF Searching, StackInOrder
    <3>3. QED
      BY <1>f, <3>1, <3>2
  <2>2. ASSUME NEW i \in 1 .. Len(rest), NEW j \in 1 .. Len(rest),
               rest[i].expanded, rest[j].expanded, rest[i].id = rest[j].id
        PROVE  i = j
    <3>1. i + 1 = j + 1
      BY <1>2, <2>2, SMTT(20) DEF Searching, StackInOrder
    <3>2. QED
      BY <1>0, <1>2, <3>1
  <2>3. ASSUME NEW i \in 1 .. Len(rest), NEW j \in 1 .. Len(rest), i < j, rest[j].expanded
        PROVE  rest[i].id \in Reach(rest[j].id, next)
    <3>1. i + 1 < j + 1
      BY <1>0, <1>2, <2>3
    <3>2. QED
      BY <1>2, <2>3, <3>1 DEF Searching, StackInOrder
  <2>4. ASSUME NEW j \in 1 .. Len(rest), NEW m \in next[rest[j].id], rest[j].expanded
        PROVE  m \in s.visited \/ \E i \in 1 .. Len(rest) : i < j /\ rest[i].id = m
    <3>1. m \in s.visited \/ \E i \in 1 .. Len(s.stack) : i < j + 1 /\ s.stack[i].id = m
      BY <1>2, <2>4 DEF Searching, StackInOrder
    <3>2. ASSUME NEW i \in 1 .. Len(s.stack), i < j + 1, s.stack[i].id = m, m \notin s.visited
          PROVE  i - 1 \in 1 .. Len(rest) /\ i - 1 < j /\ rest[i - 1].id = m
      <4>1. i # 1
        BY <1>g, <3>2
      <4>2. QED
        BY <1>0, <1>2, <1>4, <3>2, <4>1
    <3>3. QED
      BY <3>1, <3>2
  <2>5. QED
    BY <1>3, <2>1, <2>2, <2>3, <2>4 DEF StackInOrder, Done
<1>6. next[g] \subseteq s.visited
  <2> SUFFICES ASSUME NEW m \in next[g], m \notin s.visited PROVE FALSE
    OBVIOUS
  <2>1. PICK i \in 1 .. Len(s.stack) : i < 1
    BY <1>g DEF Searching, StackInOrder
  <2>2. QED
    BY <2>1
<1>7. NoneForgotten(t, next)
  <2>1. ASSUME NEW x \in s.visited \ Done
        PROVE  \E i \in 1 .. Len(rest) : rest[i].expanded /\ rest[i].id = x
    <3>1. PICK i \in 1 .. Len(s.stack) : s.stack[i].expanded /\ s.stack[i].id = x
      BY <1>f DEF Searching, NoneForgotten, Fin
    <3>2. i # 1
      BY <1>f, <1>g, <3>1
    <3>3. QED
      BY <1>4, <3>1, <3>2
  <2>2. ASSUME NEW x \in DOMAIN next \ s.visited PROVE \E i \in 1 .. Len(rest) : rest[i].id = x
    <3>1. PICK i \in 1 .. Len(s.stack) : s.stack[i].id = x
      BY DEF Searching, NoneForgotten
    <3>2. i # 1
      BY <1>g, <3>1
    <3>3. QED
      BY <1>4, <3>1, <3>2
  <2>3. \A x \in Done : x \in s.visited /\ next[x] \subseteq s.visited
    BY <1>0, <1>6, <1>f, <1>g DEF Searching, NoneForgotten, Fin
  <2>4. QED
    BY <1>3, <2>1, <2>2, <2>3 DEF NoneForgotten, Done
<1>8. StillOpen(t, next)
  <2>1. ASSUME NEW b \in DOMAIN next \ Done, b \in Reach(g, next)
        PROVE  \E h \in s.visited \ Done : Same(g, h, next)
    <3> DEFINE S == Done \cap Reach(g, next)
    <3>0. \E x \in S : \E z \in next[x] : z \notin Done
      <4>1. g \in S
        BY <1>f, <1>g, ReachIsLeast
      <4>2. S \in SUBSET DOMAIN next
        BY <1>g, ReachIsLeast
      <4>3. b \notin S
        BY <2>1
      <4>4. ~Closed(S, next)
        <5> HIDE DEF S
        <5>1. QED
          BY <1>g, <2>1, <4>1, <4>2, <4>3, ReachIsLeast
      <4>5. PICK x \in S : \E z \in next[x] : z \notin S
        BY <4>4 DEF Closed
      <4>6. \A z \in next[x] : z \in Reach(g, next)
        BY <1>g, <4>5, ReachSteps
      <4>7. QED
        BY <4>5, <4>6
    <3>x. PICK x \in S : \E z \in next[x] : z \notin Done
      BY <3>0
    <3>1. PICK z \in next[x] : z \notin Done
      BY <3>x
    <3>2. z \in Reach(g, next)
      BY <1>g, <3>1, ReachSteps
    <3>3. z \in s.visited \ Done
      <4>1. CASE x = g
        BY <1>6, <3>1, <4>1
      <4>2. CASE x # g
        BY <1>f, <3>1, <4>2 DEF Searching, NoneForgotten, Fin
      <4>3. QED
        BY <4>1, <4>2
    <3>4. PICK i \in 1 .. Len(s.stack) : s.stack[i].expanded /\ s.stack[i].id = z
      BY <1>f, <3>3 DEF Searching, NoneForgotten, Fin
    <3>5. i # 1
      BY <1>f, <1>g, <3>3, <3>4
    <3>6. 1 < i
      BY <1>0, <3>5
    <3>7. g \in Reach(z, next)
      BY <1>g, <3>4, <3>6 DEF Searching, StackInOrder
    <3>8. QED
      BY <3>2, <3>3, <3>7 DEF Same
  <2>2. ASSUME NEW a \in Done, NEW b \in DOMAIN next \ Done, b \in Reach(a, next)
        PROVE  \E h \in s.visited \ Done : Same(a, h, next)
    <3>0. a \in DOMAIN next
      BY <1>0, <1>f, <1>g
    <3>1. CASE a = g
      BY <2>1, <2>2, <3>1
    <3>2. CASE a # g
      <4>1. a \in Fin /\ b \notin Fin
        BY <1>f, <2>2, <3>2
      <4>2. PICK h \in s.visited \ Fin : Same(a, h, next)
        BY <2>2, <4>1 DEF Searching, StillOpen, Fin
      <4>3. CASE h # g
        BY <1>f, <4>2, <4>3
      <4>4. CASE h = g
        <5>1. b \in Reach(g, next)
          <6>1. a \in Reach(g, next)
            BY <4>2, <4>4 DEF Same
          <6>2. QED
            BY <1>g, <2>2, <6>1, ReachIsTransitive
        <5>2. PICK k \in s.visited \ Done : Same(g, k, next)
          BY <2>1, <2>2, <5>1
        <5>3. Same(a, k, next)
          BY <3>0, <4>2, <4>4, <5>2, SameIsAnEquivalence
        <5>4. QED
          BY <5>2, <5>3
      <4>5. QED
        BY <4>3, <4>4
    <3>3. QED
      BY <3>1, <3>2
  <2>3. QED
    BY <1>3, <2>2 DEF StillOpen, Done
<1>9. FinishedLast(finished, next)
  <2> SUFFICES ASSUME NEW j \in 1 .. Len(finished), NEW a \in DOMAIN next,
                      finished[j] \in Reach(a, next), a \notin Reach(finished[j], next)
               PROVE  \E y \in DOMAIN next : Same(a, y, next) /\ \A i \in 1 .. j : finished[i] # y
    BY DEF FinishedLast
  <2>1. CASE j \in 1 .. Len(s.finished)
    <3>1. finished[j] = s.finished[j] /\ \A i \in 1 .. j : finished[i] = s.finished[i]
      BY <1>f, <2>1
    <3>2. QED
      BY <2>1, <3>1 DEF Searching, FinishedLast
  <2>2. CASE j \notin 1 .. Len(s.finished)
    <3>1. j = Len(finished) /\ finished[j] = g
      BY <1>f, <2>2
    <3>2. Same(a, a, next)
      BY ReachIsLeast DEF Same
    <3>3. \A i \in 1 .. j : finished[i] \in Done
      BY <3>1 DEF Done, Members
    <3>4. CASE a \notin Done
      BY <3>2, <3>3, <3>4
    <3>5. CASE a \in Done
      <4>1. a \in Fin /\ g \notin Fin
        BY <1>f, <1>g, <3>1, <3>5, ReachIsLeast
      <4>2. PICK h \in s.visited \ Fin : Same(a, h, next)
        BY <1>g, <3>1, <4>1 DEF Searching, StillOpen, Fin
      <4>3. h # g
        BY <3>1, <4>2 DEF Same
      <4>4. h \notin Done /\ h \in DOMAIN next
        BY <1>0, <1>f, <4>2, <4>3
      <4>5. QED
        BY <3>3, <4>2, <4>4
    <3>6. QED
      BY <3>4, <3>5
  <2>3. QED
    BY <2>1, <2>2
<1>10. Simple(finished)
  <2> SUFFICES ASSUME NEW i \in 1 .. Len(finished), NEW j \in 1 .. Len(finished), finished[i] = finished[j]
               PROVE  i = j
    BY DEF Simple
  <2>1. \A k \in 1 .. Len(finished) : k \in 1 .. Len(s.finished) \/ k = Len(finished)
    BY <1>f
  <2>2. \A k \in 1 .. Len(s.finished) : finished[k] # g
    BY <1>f, <1>g DEF Fin, Members
  <2>3. \A k, l \in 1 .. Len(s.finished) : s.finished[k] = s.finished[l] => k = l
    BY <1>0 DEF Simple
  <2>4. QED
    BY <1>f, <2>1, <2>2, <2>3
<1>11. QED
  BY <1>1, <1>2, <1>3, <1>5, <1>7, <1>8, <1>9, <1>10 DEF Searching

\* A package that is found: what it depends on comes first.
LEMMA PopsUnvisited ==
  ASSUME NEW next, Neighbours(next), NEW s, Searching(s, next), s.stack # << >>,
         ~Head(s.stack).expanded, Head(s.stack).id \notin s.visited
  PROVE  /\ Searching(Popped(s, next), next)
         /\ Popped(s, next).visited = s.visited \cup {Head(s.stack).id}
         /\ Head(s.stack).id \in DOMAIN next
         /\ Len(Popped(s, next).stack) <= Len(s.stack) + Cardinality(DOMAIN next) - 1
<1> DEFINE rest == Tail(s.stack)
           top == Head(s.stack)
           v == top.id
           visited == s.visited \cup {v}
           N == next[v] \ visited
           new == {Visit(n) : n \in N}
           r == SetToSeq(new)
           e == [top EXCEPT !.expanded = TRUE]
           stack == r \o <<e>> \o rest
           t == [s EXCEPT !.visited = visited, !.stack = stack]
           Fin == Members(s.finished)
           p == Len(r)
<1>0. /\ s \in VisitStates(next) /\ s.stack \in Seq(VisitEntries(next))
      /\ s.stack[1] = Head(s.stack) /\ Len(s.stack) \in Nat /\ Len(s.stack) >= 1
      /\ s.finished \in Seq(DOMAIN next) /\ Simple(s.finished) /\ s.visited \subseteq DOMAIN next
      /\ Fin \subseteq s.visited /\ 1 \in 1 .. Len(s.stack)
  BY DEF Searching, VisitStates, NoneForgotten
<1>1. Popped(s, next) = t
  BY Zenon DEF Popped
<1>2. /\ rest \in Seq(VisitEntries(next)) /\ Len(rest) = Len(s.stack) - 1 /\ Len(rest) \in Nat
      /\ \A i \in 1 .. Len(rest) : i + 1 \in 1 .. Len(s.stack) /\ rest[i] = s.stack[i + 1]
  BY <1>0
<1>g. /\ top \in VisitEntries(next) /\ v \in DOMAIN next /\ v \notin s.visited /\ ~top.expanded
      /\ s.stack[1] = top
      /\ e \in VisitEntries(next) /\ e.id = v /\ e.expanded
  <2>1. top \in VisitEntries(next) /\ v \notin s.visited /\ s.stack[1] = top
    BY <1>0
  <2> HIDE DEF top
  <2>2. v \in DOMAIN next /\ e \in VisitEntries(next) /\ e.id = v /\ e.expanded
    BY <2>1 DEF VisitEntries
  <2>3. QED
    BY <2>1, <2>2 DEF top
<1> HIDE DEF rest, top, e, v
<1>n. /\ N \in SUBSET DOMAIN next /\ IsFiniteSet(N)
      /\ Cardinality(N) \in Nat /\ Cardinality(DOMAIN next) \in Nat
      /\ Cardinality(N) <= Cardinality(DOMAIN next) - 1
  <2>1. N \in SUBSET (DOMAIN next \ {v})
    BY <1>g DEF Neighbours
  <2>2. IsFiniteSet(DOMAIN next \ {v}) /\ Cardinality(DOMAIN next \ {v}) = Cardinality(DOMAIN next) - 1
    BY <1>g, FS_RemoveElement DEF Neighbours
  <2>3. IsFiniteSet(N) /\ Cardinality(N) <= Cardinality(DOMAIN next \ {v})
    BY <2>1, <2>2, FS_Subset
  <2>4. QED
    BY <2>1, <2>2, <2>3, FS_CardinalityType DEF Neighbours
<1>N. \A m \in next[v] : m \in visited \/ m \in N
  OBVIOUS
<1>o. \A m \in N : m \in next[v]
  OBVIOUS
<1> HIDE DEF N
<1>r. /\ r \in Seq(VisitEntries(next)) /\ p \in Nat /\ p <= Cardinality(DOMAIN next) - 1
      /\ \A i \in 1 .. p : r[i].id \in N /\ ~r[i].expanded
      /\ \A m \in N : \E i \in 1 .. p : r[i].id = m
  <2>1. \A x \in new : x.id \in N /\ ~x.expanded /\ x \in VisitEntries(next)
    <3>1. \A m \in N : Visit(m).id \in N /\ ~Visit(m).expanded /\ Visit(m) \in VisitEntries(next)
      BY <1>n DEF Visit, VisitEntries
    <3>2. \A x \in new : \E m \in N : x = Visit(m)
      OBVIOUS
    <3> HIDE DEF new
    <3>3. QED
      BY <3>1, <3>2
  <2>2. \A m \in N : \E x \in new : x.id = m
    <3>1. \A m \in N : Visit(m) \in new /\ Visit(m).id = m
      BY DEF Visit
    <3>2. QED
      BY <3>1
  <2>3. IsFiniteSet(new) /\ Cardinality(new) <= Cardinality(N)
    <3> DEFINE f == [n \in N |-> Visit(n)]
    <3>1. f \in Surjection(N, new)
      BY DEF Surjection
    <3> HIDE DEF f, new
    <3>2. QED
      BY <1>n, <3>1, FS_Surjection
  <2> HIDE DEF new
  <2>4. /\ r \in Seq(new) /\ Len(r) = Cardinality(new) /\ Cardinality(new) \in Nat
        /\ \A x \in new : \E i \in 1 .. Len(r) : r[i] = x
    BY <2>3, SetAsSequence
  <2> HIDE DEF r
  <2>5. \A i \in 1 .. Len(r) : r[i] \in new
    BY <2>4
  <2>6. r \in Seq(VisitEntries(next))
    BY <2>1, <2>4, <2>5
  <2>7. p \in Nat /\ p <= Cardinality(DOMAIN next) - 1
    BY <1>n, <2>3, <2>4
  <2>8. QED
    BY <2>1, <2>2, <2>4, <2>5, <2>6, <2>7
<1> HIDE DEF r
<1>s. /\ stack \in Seq(VisitEntries(next)) /\ Len(stack) = Len(s.stack) + p
      /\ \A i \in 1 .. p : i \in 1 .. Len(stack) /\ stack[i] = r[i]
      /\ \A i \in 1 .. Len(stack) : i <= p \/ i - p \in 1 .. Len(s.stack)
      /\ \A i \in 1 .. Len(s.stack) : i + p \in 1 .. Len(stack)
      /\ p + 1 \in 1 .. Len(stack) /\ stack[p + 1] = e
      /\ \A i \in 1 .. Len(stack) : i > p + 1 => stack[i] = s.stack[i - p]
  <2> DEFINE h == r \o <<e>>
  <2>0. <<e>> \in Seq(VisitEntries(next)) /\ Len(<<e>>) = 1 /\ <<e>>[1] = e /\ 1 \in 1 .. Len(<<e>>)
    BY <1>g
  <2>1. Joined(h, r, <<e>>, VisitEntries(next))
    BY <1>r, <2>0, Concatenated
  <2>2. stack = h \o rest
    OBVIOUS
  <2> HIDE DEF h, stack, p
  <2>3. /\ h \in Seq(VisitEntries(next)) /\ Len(h) = p + 1
        /\ \A i \in 1 .. p : i \in 1 .. Len(h) /\ h[i] = r[i]
        /\ p + 1 \in 1 .. Len(h) /\ h[p + 1] = e
    <3>1. 1 + Len(r) \in 1 .. Len(h) /\ h[1 + Len(r)] = e /\ Len(h) = Len(r) + 1
      BY <2>0, <2>1 DEF Joined
    <3>2. 1 + Len(r) = p + 1
      BY <1>r DEF p
    <3>3. QED
      BY <2>1, <3>1, <3>2 DEF Joined, p
  <2>4. Joined(stack, h, rest, VisitEntries(next))
    BY <1>2, <2>2, <2>3, Concatenated
  <2>5. /\ stack \in Seq(VisitEntries(next)) /\ Len(stack) = (p + 1) + Len(rest)
        /\ \A i \in 1 .. p + 1 : i \in 1 .. Len(stack) /\ stack[i] = h[i]
        /\ \A i \in 1 .. Len(stack) : i > p + 1 => i - (p + 1) \in 1 .. Len(rest) /\ stack[i] = rest[i - (p + 1)]
    BY <2>3, <2>4 DEF Joined
  <2>6. Len(stack) = Len(s.stack) + p
    <3> DEFINE a == Len(s.stack)
               b == Len(rest)
    <3>1. b = a - 1 /\ a \in Nat /\ p \in Nat /\ Len(stack) = (p + 1) + b
      BY <1>0, <1>2, <1>r, <2>5
    <3> HIDE DEF a, b
    <3>2. Len(stack) = a + p
      BY <3>1
    <3>3. QED
      BY <3>2 DEF a
  <2>7. \A i \in 1 .. p : i \in 1 .. p + 1
    BY <1>r
  <2>8. p + 1 \in 1 .. p + 1
    BY <1>r
  <2>9. ASSUME NEW i \in 1 .. Len(stack), i > p + 1 PROVE stack[i] = s.stack[i - p]
    <3>1. i - (p + 1) \in 1 .. Len(rest) /\ stack[i] = rest[i - (p + 1)]
      BY <2>5, <2>9
    <3>2. (i - (p + 1)) + 1 = i - p
      BY <1>r
    <3>3. QED
      BY <1>2, <3>1, <3>2
  <2>10. \A i \in 1 .. Len(stack) : i <= p \/ i - p \in 1 .. Len(s.stack)
    BY <1>0, <1>r, <2>6
  <2>11. \A i \in 1 .. Len(s.stack) : i + p \in 1 .. Len(stack)
    BY <1>0, <1>r, <2>6
  <2>12. QED
    BY <2>3, <2>5, <2>6, <2>7, <2>8, <2>9, <2>10, <2>11
<1> HIDE DEF stack, p
<1>i. \A i \in 1 .. Len(stack) : i <= p \/ stack[i].id = s.stack[i - p].id
  <2> SUFFICES ASSUME NEW i \in 1 .. Len(stack), ~(i <= p) PROVE stack[i].id = s.stack[i - p].id
    OBVIOUS
  <2>1. CASE i = p + 1
    <3>1. i - p = 1
      BY <1>r, <2>1
    <3>2. QED
      BY <1>g, <1>s, <2>1, <3>1 DEF v
  <2>2. CASE i # p + 1
    <3>1. i > p + 1
      BY <1>0, <1>r, <1>s, <2>2
    <3>2. QED
      BY <1>s, <3>1
  <2>3. QED
    BY <2>1, <2>2
<1>x. \A i \in 1 .. Len(stack) :
        stack[i].expanded => \/ i = p + 1
                             \/ /\ i > p + 1 /\ i - p \in 1 .. Len(s.stack) /\ i - p # 1
                                /\ stack[i] = s.stack[i - p] /\ stack[i].id # v
  <2> SUFFICES ASSUME NEW i \in 1 .. Len(stack), stack[i].expanded, i # p + 1
               PROVE  /\ i > p + 1 /\ i - p \in 1 .. Len(s.stack) /\ i - p # 1
                      /\ stack[i] = s.stack[i - p] /\ stack[i].id # v
    OBVIOUS
  <2>1. ~(i <= p)
    BY <1>r, <1>s
  <2>2. i > p + 1 /\ i - p # 1
    BY <1>0, <1>r, <1>s, <2>1
  <2>3. i - p \in 1 .. Len(s.stack) /\ stack[i] = s.stack[i - p]
    BY <1>s, <2>1, <2>2
  <2>4. s.stack[i - p].id \in s.visited
    BY <2>3 DEF Searching, StackInOrder
  <2>5. QED
    BY <1>g, <2>2, <2>3, <2>4
<1>3. t \in VisitStates(next) /\ t.stack = stack /\ t.visited = visited /\ t.finished = s.finished
  <2>1. visited \subseteq DOMAIN next
    BY <1>0, <1>g
  <2> HIDE DEF visited
  <2>2. QED
    BY <1>0, <1>s, <2>1 DEF VisitStates
<1> HIDE DEF t
<1>v. v \notin Fin /\ Fin \subseteq visited /\ v \in visited /\ s.visited \subseteq visited
  BY <1>0, <1>g
<1>w. \A x \in visited : x = v \/ x \in s.visited
  OBVIOUS
<1> HIDE DEF visited, Fin
<1>5. StackInOrder(t, next)
  <2>1. ASSUME NEW i \in 1 .. Len(stack), stack[i].expanded
        PROVE  stack[i].id \in visited \ Fin
    <3>1. CASE i = p + 1
      BY <1>g, <1>s, <1>v, <3>1
    <3>2. CASE i # p + 1
      <4>1. i - p \in 1 .. Len(s.stack) /\ stack[i] = s.stack[i - p]
        BY <1>x, <2>1, <3>2
      <4>2. stack[i].id \in s.visited \ Fin
        BY <2>1, <4>1 DEF Searching, StackInOrder, Fin
      <4>3. QED
        BY <1>v, <4>2
    <3>3. QED
      BY <3>1, <3>2
  <2>2. ASSUME NEW i \in 1 .. Len(stack), NEW j \in 1 .. Len(stack),
               stack[i].expanded, stack[j].expanded, stack[i].id = stack[j].id
        PROVE  i = j
    <3>1. CASE i = p + 1 \/ j = p + 1
      BY <1>g, <1>s, <1>x, <2>2, <3>1
    <3>2. CASE ~(i = p + 1 \/ j = p + 1)
      <4>1. /\ i - p \in 1 .. Len(s.stack) /\ stack[i] = s.stack[i - p]
            /\ j - p \in 1 .. Len(s.stack) /\ stack[j] = s.stack[j - p]
        BY <1>x, <2>2, <3>2
      <4>2. i - p = j - p
        BY <2>2, <4>1 DEF Searching, StackInOrder
      <4>3. QED
        BY <1>0, <1>r, <1>s, <4>2
    <3>3. QED
      BY <3>1, <3>2
  <2>3. ASSUME NEW i \in 1 .. Len(stack), NEW j \in 1 .. Len(stack), i < j, stack[j].expanded
        PROVE  stack[i].id \in Reach(stack[j].id, next)
    <3>1. CASE j = p + 1
      <4>1. i \in 1 .. p
        BY <1>r, <1>s, <2>3, <3>1
      <4>2. stack[i].id \in next[v] /\ stack[j].id = v
        BY <1>g, <1>o, <1>r, <1>s, <3>1, <4>1
      <4>3. QED
        BY <1>g, <4>2, ReachIsLeast, ReachSteps
    <3>2. CASE j # p + 1
      <4>1. j - p \in 1 .. Len(s.stack) /\ stack[j] = s.stack[j - p] /\ j - p # 1 /\ j > p + 1
        BY <1>x, <2>3, <3>2
      <4>2. 1 < j - p
        BY <1>0, <1>r, <4>1
      <4>3. v \in Reach(stack[j].id, next) /\ stack[j].id \in DOMAIN next
        <5>1. s.stack[j - p] \in VisitEntries(next)
          BY <1>0, <4>1
        <5>2. QED
          BY <1>0, <1>g, <2>3, <4>1, <4>2, <5>1 DEF Searching, StackInOrder, v, VisitEntries
      <4>4. CASE i \in 1 .. p
        <5>1. stack[i].id \in next[v]
          BY <1>o, <1>r, <1>s, <4>4
        <5>2. QED
          BY <4>3, <5>1, ReachSteps
      <4>5. CASE i \notin 1 .. p
        <5>1. i - p \in 1 .. Len(s.stack) /\ stack[i].id = s.stack[i - p].id /\ i - p < j - p
          <6>1. ~(i <= p)
            BY <1>r, <4>5
          <6>2. i - p \in 1 .. Len(s.stack) /\ stack[i].id = s.stack[i - p].id
            BY <1>i, <1>s, <6>1
          <6>3. i - p < j - p
            BY <1>r, <2>3
          <6>4. QED
            BY <6>2, <6>3
        <5>2. QED
          BY <2>3, <4>1, <5>1 DEF Searching, StackInOrder
      <4>6. QED
        BY <4>4, <4>5
    <3>3. QED
      BY <3>1, <3>2
  <2>4. ASSUME NEW j \in 1 .. Len(stack), NEW m \in next[stack[j].id], stack[j].expanded
        PROVE  m \in visited \/ \E i \in 1 .. Len(stack) : i < j /\ stack[i].id = m
    <3>1. CASE j = p + 1
      <4>1. m \in next[v]
        BY <1>g, <1>s, <2>4, <3>1
      <4>2. CASE m \in N
        <5>1. PICK i \in 1 .. p : r[i].id = m
          BY <1>r, <4>2
        <5>2. i < j
          BY <1>r, <3>1
        <5>3. QED
          BY <1>s, <5>1, <5>2
      <4>3. QED
        BY <1>N, <4>1, <4>2
    <3>2. CASE j # p + 1
      <4>1. j - p \in 1 .. Len(s.stack) /\ stack[j] = s.stack[j - p] /\ j > p + 1
        BY <1>x, <2>4, <3>2
      <4>2. m \in s.visited \/ \E i \in 1 .. Len(s.stack) : i < j - p /\ s.stack[i].id = m
        BY <2>4, <4>1 DEF Searching, StackInOrder
      <4>3. ASSUME NEW i \in 1 .. Len(s.stack), i < j - p, s.stack[i].id = m
            PROVE  i + p \in 1 .. Len(stack) /\ i + p < j /\ stack[i + p].id = m
        <5>1. i + p \in 1 .. Len(stack) /\ i + p < j /\ (i + p) - p = i /\ ~(i + p <= p)
          BY <1>0, <1>r, <1>s, <4>3
        <5>2. QED
          BY <1>i, <4>3, <5>1
      <4>4. QED
        BY <1>v, <4>2, <4>3
    <3>3. QED
      BY <3>1, <3>2
  <2>5. QED
    BY <1>3, <2>1, <2>2, <2>3, <2>4 DEF StackInOrder, Fin
<1>6. NoneForgotten(t, next)
  <2>1. ASSUME NEW x \in visited \ Fin
        PROVE  \E i \in 1 .. Len(stack) : stack[i].expanded /\ stack[i].id = x
    <3>1. CASE x = v
      BY <1>g, <1>s, <3>1
    <3>2. CASE x # v
      <4>1. PICK i \in 1 .. Len(s.stack) : s.stack[i].expanded /\ s.stack[i].id = x
        BY <1>w, <3>2 DEF Searching, NoneForgotten, Fin
      <4>2. i # 1
        BY <1>g, <4>1
      <4>3. i + p \in 1 .. Len(stack) /\ (i + p) - p = i /\ i + p > p + 1
        BY <1>0, <1>r, <1>s, <4>2
      <4>4. stack[i + p] = s.stack[i]
        BY <1>s, <4>3
      <4>5. QED
        BY <4>1, <4>3, <4>4
    <3>3. QED
      BY <3>1, <3>2
  <2>2. ASSUME NEW x \in DOMAIN next \ visited PROVE \E i \in 1 .. Len(stack) : stack[i].id = x
    <3>1. PICK i \in 1 .. Len(s.stack) : s.stack[i].id = x
      BY <1>v DEF Searching, NoneForgotten
    <3>2. i + p \in 1 .. Len(stack) /\ (i + p) - p = i /\ ~(i + p <= p)
      BY <1>0, <1>r, <1>s
    <3>3. QED
      BY <1>i, <3>1, <3>2
  <2>3. \A x \in Fin : next[x] \subseteq visited
    BY <1>v DEF Searching, NoneForgotten, Fin
  <2>4. QED
    BY <1>3, <1>v, <2>1, <2>2, <2>3 DEF NoneForgotten, Fin
<1>7. StillOpen(t, next) /\ FinishedLast(t.finished, next) /\ Simple(t.finished)
  <2>1. StillOpen(t, next)
    BY <1>3, <1>v DEF StillOpen, Searching, Fin
  <2>2. QED
    BY <1>3, <2>1 DEF Searching
<1>8. Len(stack) <= Len(s.stack) + Cardinality(DOMAIN next) - 1
  BY <1>0, <1>n, <1>r, <1>s
<1>9. QED
  BY <1>1, <1>3, <1>5, <1>6, <1>7, <1>8, <1>g DEF Searching, v, visited, top

\* Each step leaves less to do.
LEMMA PoppingGoesOn ==
  ASSUME NEW next, Neighbours(next), NEW s, Searching(s, next)
  PROVE  /\ Searching(Popped(s, next), next)
         /\ s.stack = << >> => Popped(s, next) = s
         /\ s.stack # << >> => Rest(Popped(s, next), next) + 1 <= Rest(s, next)
         /\ Rest(s, next) \in Nat /\ Rest(s, next) >= Len(s.stack)
<1> DEFINE n == Cardinality(DOMAIN next)
           t == Popped(s, next)
           c == Cardinality(s.visited)
           l == Len(s.stack)
<1>0. /\ s.stack \in Seq(VisitEntries(next)) /\ l \in Nat
      /\ s.visited \in SUBSET DOMAIN next
  BY DEF Searching, VisitStates
<1>1. n \in Nat /\ c \in Nat /\ c <= n /\ IsFiniteSet(s.visited)
  BY <1>0, FS_Subset, FS_CardinalityType DEF Neighbours
<1>2. Rest(s, next) = l + n * (n - c)
  BY DEF Rest
<1>3. \A x \in s.visited : Cardinality(s.visited \cup {x}) = c
  BY <1>1, FS_AddElement
<1>4. Rest(s, next) \in Nat /\ Rest(s, next) >= l
  <2> HIDE DEF n, c, l
  <2>1. n - c \in Nat
    BY <1>1
  <2>2. n * (n - c) \in Nat
    BY <1>1, <2>1
  <2>3. QED
    BY <1>0, <1>2, <2>2
<1>5. CASE s.stack = << >>
  <2>1. t = s
    BY <1>5 DEF Popped
  <2>2. QED
    BY <1>4, <1>5, <2>1
<1>6. CASE s.stack # << >> /\ (Head(s.stack).expanded \/ Head(s.stack).id \in s.visited)
  <2>1. Searching(t, next) /\ t.visited = s.visited /\ Len(t.stack) = l - 1
    BY <1>6, PopsExpanded, PopsVisited
  <2>2. Rest(t, next) = (l - 1) + n * (n - c)
    BY <2>1 DEF Rest
  <2>3. Rest(t, next) + 1 <= Rest(s, next)
    <3> DEFINE x == n * (n - c)
    <3> HIDE DEF l, n, c
    <3>1. x \in Int
      BY <1>1
    <3> HIDE DEF x
    <3>2. QED
      BY <1>0, <1>2, <2>2, <3>1 DEF x
  <2>4. QED
    BY <1>4, <1>6, <2>1, <2>3
<1>7. CASE s.stack # << >> /\ ~Head(s.stack).expanded /\ Head(s.stack).id \notin s.visited
  <2> DEFINE v == Head(s.stack).id
  <2>1. Searching(t, next) /\ t.visited = s.visited \cup {v} /\ Len(t.stack) <= l + n - 1
    BY <1>7, PopsUnvisited
  <2>2. Cardinality(t.visited) = c + 1
    BY <1>1, <1>7, <2>1, FS_AddElement
  <2>3. Len(t.stack) \in Nat
    BY <2>1 DEF Searching, VisitStates
  <2>4. Rest(t, next) = Len(t.stack) + n * (n - (c + 1))
    BY <2>2 DEF Rest
  <2>5. Rest(t, next) + 1 <= Rest(s, next)
    <3> DEFINE x == n * (n - c)
               y == n * (n - (c + 1))
               h == Len(t.stack)
    <3> HIDE DEF l, n, c, h
    <3>1. x \in Int /\ y \in Int /\ y = x - n
      BY <1>1
    <3> HIDE DEF x, y
    <3>2. Rest(s, next) = l + x /\ Rest(t, next) = h + y
      BY <1>2, <2>4 DEF x, y, h
    <3>3. h \in Nat /\ h <= l + n - 1
      BY <2>1, <2>3 DEF h
    <3>4. QED
      BY <1>0, <1>1, <3>1, <3>2, <3>3
  <2>6. QED
    BY <1>4, <1>7, <2>1, <2>5
<1>8. QED
  BY <1>5, <1>6, <1>7

\* With every package on the stack.
LEMMA SearchBegins ==
  ASSUME NEW next, Neighbours(next), NEW s,
         s = [stack |-> SetToSeq({Visit(n) : n \in DOMAIN next}), visited |-> {}, finished |-> << >>]
  PROVE  /\ Searching(s, next)
         /\ Rest(s, next) = Cardinality(DOMAIN next) + Cardinality(DOMAIN next) * Cardinality(DOMAIN next)
<1> DEFINE n == Cardinality(DOMAIN next)
           new == {Visit(m) : m \in DOMAIN next}
           r == SetToSeq(new)
<1>1. /\ \A m \in DOMAIN next : Visit(m) \in VisitEntries(next) /\ Visit(m).id = m /\ ~Visit(m).expanded
      /\ n \in Nat
  BY FS_CardinalityType DEF Visit, VisitEntries, Neighbours
<1>2. IsFiniteSet(new) /\ Cardinality(new) = n
  <2> DEFINE f == [m \in DOMAIN next |-> Visit(m)]
  <2>1. f \in Surjection(DOMAIN next, new)
    BY DEF Surjection
  <2>2. f \in Injection(DOMAIN next, new)
    BY <1>1 DEF Injection, IsInjective
  <2> HIDE DEF f, new
  <2>3. QED
    BY <2>1, <2>2, FS_Surjection DEF Neighbours
<1>3. /\ \A x \in new : \E m \in DOMAIN next : x = Visit(m)
      /\ \A m \in DOMAIN next : Visit(m) \in new
  OBVIOUS
<1> HIDE DEF new
<1>4. \A x \in new : x \in VisitEntries(next) /\ ~x.expanded
  BY <1>1, <1>3
<1>5. /\ r \in Seq(new) /\ Len(r) = n /\ \A x \in new : \E i \in 1 .. Len(r) : r[i] = x
  BY <1>2, SetAsSequence
<1>6. s.stack = r /\ s.visited = {} /\ s.finished = << >> /\ s = [stack |-> r, visited |-> {}, finished |-> << >>]
  BY DEF new
<1> HIDE DEF r, n
<1>7. \A i \in 1 .. Len(r) : r[i] \in new /\ r[i] \in VisitEntries(next) /\ ~r[i].expanded
  BY <1>4, <1>5
<1>8. r \in Seq(VisitEntries(next))
  BY <1>5, <1>7
<1>9. s \in VisitStates(next) /\ Simple(s.finished) /\ Members(s.finished) = {}
  <2>1. << >> \in Seq(DOMAIN next) /\ 1 .. Len(<< >>) = {}
    OBVIOUS
  <2>2. QED
    BY <1>6, <1>8, <2>1 DEF VisitStates, Simple, Members
<1>10. StackInOrder(s, next)
  BY <1>6, <1>7 DEF StackInOrder
<1>11. NoneForgotten(s, next)
  <2>1. \A x \in DOMAIN next : \E i \in 1 .. Len(r) : r[i].id = x
    BY <1>1, <1>3, <1>5
  <2>2. QED
    BY <1>6, <1>9, <2>1 DEF NoneForgotten
<1>12. StillOpen(s, next) /\ FinishedLast(s.finished, next)
  <2>1. 1 .. Len(s.finished) = {}
    BY <1>6
  <2>2. QED
    BY <1>9, <2>1 DEF StillOpen, FinishedLast
<1>13. Rest(s, next) = n + n * n
  <2>1. Cardinality({}) = 0
    BY FS_EmptySet
  <2>2. Rest(s, next) = n + n * (n - 0)
    BY <1>5, <1>6, <2>1 DEF Rest, n
  <2>3. n - 0 = n
    BY <1>1
  <2>4. QED
    BY <2>2, <2>3
<1>14. QED
  BY <1>9, <1>10, <1>11, <1>12, <1>13 DEF Searching, n

\* Every package finishes, and after it one on a cycle with each that leads to it.
LEMMA FinishOrderIsComplete ==
  ASSUME NEW next, Neighbours(next), NEW finished, finished = FinishOrder(next)
  PROVE  /\ finished \in Seq(DOMAIN next) /\ Members(finished) = DOMAIN next
         /\ FinishedLast(finished, next)
<1> DEFINE n == Cardinality(DOMAIN next)
           Steps == n * (n + 2)
           base == [stack |-> SetToSeq({Visit(m) : m \in DOMAIN next}), visited |-> {}, finished |-> << >>]
           T == {s \in VisitStates(next) : Searching(s, next)}
           step == [x \in T \X (1 .. Steps) |-> Popped(x[1], next)]
           Is(f) == f = [k \in 0 .. Steps |-> IF k = 0 THEN base ELSE Popped(f[k - 1], next)]
           state == CHOOSE f : Is(f)
<1>0. n \in Nat
  BY FS_CardinalityType DEF Neighbours
<1>1. finished = state[Steps].finished
  BY Zenon DEF FinishOrder
<1>2. Searching(base, next) /\ Rest(base, next) = n + n * n
  BY SearchBegins
<1> HIDE DEF base, n
<1>3. Steps \in Nat /\ Steps = n * n + (n + n) /\ n * n \in Nat
  BY <1>0
<1> HIDE DEF Steps
<1>4. base \in T /\ \A s \in T : Popped(s, next) \in T
  <2>1. \A s : Searching(s, next) => s \in VisitStates(next)
    BY DEF Searching
  <2>2. QED
    BY <1>2, <2>1, PoppingGoesOn
<1>5. step \in [T \X (1 .. Steps) -> T] /\ \A s \in T, k \in 1 .. Steps : step[<<s, k>>] = Popped(s, next)
  <2> HIDE DEF T
  <2>1. QED
    BY <1>4
<1> HIDE DEF T, step
<1>6. PICK f : f \in [0 .. Steps -> T] /\ f[0] = base /\ \A k \in 1 .. Steps : f[k] = step[<<f[k - 1], k>>]
  <2>1. \E f : Recurses(f, base, step, Steps, T)
    BY <1>3, <1>4, <1>5, Recursion
  <2>2. QED
    BY <2>1 DEF Recurses
<1>7. \A k \in 1 .. Steps : k \in 0 .. Steps /\ k - 1 \in 0 .. Steps /\ k # 0
  BY <1>3
<1>8. \A k \in 0 .. Steps : f[k] = IF k = 0 THEN base ELSE Popped(f[k - 1], next)
  <2>1. \A k \in 0 .. Steps : k = 0 \/ k \in 1 .. Steps
    BY <1>3
  <2>2. QED
    BY <1>5, <1>6, <1>7, <2>1
<1>9. Is(f)
  BY <1>6, <1>8
<1>10. Is(state)
  BY <1>9
<1> HIDE DEF state
<1>11. \A k \in 0 .. Steps : state[k] = IF k = 0 THEN base ELSE Popped(state[k - 1], next)
  BY <1>10
<1> DEFINE Bound == n + n * n
           Good(k) == /\ Searching(state[k], next)
                      /\ state[k].stack = << >> \/ Rest(state[k], next) + k <= Bound
           S == {k \in Nat : k <= Steps => Good(k)}
<1>b. Bound \in Nat
  BY <1>0, <1>3
<1>12. 0 \in S
  <2>1. state[0] = base
    BY <1>3, <1>11
  <2>2. Rest(base, next) + 0 <= Bound
    BY <1>2, <1>b
  <2>3. QED
    BY <1>2, <2>1, <2>2
<1> HIDE DEF Bound
<1>13. ASSUME NEW m \in Nat, m \in S PROVE m + 1 \in S
  <2> SUFFICES ASSUME m + 1 <= Steps PROVE Good(m + 1)
    OBVIOUS
  <2>1. m + 1 \in 0 .. Steps /\ m + 1 # 0 /\ (m + 1) - 1 = m /\ m <= Steps
    BY <1>3
  <2>2. state[m + 1] = Popped(state[m], next)
    BY <1>11, <2>1
  <2>3. Good(m)
    BY <1>13, <2>1
  <2>4. Searching(state[m + 1], next)
    BY <2>2, <2>3, PoppingGoesOn
  <2>5. CASE state[m].stack = << >>
    BY <2>2, <2>3, <2>4, <2>5, PoppingGoesOn
  <2>6. CASE state[m].stack # << >>
    <3>1. Rest(state[m + 1], next) + 1 <= Rest(state[m], next) /\ Rest(state[m], next) + m <= Bound
      BY <2>2, <2>3, <2>6, PoppingGoesOn
    <3>2. Rest(state[m + 1], next) \in Nat /\ Rest(state[m], next) \in Nat
      BY <2>3, <2>4, PoppingGoesOn
    <3>3. Rest(state[m + 1], next) + (m + 1) <= Bound
      BY <1>b, <3>1, <3>2
    <3>4. QED
      BY <2>4, <3>3
  <2>7. QED
    BY <2>5, <2>6
<1>14. Nat \subseteq S
  <2> HIDE DEF S
  <2>1. QED
    BY <1>12, <1>13, Induction
<1>15. Good(Steps)
  BY <1>3, <1>14
<1> DEFINE s == state[Steps]
<1>16. s.stack = << >>
  <2> SUFFICES ASSUME s.stack # << >> PROVE FALSE
    OBVIOUS
  <2> DEFINE r == Rest(s, next)
             x == n * n
  <2>1. r + Steps <= Bound
    BY <1>15
  <2>2. r \in Nat /\ r >= Len(s.stack)
    BY <1>15, PoppingGoesOn
  <2>3. Len(s.stack) >= 1
    <3>1. s.stack \in Seq(VisitEntries(next))
      BY <1>15 DEF Searching, VisitStates
    <3>2. QED
      BY <3>1
  <2>4. x \in Nat /\ Steps = x + (n + n) /\ Bound = n + x
    BY <1>3 DEF Bound
  <2> HIDE DEF r, x
  <2>5. r >= 1
    BY <2>2, <2>3 DEF r
  <2>6. QED
    BY <1>0, <2>1, <2>2, <2>4, <2>5
<1>17. /\ s.finished \in Seq(DOMAIN next) /\ s.visited \subseteq DOMAIN next
       /\ NoneForgotten(s, next) /\ FinishedLast(s.finished, next)
  BY <1>15 DEF Searching, VisitStates
<1>18. Members(s.finished) = DOMAIN next
  <2>1. 1 .. Len(s.stack) = {}
    BY <1>16
  <2>2. QED
    BY <1>17, <2>1 DEF NoneForgotten
<1>19. QED
  BY <1>1, <1>17, <1>18

-----------------------------------------------------------------------------
(* Cycles: the components. *)

\* The component of a package.
SameAs(start, next) == {x \in DOMAIN next : Same(start, x, next)}

\* Backwards through what no component has, from what only its own component and
\* those before it lead to.
LEMMA ComponentIsSame ==
  ASSUME NEW next, Neighbours(next), NEW taken \in SUBSET DOMAIN next,
         \A a \in taken, b \in DOMAIN next : Same(a, b, next) => b \in taken,
         NEW start \in DOMAIN next \ taken,
         \A x \in DOMAIN next \ taken : start \in Reach(x, next) => x \in Reach(start, next),
         NEW back, back = [n \in DOMAIN next \ taken |-> Turned(next)[n] \cap (DOMAIN next \ taken)]
  PROVE  Walk(start, back) = SameAs(start, next)
<1> DEFINE free == DOMAIN next \ taken
<1>1. /\ Neighbours(back) /\ DOMAIN back = free /\ IsFiniteSet(free)
      /\ \A n \in free, m \in free : m \in back[n] <=> n \in next[m]
      /\ \A n \in free : back[n] \subseteq free
  <2>1. IsFiniteSet(free)
    BY FS_Subset DEF Neighbours
  <2>2. DOMAIN back = free /\ back \in [free -> SUBSET free]
    OBVIOUS
  <2>3. \A n \in free, m \in free : m \in back[n] <=> n \in next[m]
    BY DEF Turned
  <2>4. QED
    BY <2>1, <2>2, <2>3 DEF Neighbours
<1>2. Walk(start, back) = Reach(start, back)
  BY <1>1, WalkIsReach
<1>3. ASSUME NEW x \in Reach(start, back) PROVE x \in free /\ start \in Reach(x, next)
  <2> DEFINE S == {y \in free : start \in Reach(y, next)}
  <2>1. start \in S
    BY ReachIsLeast
  <2>2. ASSUME NEW y \in S, NEW z \in back[y] PROVE z \in S
    <3>1. z \in free /\ y \in next[z] /\ start \in Reach(y, next)
      BY <1>1, <2>2
    <3>2. y \in Reach(z, next)
      BY <3>1, ReachIsLeast, ReachSteps
    <3>3. QED
      BY <3>1, <3>2, ReachIsTransitive
  <2>3. S \in SUBSET DOMAIN back /\ Closed(S, back)
    BY <1>1, <2>2 DEF Closed
  <2>4. x \in S
    <3> HIDE DEF S
    <3>1. QED
      BY <1>1, <2>1, <2>3, ReachIsLeast
  <2>5. QED
    BY <2>4
<1>4. ASSUME NEW x \in DOMAIN next, Same(start, x, next) PROVE x \in Reach(start, back)
  <2> DEFINE S == {y \in DOMAIN next : y \in Reach(start, next) => y \in Reach(start, back)}
             turned == Turned(next)
  <2>1. Neighbours(turned) /\ DOMAIN turned = DOMAIN next
    BY TurnedTwice
  <2>2. start \in S
    BY <1>1, ReachIsLeast
  <2>3. ASSUME NEW y \in S, NEW z \in turned[y], z \in Reach(start, next) PROVE z \in Reach(start, back)
    <3>1. z \in DOMAIN next /\ y \in next[z]
      BY <2>3 DEF Turned
    <3>2. y \in Reach(start, next)
      BY <2>3, <3>1, ReachSteps
    <3>3. y \in Reach(start, back)
      BY <2>3, <3>2
    <3>4. y \in free /\ start \in Reach(y, next)
      BY <1>3, <3>3
    <3>5. y \in Reach(z, next)
      BY <3>1, ReachIsLeast, ReachSteps
    <3>6. start \in Reach(z, next)
      BY <3>1, <3>4, <3>5, ReachIsTransitive
    <3>7. z \notin taken
      <4>1. Same(z, start, next)
        BY <2>3, <3>6 DEF Same
      <4>2. QED
        BY <3>1, <4>1
    <3>8. z \in back[y]
      BY <1>1, <3>1, <3>4, <3>7
    <3>9. QED
      BY <1>1, <3>3, <3>8, ReachSteps
  <2>4. S \in SUBSET DOMAIN turned /\ Closed(S, turned)
    <3>1. \A y \in DOMAIN next : turned[y] \subseteq DOMAIN next
      BY <2>1 DEF Neighbours
    <3>2. QED
      BY <2>1, <2>3, <3>1 DEF Closed
  <2>5. start \in Reach(x, next)
    BY <1>4 DEF Same
  <2>6. x \in Reach(start, turned)
    BY <2>5, ReachTurns
  <2>7. x \in S
    <3> HIDE DEF S, turned
    <3>1. QED
      BY <2>1, <2>2, <2>4, <2>6, ReachIsLeast
  <2>8. QED
    BY <1>4, <2>7 DEF Same
<1>5. \A x \in Reach(start, back) : x \in DOMAIN next /\ Same(start, x, next)
  BY <1>3 DEF Same
<1>6. QED
  BY <1>2, <1>4, <1>5 DEF SameAs

\* A component is a cycle if it has two packages, or one that depends on itself.
LEMMA CyclicComponents ==
  ASSUME NEW next, Neighbours(next), NEW start \in DOMAIN next, NEW x \in SameAs(start, next)
  PROVE  OnCycle(x, next) <=> Cardinality(SameAs(start, next)) > 1 \/ start \in next[start]
<1> DEFINE C == SameAs(start, next)
<1>1. /\ start \in C /\ C \in SUBSET DOMAIN next /\ IsFiniteSet(C)
      /\ Cardinality(C) \in Nat
      /\ \A y \in C : y \in Reach(x, next) /\ x \in Reach(y, next)
  <2>1. C \in SUBSET DOMAIN next
    BY DEF SameAs
  <2>2. start \in C
    BY ReachIsLeast DEF SameAs, Same
  <2>3. \A y \in C : Same(x, y, next)
    BY SameIsAnEquivalence DEF SameAs
  <2>4. QED
    BY <2>1, <2>2, <2>3, FS_Subset, FS_CardinalityType DEF Same, Neighbours
<1>2. Cardinality(C) > 1 <=> C # {start}
  <2>1. Cardinality(C) # 0
    BY <1>1, FS_EmptySet
  <2>2. Cardinality(C) = 1 <=> \E y : C = {y}
    BY <1>1, FS_Singleton
  <2>3. Cardinality(C) = 1 <=> C = {start}
    BY <1>1, <2>2
  <2>4. QED
    BY <1>1, <2>1, <2>3
<1> HIDE DEF C
<1>3. x \in C
  BY DEF C
<1>4. ASSUME C # {start} PROVE OnCycle(x, next)
  <2>1. PICK y \in C : y # x
    BY <1>1, <1>3, <1>4
  <2>2. x \in DOMAIN next /\ y \in Reach(x, next) /\ x \in Reach(y, next)
    BY <1>1, <1>3
  <2>3. PICK m \in next[x] : y \in Reach(m, next)
    BY <2>1, <2>2, ReachByFirstStep
  <2>4. m \in DOMAIN next
    BY <2>2, <2>3 DEF Neighbours
  <2>5. x \in Reach(m, next)
    BY <2>2, <2>3, <2>4, ReachIsTransitive
  <2>6. QED
    BY <2>5 DEF OnCycle
<1>5. ASSUME C = {start}, start \in next[start] PROVE OnCycle(x, next)
  BY <1>3, <1>5, ReachIsLeast DEF OnCycle
<1>6. ASSUME C = {start}, OnCycle(x, next) PROVE start \in next[start]
  <2>1. x = start
    BY <1>3, <1>6
  <2>2. PICK m \in next[start] : start \in Reach(m, next)
    BY <1>6, <2>1 DEF OnCycle
  <2>3. m \in Reach(start, next)
    BY <2>2, ReachIsLeast, ReachSteps
  <2>4. m \in C
    BY <2>2, <2>3, ReachIsLeast DEF C, SameAs, Same
  <2>5. QED
    BY <1>6, <2>2, <2>4
<1>7. QED
  BY <1>2, <1>4, <1>5, <1>6 DEF C

\* What has a component once k packages were looked at, last finished first.
Assigning(s, k, finished, next) ==
  /\ s \in [assigned : SUBSET DOMAIN next, cycles : SUBSET DOMAIN next]
  /\ \A a \in s.assigned, b \in DOMAIN next : Same(a, b, next) => b \in s.assigned
  /\ \A i \in 1 .. Len(finished) : i > Len(finished) - k => finished[i] \in s.assigned
  /\ s.cycles = {x \in s.assigned : OnCycle(x, next)}

\* The last finished of what has no component is led to by nothing else that has
\* none, so that walking backwards from it finds its component.
LEMMA AssigningGoesOn ==
  ASSUME NEW next, Neighbours(next), NEW finished \in Seq(DOMAIN next),
         Members(finished) = DOMAIN next, FinishedLast(finished, next),
         NEW k \in 1 .. Len(finished), NEW s, Assigning(s, k - 1, finished, next)
  PROVE  Assigning(Assigned(s, finished[Len(finished) - k + 1], next, Turned(next)), k, finished, next)
<1> DEFINE l == Len(finished)
           j == l - k + 1
           start == finished[j]
           taken == s.assigned
           free == DOMAIN Turned(next) \ taken
           back == [n \in free |-> Turned(next)[n] \cap free]
           component == Walk(start, back)
           t == Assigned(s, start, next, Turned(next))
<1>0. /\ s = [assigned |-> s.assigned, cycles |-> s.cycles]
      /\ taken \in SUBSET DOMAIN next
      /\ \A a \in taken, b \in DOMAIN next : Same(a, b, next) => b \in taken
      /\ s.cycles = {x \in taken : OnCycle(x, next)}
      /\ l \in Nat /\ j \in 1 .. l /\ k \in Nat /\ start \in DOMAIN next
      /\ \A i \in 1 .. l : i > l - k <=> i >= j
      /\ \A i \in 1 .. l : i > l - (k - 1) <=> i > j
      /\ \A i \in 1 .. l : i >= j => i = j \/ i > j
  <2>1. l \in Nat /\ k \in Nat /\ k >= 1 /\ k <= l
    OBVIOUS
  <2> HIDE DEF l
  <2>2. j \in 1 .. l
    BY <2>1
  <2>3. start \in DOMAIN next
    BY <2>2 DEF l
  <2>4. /\ \A i \in 1 .. l : i > l - k <=> i >= j
        /\ \A i \in 1 .. l : i > l - (k - 1) <=> i > j
        /\ \A i \in 1 .. l : i >= j => i = j \/ i > j
    BY <2>1
  <2>5. QED
    BY <2>1, <2>2, <2>3, <2>4 DEF Assigning
<1> HIDE DEF l, j
<1>1. \A i \in 1 .. l : i > j => finished[i] \in taken
  BY <1>0 DEF Assigning, l
<1>2. CASE start \in taken
  <2>1. t = s
    BY <1>2 DEF Assigned
  <2>2. \A i \in 1 .. l : i > l - k => finished[i] \in taken
    BY <1>0, <1>1, <1>2
  <2>3. Assigning(s, k, finished, next)
    BY <2>2 DEF Assigning, l
  <2>4. QED
    BY <2>1, <2>3 DEF l, j
<1>3. CASE start \notin taken
  <2>1. DOMAIN Turned(next) = DOMAIN next
    BY DEF Turned
  <2>2. ASSUME NEW x \in DOMAIN next \ taken, start \in Reach(x, next) PROVE x \in Reach(start, next)
    <3> SUFFICES ASSUME x \notin Reach(start, next) PROVE FALSE
      OBVIOUS
    <3>1. PICK y \in DOMAIN next : Same(x, y, next) /\ \A i \in 1 .. j : finished[i] # y
      BY <1>0, <2>2 DEF FinishedLast, l
    <3>2. PICK i \in 1 .. l : finished[i] = y
      BY DEF Members, l
    <3>3. i > j
      BY <1>0, <3>1, <3>2
    <3>4. y \in taken
      BY <1>1, <3>2, <3>3
    <3>5. Same(y, x, next)
      BY <3>1, SameIsAnEquivalence
    <3>6. QED
      BY <1>0, <3>4, <3>5
  <2>3. component = SameAs(start, next)
    <3> HIDE DEF start, taken
    <3>1. back = [n \in DOMAIN next \ taken |-> Turned(next)[n] \cap (DOMAIN next \ taken)]
      BY <2>1
    <3> HIDE DEF back
    <3>2. QED
      BY <1>0, <1>3, <2>2, <3>1, ComponentIsSame
  <2> DEFINE cyclic == Cardinality(component) > 1 \/ start \in next[start]
  <2>4. t = [assigned |-> taken \cup component,
             cycles |-> IF cyclic THEN s.cycles \cup component ELSE s.cycles]
    BY <1>3, Zenon DEF Assigned
  <2>5. \A x \in component : OnCycle(x, next) <=> cyclic
    BY <1>0, <2>3, CyclicComponents
  <2> HIDE DEF cyclic, component, start, taken, t
  <2>6. component \subseteq DOMAIN next /\ start \in component
    BY <1>0, <2>3, ReachIsLeast DEF SameAs, Same
  <2>7. t.assigned = taken \cup component /\ t \in [assigned : SUBSET DOMAIN next, cycles : SUBSET DOMAIN next]
    BY <1>0, <2>4, <2>6
  <2>8. t.cycles = {x \in taken \cup component : OnCycle(x, next)}
    <3>1. t.cycles = IF cyclic THEN s.cycles \cup component ELSE s.cycles
      BY <2>4
    <3>2. QED
      BY <1>0, <2>5, <3>1
  <2>9. ASSUME NEW a \in taken \cup component, NEW b \in DOMAIN next, Same(a, b, next)
        PROVE  b \in taken \cup component
    <3>1. CASE a \in taken
      BY <1>0, <2>9, <3>1
    <3>2. CASE a \in component
      <4>1. a \in DOMAIN next /\ Same(start, a, next)
        BY <2>3, <3>2 DEF SameAs
      <4>2. Same(start, b, next)
        BY <1>0, <2>9, <4>1, SameIsAnEquivalence
      <4>3. QED
        BY <2>3, <4>2 DEF SameAs
    <3>3. QED
      BY <2>9, <3>1, <3>2
  <2>10. \A i \in 1 .. l : i > l - k => finished[i] \in taken \cup component
    BY <1>0, <1>1, <2>6 DEF start
  <2>11. Assigning(t, k, finished, next)
    BY <2>7, <2>8, <2>9, <2>10 DEF Assigning, l
  <2>12. QED
    BY <2>11 DEF t, start, l, j
<1>4. QED
  BY <1>2, <1>3

\* The packages that cycleNodes finds are those on a cycle.
THEOREM CyclesAreCycles ==
  ASSUME NEW next, Neighbours(next)
  PROVE  CycleNodes(next, Turned(next)) = {x \in DOMAIN next : OnCycle(x, next)}
<1> DEFINE finished == FinishOrder(next)
           back == Turned(next)
           l == Len(finished)
           base == [assigned |-> {}, cycles |-> {}]
           At(k) == finished[l - k + 1]
           Is(f) == f = [k \in 0 .. l |-> IF k = 0 THEN base ELSE Assigned(f[k - 1], At(k), next, back)]
           after == CHOOSE f : Is(f)
<1>1. CycleNodes(next, back) = after[l].cycles
  BY Zenon DEF CycleNodes
<1>2. /\ finished \in Seq(DOMAIN next) /\ Members(finished) = DOMAIN next
      /\ FinishedLast(finished, next)
  BY FinishOrderIsComplete
<1> HIDE DEF finished, base
<1>3. l \in Nat /\ \A k \in 1 .. l : k \in 0 .. l /\ k - 1 \in 0 .. l /\ k # 0
  BY <1>2
<1>4. Assigning(base, 0, finished, next)
  <2>1. \A i \in 1 .. Len(finished) : ~(i > Len(finished) - 0)
    BY <1>3
  <2>2. QED
    BY <2>1 DEF Assigning, base
<1>5. \A k \in 1 .. l : \A s : Assigning(s, k - 1, finished, next)
                            => Assigning(Assigned(s, At(k), next, back), k, finished, next)
  BY <1>2, AssigningGoesOn
<1> HIDE DEF back, At, l
<1>6. \A k \in 0 .. l : after[k] = IF k = 0 THEN base ELSE Assigned(after[k - 1], At(k), next, back)
  <2> DEFINE States == {s \in [assigned : SUBSET DOMAIN next, cycles : SUBSET DOMAIN next] :
                          \E k \in 0 .. l : Assigning(s, k, finished, next)}
             step == [x \in States \X (1 .. l) |->
                        IF Assigned(x[1], At(x[2]), next, back) \in States
                        THEN Assigned(x[1], At(x[2]), next, back) ELSE base]
  <2>1. base \in States
    <3>1. 0 \in 0 .. l
      BY <1>3
    <3>2. base \in [assigned : SUBSET DOMAIN next, cycles : SUBSET DOMAIN next]
      BY <1>4 DEF Assigning
    <3> HIDE DEF base
    <3>3. QED
      BY <1>4, <3>1, <3>2
  <2>2. \A k \in 0 .. l : \A s : Assigning(s, k, finished, next) => s \in States
    BY DEF Assigning
  <2> HIDE DEF States
  <2>3. step \in [States \X (1 .. l) -> States]
    BY <2>1
  <2>4. \A s \in States, k \in 1 .. l :
          Assigned(s, At(k), next, back) \in States => step[<<s, k>>] = Assigned(s, At(k), next, back)
    OBVIOUS
  <2> HIDE DEF step
  <2>5. PICK f : f \in [0 .. l -> States] /\ f[0] = base /\ \A k \in 1 .. l : f[k] = step[<<f[k - 1], k>>]
    <3>1. \E f : Recurses(f, base, step, l, States)
      BY <1>3, <2>1, <2>3, Recursion
    <3>2. QED
      BY <3>1 DEF Recurses
  <2> DEFINE S == {k \in Nat : k <= l => Assigning(f[k], k, finished, next)}
  <2>6. 0 \in S
    BY <1>4, <2>5
  <2>7. ASSUME NEW m \in Nat, m \in S PROVE m + 1 \in S
    <3> SUFFICES ASSUME m + 1 <= l PROVE Assigning(f[m + 1], m + 1, finished, next)
      OBVIOUS
    <3>1. m + 1 \in 1 .. l /\ (m + 1) - 1 = m /\ m <= l /\ m \in 0 .. l /\ m + 1 \in 0 .. l
      BY <1>3
    <3>2. Assigning(f[m], (m + 1) - 1, finished, next)
      BY <2>7, <3>1
    <3>3. Assigning(Assigned(f[m], At(m + 1), next, back), m + 1, finished, next)
      BY <1>5, <3>1, <3>2
    <3>4. f[m + 1] = Assigned(f[m], At(m + 1), next, back)
      BY <2>2, <2>4, <2>5, <3>1, <3>3
    <3>5. QED
      BY <3>3, <3>4
  <2>8. Nat \subseteq S
    <3> HIDE DEF S
    <3>1. QED
      BY <2>6, <2>7, Induction
  <2>9. \A k \in 1 .. l : f[k] = Assigned(f[k - 1], At(k), next, back)
    <3> SUFFICES ASSUME NEW k \in 1 .. l PROVE f[k] = Assigned(f[k - 1], At(k), next, back)
      OBVIOUS
    <3>1. k - 1 \in Nat /\ k - 1 <= l /\ k - 1 \in 0 .. l /\ k \in 0 .. l
      BY <1>3
    <3>2. Assigning(f[k - 1], k - 1, finished, next)
      BY <2>8, <3>1
    <3>3. QED
      BY <1>5, <2>2, <2>4, <2>5, <3>1, <3>2
  <2>10. \A k \in 0 .. l : f[k] = IF k = 0 THEN base ELSE Assigned(f[k - 1], At(k), next, back)
    <3>1. \A k \in 0 .. l : k = 0 \/ k \in 1 .. l
      BY <1>3
    <3>2. QED
      BY <1>3, <2>5, <2>9, <3>1
  <2>11. Is(f)
    BY <2>5, <2>10
  <2>12. Is(after)
    BY <2>11
  <2> HIDE DEF after
  <2>13. QED
    BY <2>12
<1> HIDE DEF after
<1> DEFINE S == {k \in Nat : k <= l => Assigning(after[k], k, finished, next)}
<1>7. 0 \in S
  BY <1>3, <1>4, <1>6
<1>8. ASSUME NEW m \in Nat, m \in S PROVE m + 1 \in S
  <2> SUFFICES ASSUME m + 1 <= l PROVE Assigning(after[m + 1], m + 1, finished, next)
    OBVIOUS
  <2>1. m + 1 \in 1 .. l /\ m + 1 \in 0 .. l /\ m + 1 # 0 /\ (m + 1) - 1 = m /\ m <= l
    BY <1>3
  <2>2. after[m + 1] = Assigned(after[m], At(m + 1), next, back)
    BY <1>6, <2>1
  <2>3. Assigning(after[m], (m + 1) - 1, finished, next)
    BY <1>8, <2>1
  <2>4. QED
    BY <1>5, <2>1, <2>2, <2>3
<1>9. Nat \subseteq S
  <2> HIDE DEF S
  <2>1. QED
    BY <1>7, <1>8, Induction
<1>10. Assigning(after[l], l, finished, next)
  BY <1>3, <1>9
<1>11. after[l].assigned = DOMAIN next
  <2>1. \A i \in 1 .. l : i > l - l
    BY <1>3
  <2>2. \A i \in 1 .. l : finished[i] \in after[l].assigned
    BY <1>10, <2>1 DEF Assigning, l
  <2>3. QED
    BY <1>2, <1>10, <2>2 DEF Assigning, Members, l
<1>12. QED
  BY <1>1, <1>10, <1>11 DEF Assigning, back

-----------------------------------------------------------------------------
(* The packages with the most edges. *)

\* The numbers that centrality compares.
LEMMA DegreeIsANumber ==
  ASSUME NEW edges, IsFiniteSet(edges), NEW n
  PROVE  Degree(n, edges) \in Nat
<1>1. /\ IsFiniteSet({e \in edges : e.from = n}) /\ IsFiniteSet({e \in edges : e.to = n})
  BY FS_Subset
<1>2. QED
  BY <1>1, FS_CardinalityType DEF Degree

\* The number of packages that centrality highlights.
LEMMA CentralCountIsANumber ==
  ASSUME NEW nodes, IsFiniteSet(nodes)
  PROVE  CentralCount(nodes) \in Nat
<1> DEFINE n == Cardinality(nodes)
           a == n + CentralShare - 1
           share == a \div CentralShare
<1>1. n \in Nat
  BY FS_CardinalityType
<1> HIDE DEF n
<1>2. a \in Nat /\ CentralShare \in Nat /\ CentralShare > 0 /\ MostCentral \in Nat
  BY <1>1, QueriesAssumption
<1> HIDE DEF a
<1>3. share \in Nat
  BY <1>2
<1>4. CentralCount(nodes) = IF share > MostCentral THEN MostCentral ELSE IF share = 0 THEN 1 ELSE share
  BY Zenon DEF CentralCount, a, n
<1> HIDE DEF share
<1>5. QED
  BY <1>2, <1>3, <1>4

\* k of those with edges, or all: none left out has more.
Chosen(c, k, nodes, edges) ==
  LET ranked == {n \in nodes : Degree(n, edges) > 0}
  IN  /\ c \in SUBSET ranked
      /\ \A n \in c, m \in ranked \ c : Degree(m, edges) <= Degree(n, edges)
      /\ Cardinality(c) = k \/ (Cardinality(c) <= k /\ c = ranked)

\* The one with the most edges of those left is chosen.
LEMMA ChoosingGoesOn ==
  ASSUME NEW nodes, IsFiniteSet(nodes), NEW edges, IsFiniteSet(edges), NEW k \in Nat,
         NEW c, Chosen(c, k, nodes, edges), NEW ranked, ranked = {n \in nodes : Degree(n, edges) > 0}
  PROVE  Chosen(Ranked(c, ranked, edges), k + 1, nodes, edges)
<1> DEFINE rest == ranked \ c
           Most(n) == \A m \in rest : Degree(m, edges) <= Degree(n, edges)
           n == CHOOSE x \in rest : Most(x)
<1>1. /\ c \in SUBSET ranked /\ IsFiniteSet(c) /\ Cardinality(c) \in Nat /\ IsFiniteSet(rest)
      /\ \A x \in c, m \in rest : Degree(m, edges) <= Degree(x, edges)
      /\ Cardinality(c) = k \/ (Cardinality(c) <= k /\ c = ranked)
  <2>1. c \in SUBSET nodes /\ rest \in SUBSET nodes
    BY DEF Chosen
  <2>2. QED
    BY <2>1, FS_Subset, FS_CardinalityType DEF Chosen
<1>2. CASE rest = {}
  <2>1. c = ranked /\ Ranked(c, ranked, edges) = c
    BY <1>1, <1>2 DEF Ranked
  <2>2. Cardinality(c) <= k + 1
    BY <1>1
  <2>3. QED
    BY <1>1, <2>1, <2>2 DEF Chosen
<1>3. CASE rest # {}
  <2>1. n \in rest /\ Most(n)
    <3> DEFINE f == [x \in rest |-> Degree(x, edges)]
    <3>1. f \in [rest -> Nat]
      BY DegreeIsANumber
    <3>2. \A x \in rest : f[x] = Degree(x, edges)
      OBVIOUS
    <3> HIDE DEF f, rest
    <3>3. \E x \in rest : \A y \in rest : f[y] <= f[x]
      BY <1>1, <1>3, <3>1, Maximum
    <3>4. \E x \in rest : Most(x)
      BY <3>2, <3>3
    <3> HIDE DEF Most
    <3>5. QED
      BY <3>4
  <2>2. Ranked(c, ranked, edges) = c \cup {n}
    BY <1>3, Zenon DEF Ranked
  <2> HIDE DEF n
  <2>3. Cardinality(c) = k /\ n \notin c /\ n \in ranked
    BY <1>1, <1>3, <2>1
  <2>4. Cardinality(c \cup {n}) = k + 1
    BY <1>1, <2>3, FS_AddElement
  <2>5. \A x \in c \cup {n}, m \in ranked \ (c \cup {n}) : Degree(m, edges) <= Degree(x, edges)
    BY <1>1, <2>1
  <2>6. c \cup {n} \in SUBSET ranked
    BY <1>1, <2>3
  <2>7. QED
    BY <2>2, <2>4, <2>5, <2>6 DEF Chosen
<1>4. QED
  BY <1>2, <1>3

\* The central packages are as many as they may be, or all with an edge, and none
\* left out has more edges.
THEOREM CentralIsChosen ==
  ASSUME NEW nodes, IsFiniteSet(nodes), NEW edges, IsFiniteSet(edges)
  PROVE  Chosen(Central(nodes, edges), CentralCount(nodes), nodes, edges)
<1> DEFINE ranked == {n \in nodes : Degree(n, edges) > 0}
           l == CentralCount(nodes)
           Is(f) == f = [k \in 0 .. l |-> IF k = 0 THEN {} ELSE Ranked(f[k - 1], ranked, edges)]
           greatest == CHOOSE f : Is(f)
           T == SUBSET ranked
           step == [x \in T \X (1 .. l) |-> Ranked(x[1], ranked, edges)]
<1>1. l \in Nat
  BY CentralCountIsANumber
<1>2. Central(nodes, edges) = greatest[l]
  BY Zenon DEF Central
<1> HIDE DEF l
<1>3. \A k \in 1 .. l : k \in 0 .. l /\ k - 1 \in 0 .. l /\ k # 0
  BY <1>1
<1>4. \A c \in T : Ranked(c, ranked, edges) \in T
  <2> SUFFICES ASSUME NEW c \in T PROVE Ranked(c, ranked, edges) \in T
    OBVIOUS
  <2> DEFINE rest == ranked \ c
             Most(n) == \A m \in rest : Degree(m, edges) <= Degree(n, edges)
             n == CHOOSE x \in rest : Most(x)
  <2>1. CASE rest = {}
    BY <2>1 DEF Ranked
  <2>2. CASE rest # {}
    <3>1. Ranked(c, ranked, edges) = c \cup {n}
      BY <2>2, Zenon DEF Ranked
    <3>2. \E x \in rest : Most(x)
      <4> DEFINE f == [x \in rest |-> Degree(x, edges)]
      <4>1. f \in [rest -> Nat]
        BY DegreeIsANumber
      <4>2. \A x \in rest : f[x] = Degree(x, edges)
        OBVIOUS
      <4>3. IsFiniteSet(rest)
        BY FS_Subset
      <4> HIDE DEF f, rest
      <4>4. \E x \in rest : \A y \in rest : f[y] <= f[x]
        BY <2>2, <4>1, <4>3, Maximum
      <4>5. QED
        BY <4>2, <4>4
    <3>3. n \in rest
      <4> HIDE DEF Most, rest
      <4>1. QED
        BY <3>2
    <3> HIDE DEF n
    <3>4. QED
      BY <3>1, <3>3
  <2>3. QED
    BY <2>1, <2>2
<1>5. step \in [T \X (1 .. l) -> T] /\ \A c \in T, k \in 1 .. l : step[<<c, k>>] = Ranked(c, ranked, edges)
  <2> HIDE DEF T, ranked
  <2>1. QED
    BY <1>4
<1>6. {} \in T
  OBVIOUS
<1> HIDE DEF T, step
<1>7. PICK f : f \in [0 .. l -> T] /\ f[0] = {} /\ \A k \in 1 .. l : f[k] = step[<<f[k - 1], k>>]
  <2>1. \E f : Recurses(f, {}, step, l, T)
    BY <1>1, <1>5, <1>6, Recursion
  <2>2. QED
    BY <2>1 DEF Recurses
<1>8. \A k \in 0 .. l : f[k] = IF k = 0 THEN {} ELSE Ranked(f[k - 1], ranked, edges)
  <2> HIDE DEF ranked
  <2>1. \A k \in 0 .. l : k = 0 \/ k \in 1 .. l
    BY <1>1
  <2>2. QED
    BY <1>3, <1>5, <1>7, <2>1
<1>9. Is(f)
  BY <1>7, <1>8
<1>10. Is(greatest)
  BY <1>9
<1> HIDE DEF greatest
<1>11. \A k \in 0 .. l : greatest[k] = IF k = 0 THEN {} ELSE Ranked(greatest[k - 1], ranked, edges)
  BY <1>10
<1> DEFINE S == {k \in Nat : k <= l => Chosen(greatest[k], k, nodes, edges)}
<1>12. 0 \in S
  <2>1. greatest[0] = {}
    <3> HIDE DEF ranked
    <3>1. 0 \in 0 .. l
      BY <1>1
    <3>2. QED
      BY <1>11, <3>1
  <2>2. Cardinality({}) = 0
    BY FS_EmptySet
  <2>3. QED
    BY <2>1, <2>2 DEF Chosen
<1>13. ASSUME NEW m \in Nat, m \in S PROVE m + 1 \in S
  <2> SUFFICES ASSUME m + 1 <= l PROVE Chosen(greatest[m + 1], m + 1, nodes, edges)
    OBVIOUS
  <2>1. m + 1 \in 0 .. l /\ m + 1 # 0 /\ (m + 1) - 1 = m /\ m <= l
    BY <1>1
  <2>2. greatest[m + 1] = Ranked(greatest[m], ranked, edges)
    BY <1>11, <2>1
  <2>3. Chosen(greatest[m], m, nodes, edges)
    BY <1>13, <2>1
  <2>4. QED
    BY <2>2, <2>3, ChoosingGoesOn
<1>14. Nat \subseteq S
  <2> HIDE DEF S
  <2>1. QED
    BY <1>12, <1>13, Induction
<1>15. QED
  BY <1>1, <1>2, <1>14 DEF l
=================================================================================
