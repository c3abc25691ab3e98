------------------------- MODULE DocumentFetchProofs -------------------------
(***************************************************************************)
(* Theorems about DocumentFetch, for any number of reads and documents,    *)
(* any cache size and every bound.                                         *)
(***************************************************************************)
EXTENDS DocumentFetch, SequenceTheorems, TLAPS

-----------------------------------------------------------------------------
(* The cache. *)

CacheOK ==
  /\ cache \in Seq(Entry) /\ Len(cache) <= Capacity
  /\ \A i, j \in 1 .. Len(cache) : cache[i].url = cache[j].url => i = j

\* What s holds, with no document of u and no document twice.
KeptFrom(s, u) ==
  /\ s \in Seq(Entry)
  /\ \A i, j \in 1 .. Len(s) : s[i].url = s[j].url => i = j
  /\ \A i \in 1 .. Len(s) :
       s[i].url # u /\ \E k \in 1 .. Len(cache) : s[i] = cache[k]

LEMMA WithoutFacts ==
  ASSUME NEW S, NEW s \in Seq(S), NEW i \in 1 .. Len(s)
  PROVE  /\ Without(s, i) \in Seq(S)
         /\ Len(Without(s, i)) = Len(s) - 1
         /\ \A k \in 1 .. Len(s) - 1 :
              Without(s, i)[k] = IF k < i THEN s[k] ELSE s[k + 1]
<1> DEFINE front == SubSeq(s, 1, i - 1)
           back  == SubSeq(s, i + 1, Len(s))
<1>1. Len(s) \in Nat /\ \A k \in 1 .. Len(s) : s[k] \in S
  OBVIOUS
<1>2. /\ front \in Seq(S) /\ Len(front) = i - 1
      /\ \A k \in 1 .. i - 1 : front[k] = s[k]
  BY <1>1, SubSeqProperties
<1>3. /\ back \in Seq(S) /\ Len(back) = Len(s) - i
      /\ \A k \in 1 .. Len(s) - i : back[k] = s[i + k]
  <2>1. /\ back \in Seq(S)
        /\ Len(back) = IF i + 1 <= Len(s) THEN Len(s) - (i + 1) + 1 ELSE 0
        /\ \A k \in 1 .. Len(s) - (i + 1) + 1 : back[k] = s[i + 1 + k - 1]
    BY <1>1, SubSeqProperties
  <2>2. QED
    BY <1>1, <2>1
<1> HIDE DEF front, back
<1>4. /\ front \o back \in Seq(S)
      /\ Len(front \o back) = Len(front) + Len(back)
      /\ \A k \in 1 .. Len(front) + Len(back) :
           (front \o back)[k] =
             IF k <= Len(front) THEN front[k] ELSE back[k - Len(front)]
  BY <1>2, <1>3, ConcatProperties
<1>5. Without(s, i) = front \o back
  BY DEF Without, front, back
<1>6. \A k \in 1 .. Len(s) - 1 :
        Without(s, i)[k] = IF k < i THEN s[k] ELSE s[k + 1]
  <2>1. SUFFICES ASSUME NEW k \in 1 .. Len(s) - 1
                 PROVE  Without(s, i)[k] = IF k < i THEN s[k] ELSE s[k + 1]
    OBVIOUS
  <2>2. CASE k < i
    BY <1>1, <1>2, <1>3, <1>4, <1>5, <2>2
  <2>3. CASE ~(k < i)
    <3>1. k - (i - 1) \in 1 .. Len(s) - i
      BY <1>1, <2>3
    <3>2. back[k - (i - 1)] = s[k + 1]
      BY <1>3, <3>1
    <3>3. QED
      BY <1>1, <1>2, <1>3, <1>4, <1>5, <2>3, <3>2
  <2>4. QED
    BY <2>2, <2>3
<1>7. Without(s, i) \in Seq(S)
  BY <1>4, <1>5
<1>8. Len(Without(s, i)) = Len(s) - 1
  <2>1. Len(Without(s, i)) = (i - 1) + (Len(s) - i)
    BY <1>2, <1>3, <1>4, <1>5
  <2>2. QED
    BY <1>1, <2>1
<1>9. QED
  BY <1>6, <1>7, <1>8

\* cache.delete leaves the other documents as they were.
LEMMA DeletedFacts ==
  ASSUME CacheOK, NEW u \in Urls
  PROVE  KeptFrom(Deleted(u), u) /\ Len(Deleted(u)) <= Capacity
<1>1. CASE Positions(u) = {}
  BY <1>1 DEF Positions, Deleted, KeptFrom, CacheOK
<1>2. CASE Positions(u) # {}
  <2> DEFINE p == CHOOSE i \in Positions(u) : TRUE
             s == Without(cache, p)
  <2>1. p \in 1 .. Len(cache) /\ cache[p].url = u
    BY <1>2 DEF Positions
  <2>2. s = Deleted(u)
    BY <1>2 DEF Deleted
  <2> HIDE DEF p
  <2>3. /\ s \in Seq(Entry)
        /\ Len(s) = Len(cache) - 1
        /\ \A k \in 1 .. Len(cache) - 1 :
             s[k] = IF k < p THEN cache[k] ELSE cache[k + 1]
    BY <2>1, WithoutFacts DEF CacheOK
  <2> HIDE DEF s
  <2>4. Len(cache) \in Nat /\ Capacity \in Nat
    BY ConstantsAssumption DEF CacheOK
  <2>5. \A k \in 1 .. Len(s) : s[k].url # u /\ \E n \in 1 .. Len(cache) : s[k] = cache[n]
    <3>1. SUFFICES ASSUME NEW k \in 1 .. Len(s)
                   PROVE  s[k].url # u /\ \E n \in 1 .. Len(cache) : s[k] = cache[n]
      OBVIOUS
    <3>2. CASE k < p
      BY <2>1, <2>3, <2>4, <3>2 DEF CacheOK
    <3>3. CASE ~(k < p)
      <4>1. k + 1 \in 1 .. Len(cache) /\ k + 1 # p /\ s[k] = cache[k + 1]
        BY <2>1, <2>3, <2>4, <3>3
      <4>2. QED
        BY <2>1, <4>1 DEF CacheOK
    <3>4. QED
      BY <3>2, <3>3
  <2>6. \A i, j \in 1 .. Len(s) : s[i].url = s[j].url => i = j
    <3>1. SUFFICES ASSUME NEW i \in 1 .. Len(s), NEW j \in 1 .. Len(s),
                          s[i].url = s[j].url
                   PROVE  i = j
      OBVIOUS
    <3>2. PICK a \in 1 .. Len(cache) :
            s[i] = cache[a] /\ a = IF i < p THEN i ELSE i + 1
      BY <2>1, <2>3, <2>4
    <3>3. PICK b \in 1 .. Len(cache) :
            s[j] = cache[b] /\ b = IF j < p THEN j ELSE j + 1
      BY <2>1, <2>3, <2>4
    <3>4. a = b
      BY <3>1, <3>2, <3>3 DEF CacheOK
    <3>5. QED
      BY <2>1, <2>3, <2>4, <3>2, <3>3, <3>4
  <2>7. QED
    BY <2>2, <2>3, <2>4, <2>5, <2>6 DEF KeptFrom, CacheOK
<1>3. QED
  BY <1>1, <1>2

\* rememberDocument keeps the bound, and adds the one document it was given.
LEMMA RememberedFacts ==
  ASSUME CacheOK, NEW u \in Urls, NEW v \in Version, NEW s, s = Remembered(u, v)
  PROVE  /\ s \in Seq(Entry) /\ Len(s) <= Capacity
         /\ \A i, j \in 1 .. Len(s) : s[i].url = s[j].url => i = j
         /\ \A i \in 1 .. Len(s) :
              \/ s[i] = [url |-> u, version |-> v]
              \/ \E k \in 1 .. Len(cache) : s[i] = cache[k]
<1> DEFINE d == Deleted(u)
           e == [url |-> u, version |-> v]
           added == Append(d, e)
<1>1. KeptFrom(d, u) /\ Len(d) <= Capacity
  BY DeletedFacts
<1>2. e \in Entry /\ e.url = u
  BY DEF Entry
<1>3. s = IF Len(added) > Capacity THEN Tail(added) ELSE added
  BY DEF Remembered
<1> HIDE DEF d, e
<1>4. /\ added \in Seq(Entry) /\ added # << >> /\ Len(added) = Len(d) + 1
      /\ \A i \in 1 .. Len(d) : added[i] = d[i]
      /\ added[Len(d) + 1] = e
  BY <1>1, <1>2, AppendProperties DEF KeptFrom
<1> HIDE DEF added
<1>5. /\ Tail(added) \in Seq(Entry)
      /\ Len(Tail(added)) = Len(d)
      /\ \A i \in 1 .. Len(d) : Tail(added)[i] = added[i + 1]
  BY <1>4, HeadTailProperties
<1>6. Len(d) \in Nat /\ Capacity \in Nat
  BY <1>1, ConstantsAssumption DEF KeptFrom
<1>7. \A i \in 1 .. Len(added) :
        \/ i \in 1 .. Len(d) /\ added[i] = d[i]
        \/ i = Len(d) + 1 /\ added[i] = e
  BY <1>4, <1>6
<1>8. \A i, j \in 1 .. Len(added) : added[i].url = added[j].url => i = j
  BY <1>1, <1>2, <1>7 DEF KeptFrom
<1>9. \A i \in 1 .. Len(added) :
        added[i] = e \/ \E k \in 1 .. Len(cache) : added[i] = cache[k]
  BY <1>1, <1>7 DEF KeptFrom
<1>10. CASE Len(added) > Capacity
  <2>1. s = Tail(added)
    BY <1>3, <1>10
  <2>2. \A i \in 1 .. Len(s) : i + 1 \in 1 .. Len(added) /\ s[i] = added[i + 1]
    BY <1>4, <1>5, <1>6, <2>1
  <2>3. \A i, j \in 1 .. Len(s) : s[i].url = s[j].url => i + 1 = j + 1
    BY <1>8, <2>2
  <2>4. \A i, j \in 1 .. Len(s) : i + 1 = j + 1 => i = j
    BY <1>5, <1>6, <2>1
  <2>5. \A i \in 1 .. Len(s) :
          s[i] = e \/ \E k \in 1 .. Len(cache) : s[i] = cache[k]
    BY <1>9, <2>2
  <2>6. QED
    BY <1>1, <1>5, <2>1, <2>3, <2>4, <2>5 DEF e
<1>11. CASE ~(Len(added) > Capacity)
  BY <1>3, <1>4, <1>6, <1>8, <1>9, <1>11 DEF e
<1>12. QED
  BY <1>10, <1>11

LEMMA CachedFacts ==
  ASSUME CacheOK, NEW u \in Urls
  PROVE  Cached(u) \in Version \cup {Absent}
<1>1. CASE Positions(u) = {}
  BY <1>1 DEF Cached
<1>2. CASE Positions(u) # {}
  <2> DEFINE p == CHOOSE i \in Positions(u) : TRUE
  <2>1. p \in 1 .. Len(cache)
    BY <1>2 DEF Positions
  <2> HIDE DEF p
  <2>2. cache[p] \in Entry
    BY <2>1 DEF CacheOK
  <2>3. QED
    BY <1>2, <2>2 DEF Cached, Entry, p
<1>3. QED
  BY <1>1, <1>2

-----------------------------------------------------------------------------
(* Types. *)

\* What a read has, by the place it is in: a URL once it was called, no answer
\* before it was sent, and an answer that names a representation with leave to
\* store it or without.
ReadOK(r) ==
  /\ pc[r] # "idle" => request[r].url \in Urls
  /\ pc[r] \in {"idle", "queued"} => answer[r] = NoAnswer /\ r \notin serving
  /\ answer[r].status = 304 => answer[r].version = request[r].cached
  /\ answer[r].status \in {200, 304} => answer[r].version \in Version
  /\ answer[r].status \in {200, 304} /\ ~answer[r].noStore =>
       [url |-> request[r].url, version |-> answer[r].version] \in storable
  /\ pc[r] = "body" => answer[r].status = 200
  /\ result[r].from \in {"cache", "body"} =>
       pc[r] = "settled" /\ result[r].version = answer[r].version
  /\ result[r].from = "cache" => ~answer[r].noStore

ReadsInOrder == \A r \in Reads : ReadOK(r)

Typed == TypeOK /\ ReadsInOrder

Others(r) ==
  \A q \in Reads \ {r} :
    /\ pc'[q] = pc[q] /\ request'[q] = request[q]
    /\ answer'[q] = answer[q] /\ result'[q] = result[q]
    /\ q \in serving' <=> q \in serving

\* A read's own slots decide whether a step keeps the reads in order.
LEMMA OnlyOneReadMoves ==
  ASSUME ReadsInOrder, NEW r \in Reads, Others(r), storable \subseteq storable',
         ReadOK(r)'
  PROVE  ReadsInOrder'
BY DEF ReadsInOrder, ReadOK, Others

\* Issuing a request.
LEMMA IssueTyped ==
  ASSUME Typed, NEW r \in Reads, NEW u \in Urls, NEW n \in BOOLEAN,
         NEW t \in BOOLEAN, NEW g \in 0 .. MaxGeneration, Issue(r, u, n, t, g),
         result[r].from \notin {"cache", "body"},
         UNCHANGED <<registry, generation, chain, result, storable>>
  PROVE  (TypeOK /\ ReadsInOrder)' /\ Others(r)
<1>1. CacheOK
  BY DEF Typed, TypeOK, CacheOK
<1>2. cache' \in Seq(Entry) /\ Len(cache') <= Capacity
      /\ \A i, j \in 1 .. Len(cache') : cache'[i].url = cache'[j].url => i = j
  BY <1>1, DeletedFacts DEF Issue, KeptFrom, CacheOK
<1>3. [url |-> u, noStore |-> n, retried |-> t, generation |-> g,
       cached |-> IF n THEN Absent ELSE Cached(u)] \in Request
  BY <1>1, CachedFacts DEF Request
<1>4. request' \in [Reads -> Request] /\ request'[r].url = u
  BY <1>3 DEF Issue, Typed, TypeOK
<1>5. answer' \in [Reads -> Answer] /\ answer'[r] = NoAnswer
  BY DEF Issue, Typed, TypeOK, Answer, NoAnswer
<1>6. pc' \in [Reads -> Places]
      /\ pc'[r] = "wire"
  BY DEF Issue, Go, Typed, TypeOK, Places
<1>7. TypeOK'
  BY <1>2, <1>4, <1>5, <1>6 DEF Issue, Typed, TypeOK, registry
<1>8. Others(r)
  BY DEF Others, Issue, Go, Typed, TypeOK
<1>9. ReadsInOrder'
  <2>1. answer'[r].status = 0 /\ result'[r].from \notin {"cache", "body"}
    BY <1>5 DEF NoAnswer
  <2>2. storable \subseteq storable' /\ ReadsInOrder
    BY DEF Typed
  <2>3. ReadOK(r)'
    BY <1>4, <1>5, <1>6, <2>1 DEF ReadOK
  <2>4. QED
    BY <1>8, <2>2, <2>3, OnlyOneReadMoves
<1>10. QED
  BY <1>7, <1>8, <1>9

\* Settling leaves every slot but the outcome alone.
LEMMA SettleTyped ==
  ASSUME Typed, NEW r \in Reads, NEW o \in Result, Settle(r, o), pc[r] # "idle",
         o.from \in {"cache", "body"} => o.version = answer[r].version,
         o.from = "cache" => ~answer[r].noStore,
         r \notin serving \/ pc[r] # "queued",
         UNCHANGED <<registry, serving, generation, chain, request, answer, storable>>,
         CacheOK'
  PROVE  (TypeOK /\ ReadsInOrder)'
<1>1. result' \in [Reads -> Result] /\ result'[r] = o
  BY DEF Settle, Typed, TypeOK
<1>2. pc' \in [Reads -> Places]
      /\ pc'[r] = "settled"
  BY DEF Settle, Go, Typed, TypeOK, Places
<1>3. TypeOK'
  BY <1>1, <1>2 DEF Typed, TypeOK, CacheOK, registry
<1>4. Others(r)
  BY DEF Others, Settle, Go, Typed, TypeOK
<1>5. ReadOK(r)
  BY DEF Typed, ReadsInOrder
<1>6. ReadOK(r)'
  BY <1>1, <1>2, <1>5 DEF ReadOK
<1>7. ReadsInOrder'
  BY <1>4, <1>6, OnlyOneReadMoves DEF Typed
<1>8. QED
  BY <1>3, <1>7

LEMMA StepTyped ==
  ASSUME Typed, [Next]_vars
  PROVE  Typed'
<1>1. CacheOK /\ TypeOK /\ ReadsInOrder /\ \A r \in Reads : ReadOK(r)
  BY DEF Typed, TypeOK, CacheOK, ReadsInOrder
<1>2. Failure \in Result /\ Failure.from = "failure"
  BY DEF Failure, Result
<1>3. ASSUME NEW r \in Reads, NEW u \in Urls, ReadPublic(r, u)
      PROVE  Typed'
  <2>1. generation \in 0 .. MaxGeneration /\ result[r].from \notin {"cache", "body"}
    BY <1>1, <1>3 DEF ReadPublic, TypeOK, ReadOK
  <2>2. Issue(r, u, FALSE, FALSE, generation)
        /\ UNCHANGED <<registry, generation, chain, result, storable>>
    BY <1>3 DEF ReadPublic
  <2>3. QED
    BY <2>1, <2>2, IssueTyped DEF Typed
<1>4. ASSUME NEW r \in Reads, NEW u \in Urls, ReadPrivate(r, u)
      PROVE  Typed'
  <2>1. request' \in [Reads -> Request] /\ request'[r].url = u
    BY <1>1, <1>4 DEF ReadPrivate, TypeOK, Request
  <2>2. chain' \in Seq(Reads)
    BY <1>1, <1>4, AppendProperties DEF ReadPrivate, TypeOK
  <2>3. pc' \in [Reads -> Places]
        /\ pc'[r] = "queued"
    BY <1>1, <1>4 DEF ReadPrivate, Go, TypeOK, Places
  <2>4. TypeOK'
    BY <1>1, <1>4, <2>1, <2>2, <2>3 DEF ReadPrivate, TypeOK, registry
  <2>5. Others(r)
    BY <1>1, <1>4 DEF Others, ReadPrivate, Go, TypeOK
  <2>6. /\ answer' = answer /\ answer[r] = NoAnswer /\ r \notin serving'
        /\ result' = result /\ result[r].from \notin {"cache", "body"}
        /\ storable' = storable
    <3>1. pc[r] = "idle"
          /\ UNCHANGED <<serving, answer, result, storable>>
      BY <1>4 DEF ReadPrivate
    <3>2. QED
      BY <1>1, <3>1 DEF ReadOK
  <2>7. NoAnswer.status = 0
    BY DEF NoAnswer
  <2>8. ReadOK(r)'
    BY <2>1, <2>3, <2>6, <2>7 DEF ReadOK
  <2>9. QED
    BY <1>1, <2>4, <2>5, <2>6, <2>8, OnlyOneReadMoves DEF Typed
<1>5. ASSUME NEW r \in Reads, Run(r)
      PROVE  Typed'
  <2>1. pc[r] = "queued" /\ UNCHANGED <<registry, generation, chain, storable>>
    BY <1>5 DEF Run
  <2>2. CASE Settle(r, Failure) /\ UNCHANGED <<serving, cache, request, answer>>
    <3>1. CacheOK' /\ r \notin serving
      BY <1>1, <2>1, <2>2 DEF CacheOK, ReadOK
    <3>2. QED
      BY <1>2, <2>1, <2>2, <3>1, SettleTyped DEF Typed
  <2>3. CASE Issue(r, request[r].url, TRUE, FALSE, generation) /\ UNCHANGED result
    <3>1. /\ generation \in 0 .. MaxGeneration /\ request[r].url \in Urls
          /\ result[r].from \notin {"cache", "body"}
      BY <1>1, <2>1 DEF TypeOK, ReadOK
    <3>2. QED
      BY <2>1, <2>3, <3>1, IssueTyped DEF Typed
  <2>4. QED
    BY <1>5, <2>2, <2>3 DEF Run
<1>6. ASSUME NEW r \in Reads, Serve(r)
      PROVE  Typed'
  <2> DEFINE u == request[r].url
  <2>1. PICK strict \in BOOLEAN, failed \in BOOLEAN :
          LET unstorable == u \in private \/ strict
              status == IF failed THEN 502
                        ELSE IF request[r].cached = version[u] THEN 304
                        ELSE 200
          IN  /\ answer' = IF pc[r] # "wire" THEN answer
                           ELSE [answer EXCEPT ![r] =
                                   [status |-> status, noStore |-> unstorable,
                                    version |-> version[u]]]
              /\ storable' = IF failed \/ unstorable THEN storable
                             ELSE storable \cup
                                    {[url |-> u, version |-> version[u]]}
    BY <1>6 DEF Serve
  <2>2. pc[r] \notin {"idle", "queued"} /\ u \in Urls /\ version[u] \in Version
    <3>1. r \in serving
      BY <1>6 DEF Serve
    <3>2. QED
      BY <1>1, <3>1 DEF TypeOK, ReadOK
  <2>3. answer' \in [Reads -> Answer]
    BY <1>1, <2>1, <2>2 DEF TypeOK, Answer
  <2>4. storable' \subseteq Entry /\ storable \subseteq storable'
    BY <1>1, <2>1, <2>2 DEF TypeOK, Entry
  <2>5. /\ TypeOK'
        /\ UNCHANGED <<pc, request, result>>
    BY <1>1, <1>6, <2>3, <2>4 DEF Serve, TypeOK, registry
  <2>6. Others(r)
    BY <1>1, <1>6, <2>1 DEF Others, Serve, TypeOK
  <2>7. ReadOK(r)'
    <3>1. CASE pc[r] # "wire"
      <4>1. answer' = answer
        BY <2>1, <3>1
      <4>2. ReadOK(r)
        BY <1>1
      <4>3. QED
        BY <2>2, <2>4, <2>5, <4>1, <4>2 DEF ReadOK
    <3>2. CASE pc[r] = "wire"
      <4>1. result[r].from \notin {"cache", "body"}
        BY <1>1, <3>2 DEF ReadOK
      <4>2. answer'[r].version = version[u]
            /\ (answer'[r].status = 304 => request[r].cached = version[u])
        BY <1>1, <2>1, <3>2 DEF TypeOK
      <4>3. answer'[r].status \in {200, 304} /\ ~answer'[r].noStore =>
              [url |-> u, version |-> version[u]] \in storable'
        <5>1. CASE failed
          BY <1>1, <2>1, <3>2, <5>1 DEF TypeOK
        <5>2. CASE u \in private \/ strict
          <6>1. answer' = [answer EXCEPT ![r] =
                             [status |-> IF failed THEN 502
                                         ELSE IF request[r].cached = version[u]
                                              THEN 304 ELSE 200,
                              noStore |-> TRUE, version |-> version[u]]]
            BY <2>1, <3>2, <5>2
          <6>2. answer'[r].noStore
            BY <1>1, <6>1 DEF TypeOK
          <6>3. QED
            BY <6>2
        <5>3. CASE ~failed /\ ~(u \in private \/ strict)
          BY <2>1, <5>3
        <5>4. QED
          BY <5>1, <5>2, <5>3
      <4>4. QED
        BY <2>2, <2>5, <3>2, <4>1, <4>2, <4>3 DEF ReadOK
    <3>3. QED
      BY <3>1, <3>2
  <2>8. QED
    BY <1>1, <2>4, <2>5, <2>6, <2>7, OnlyOneReadMoves DEF Typed
<1>7. ASSUME NEW r \in Reads, Receive(r)
      PROVE  Typed'
  <2>1. CASE FetchRejected(r)
    <3>1. /\ Settle(r, Failure) /\ pc[r] = "wire"
          /\ UNCHANGED <<registry, serving, generation, cache, chain, request,
                         answer, storable>>
      BY <2>1 DEF FetchRejected
    <3>2. CacheOK'
      BY <1>1, <3>1 DEF CacheOK
    <3>3. QED
      BY <1>2, <3>1, <3>2, SettleTyped DEF Typed
  <2>2. CASE RetryWithoutCache(r)
    <3>1. /\ pc[r] = "wire"
          /\ Issue(r, request[r].url, TRUE, TRUE, request[r].generation)
          /\ UNCHANGED <<registry, generation, chain, result, storable>>
      BY <2>2 DEF RetryWithoutCache, Headers
    <3>2. request[r].generation \in 0 .. MaxGeneration
      BY <1>1 DEF TypeOK, Request
    <3>3. request[r].url \in Urls /\ result[r].from \notin {"cache", "body"}
      BY <1>1, <3>1 DEF ReadOK
    <3>4. QED
      BY <3>1, <3>2, <3>3, IssueTyped DEF Typed
  <2>3. CASE Revalidated(r)
    <3> DEFINE o == [from |-> "cache", version |-> request[r].cached]
    <3>1. /\ pc[r] = "wire" /\ answer[r].status = 304 /\ ~answer[r].noStore
          /\ cache' = Remembered(request[r].url, request[r].cached)
          /\ Settle(r, o)
          /\ UNCHANGED <<registry, serving, generation, chain, request, answer, storable>>
      BY <2>3 DEF Revalidated, Headers
    <3>2. /\ request[r].url \in Urls /\ request[r].cached = answer[r].version
          /\ request[r].cached \in Version
      BY <1>1, <3>1 DEF ReadOK
    <3>3. o \in Result
      BY <3>2 DEF Result
    <3>4. CacheOK'
      <4>1. /\ cache' \in Seq(Entry) /\ Len(cache') <= Capacity
            /\ \A i, j \in 1 .. Len(cache') : cache'[i].url = cache'[j].url => i = j
        <5>1. cache' = Remembered(request[r].url, request[r].cached)
          BY <3>1
        <5>2. request[r].url \in Urls /\ request[r].cached \in Version
          BY <3>2
        <5>3. CacheOK
          BY <1>1
        <5>4. QED
          BY <5>1, <5>2, <5>3, RememberedFacts
      <4>2. QED
        BY <4>1 DEF CacheOK
    <3>5. QED
      BY <3>1, <3>2, <3>3, <3>4, SettleTyped DEF Typed
  <2>4. CASE HeadersRefused(r)
    <3>1. /\ Settle(r, Failure) /\ pc[r] = "wire"
          /\ UNCHANGED <<registry, serving, generation, cache, chain, request,
                         answer, storable>>
      BY <2>4 DEF HeadersRefused, Headers
    <3>2. CacheOK'
      BY <1>1, <3>1 DEF CacheOK
    <3>3. QED
      BY <1>2, <3>1, <3>2, SettleTyped DEF Typed
  <2>5. CASE HeadersAccepted(r)
    <3>1. pc' \in [Reads -> Places]
          /\ pc'[r] = "body" /\ answer[r].status = 200 /\ pc[r] = "wire"
      BY <1>1, <2>5 DEF HeadersAccepted, Headers, Go, TypeOK, Places
    <3>2. UNCHANGED <<registry, serving, generation, cache, chain, request,
                      answer, result, storable>>
      BY <2>5 DEF HeadersAccepted, Headers
    <3>3. TypeOK'
      BY <1>1, <3>1, <3>2 DEF TypeOK, registry
    <3>4. Others(r)
      BY <1>1, <2>5 DEF Others, HeadersAccepted, Headers, Go, TypeOK
    <3>5. ReadOK(r)'
      BY <1>1, <3>1, <3>2 DEF ReadOK
    <3>6. QED
      BY <1>1, <3>2, <3>3, <3>4, <3>5, OnlyOneReadMoves DEF Typed
  <2>6. CASE BodyAccepted(r)
    <3> DEFINE o == [from |-> "body", version |-> answer[r].version]
    <3>1. /\ pc[r] = "body" /\ Settle(r, o)
          /\ cache' = IF request[r].noStore \/ answer[r].noStore
                      THEN Deleted(request[r].url)
                      ELSE Remembered(request[r].url, answer[r].version)
          /\ UNCHANGED <<registry, serving, generation, chain, request, answer, storable>>
      BY <2>6 DEF BodyAccepted, Body
    <3>2. request[r].url \in Urls /\ answer[r].version \in Version
      BY <1>1, <3>1 DEF ReadOK
    <3>3. o \in Result
      BY <3>2 DEF Result
    <3>4. CacheOK'
      <4>1. /\ cache' \in Seq(Entry) /\ Len(cache') <= Capacity
            /\ \A i, j \in 1 .. Len(cache') : cache'[i].url = cache'[j].url => i = j
        <5>1. CASE request[r].noStore \/ answer[r].noStore
          BY <1>1, <3>1, <3>2, <5>1, DeletedFacts DEF KeptFrom
        <5>2. CASE ~(request[r].noStore \/ answer[r].noStore)
          <6>1. cache' = Remembered(request[r].url, answer[r].version)
            BY <3>1, <5>2
          <6>2. QED
            BY <1>1, <3>2, <6>1, RememberedFacts
        <5>3. QED
          BY <5>1, <5>2
      <4>2. QED
        BY <4>1 DEF CacheOK
    <3>5. QED
      BY <3>1, <3>2, <3>3, <3>4, SettleTyped DEF Typed
  <2>7. CASE BodyRefused(r)
    <3>1. /\ Settle(r, Failure) /\ pc[r] = "body"
          /\ UNCHANGED <<registry, serving, generation, cache, chain, request,
                         answer, storable>>
      BY <2>7 DEF BodyRefused, Body
    <3>2. CacheOK'
      BY <1>1, <3>1 DEF CacheOK
    <3>3. QED
      BY <1>2, <3>1, <3>2, SettleTyped DEF Typed
  <2>8. CASE ErrorStatus(r)
    <3>1. pc' \in [Reads -> Places] /\ pc'[r] = "problem" /\ pc[r] = "wire"
      BY <1>1, <2>8 DEF ErrorStatus, Headers, Go, TypeOK, Places
    <3>2. UNCHANGED <<registry, serving, generation, cache, chain, request,
                      answer, result, storable>>
      BY <2>8 DEF ErrorStatus, Headers
    <3>3. TypeOK'
      BY <1>1, <3>1, <3>2 DEF TypeOK, registry
    <3>4. Others(r)
      BY <1>1, <2>8 DEF Others, ErrorStatus, Headers, Go, TypeOK
    <3>5. ReadOK(r)'
      BY <1>1, <3>1, <3>2 DEF ReadOK
    <3>6. QED
      BY <1>1, <3>2, <3>3, <3>4, <3>5, OnlyOneReadMoves DEF Typed
  <2>9. CASE ProblemRead(r)
    <3>1. /\ Settle(r, Failure) /\ pc[r] = "problem"
          /\ UNCHANGED <<registry, serving, generation, cache, chain, request,
                         answer, storable>>
      BY <2>9 DEF ProblemRead
    <3>2. CacheOK'
      BY <1>1, <3>1 DEF CacheOK
    <3>3. QED
      BY <1>2, <3>1, <3>2, SettleTyped DEF Typed
  <2>10. QED
    BY <1>7, <2>1, <2>2, <2>3, <2>4, <2>5, <2>6, <2>7, <2>8, <2>9 DEF Receive
<1>8. ASSUME NEW u \in Urls, Forget(u)
      PROVE  Typed'
  <2>1. CacheOK'
    BY <1>1, <1>8, DeletedFacts DEF Forget, CacheOK, KeptFrom
  <2>2. UNCHANGED <<registry, serving, generation, chain, pc, request, answer,
                    result, storable>>
    BY <1>8 DEF Forget
  <2>3. QED
    BY <1>1, <2>1, <2>2 DEF Typed, TypeOK, ReadsInOrder, ReadOK, CacheOK, registry
<1>9. ASSUME NEW u \in Urls, Republish(u)
      PROVE  Typed'
  <2>1. version' \in [Urls -> Version]
    BY <1>1, <1>9, ConstantsAssumption DEF Republish, TypeOK, Version
  <2>2. QED
    BY <1>1, <1>9, <2>1 DEF Republish, Typed, TypeOK, ReadsInOrder, ReadOK
<1>10. ASSUME NEW u \in Urls, ChangeVisibility(u)
       PROVE  Typed'
  BY <1>1, <1>10 DEF ChangeVisibility, Typed, TypeOK, ReadsInOrder, ReadOK
<1>11. ASSUME Disconnect
       PROVE  Typed'
  <2>1. generation' \in 0 .. MaxGeneration
    BY <1>1, <1>11, ConstantsAssumption DEF Disconnect, TypeOK
  <2>2. cache' = << >> /\ Len(cache') = 0 /\ cache' \in Seq(Entry)
    BY <1>11 DEF Disconnect
  <2>3. Len(cache') <= Capacity
        /\ \A i, j \in 1 .. Len(cache') : cache'[i].url = cache'[j].url => i = j
    BY <2>2, ConstantsAssumption
  <2>4. UNCHANGED <<registry, serving, chain, pc, request, answer, result, storable>>
    BY <1>11 DEF Disconnect
  <2>5. QED
    BY <1>1, <2>1, <2>2, <2>3, <2>4 DEF Typed, TypeOK, ReadsInOrder, ReadOK, registry
<1>12. CASE UNCHANGED vars
  BY <1>1, <1>12 DEF vars, registry, Typed, TypeOK, ReadsInOrder, ReadOK
<1>13. QED
  BY <1>3, <1>4, <1>5, <1>6, <1>7, <1>8, <1>9, <1>10, <1>11, <1>12 DEF Next

LEMMA InitTyped ==
  ASSUME Init
  PROVE  Typed
<1>1. cache = << >> /\ chain = << >> /\ Len(cache) = 0
      /\ cache \in Seq(Entry) /\ chain \in Seq(Reads)
  BY DEF Init
<1>2. Len(cache) <= Capacity
      /\ \A i, j \in 1 .. Len(cache) : cache[i].url = cache[j].url => i = j
  BY <1>1, ConstantsAssumption
<1>3. NoRequest \in Request /\ NoAnswer \in Answer /\ NoAnswer.status = 0
      /\ [from |-> "none", version |-> Absent] \in Result
  BY ConstantsAssumption DEF NoRequest, Request, NoAnswer, Answer, Result
<1>4. TypeOK
  BY <1>1, <1>2, <1>3, ConstantsAssumption DEF Init, TypeOK, Version, Places
<1>5. [from |-> "none", version |-> Absent].from = "none"
  OBVIOUS
<1>6. ReadsInOrder
  <2>1. SUFFICES ASSUME NEW r \in Reads PROVE ReadOK(r)
    BY DEF ReadsInOrder
  <2>2. pc[r] = "idle" /\ answer[r] = NoAnswer /\ r \notin serving
        /\ result[r].from = "none"
    BY <1>5 DEF Init
  <2>3. QED
    BY <1>3, <2>2 DEF ReadOK
<1>7. QED
  BY <1>4, <1>6 DEF Typed

\* Every reachable state is well typed: in particular the cache never holds
\* more than Capacity documents, nor one document twice.
THEOREM TypeCorrect == Spec => []TypeOK
<1>1. Init => Typed
  BY InitTyped
<1>2. Typed /\ [Next]_vars => Typed'
  BY StepTyped
<1>3. Typed => TypeOK
  BY DEF Typed
<1>4. QED
  BY <1>1, <1>2, <1>3, PTL DEF Spec

-----------------------------------------------------------------------------
(* What a read delivers. *)

\* A read delivers the representation its own answer named, and never a stored
\* one when that answer forbade storage.
THEOREM DeliveriesAreTrue ==
  Spec => []DeliveredIsAnswered
<1>1. Init => Typed
  BY InitTyped
<1>2. Typed /\ [Next]_vars => Typed'
  BY StepTyped
<1>3. Typed => DeliveredIsAnswered
  BY DEF Typed, ReadsInOrder, ReadOK, DeliveredIsAnswered
<1>4. QED
  BY <1>1, <1>2, <1>3, PTL DEF Spec

\* A step that only drops documents, or adds one that may be stored, keeps the
\* cache storable.
LEMMA StorableKept ==
  ASSUME CacheIsStorable, storable \subseteq storable',
         \A i \in 1 .. Len(cache') :
           \/ cache'[i] \in storable
           \/ \E k \in 1 .. Len(cache) : cache'[i] = cache[k]
  PROVE  CacheIsStorable'
BY DEF CacheIsStorable

LEMMA StepStorable ==
  ASSUME Typed, CacheIsStorable, [Next]_vars
  PROVE  CacheIsStorable'
<1>1. CacheOK /\ \A r \in Reads : ReadOK(r)
  BY DEF Typed, TypeOK, CacheOK, ReadsInOrder
<1>2. ASSUME NEW u \in Urls, cache' = Deleted(u) \/ cache' = cache,
             storable' = storable
      PROVE  CacheIsStorable'
  <2>1. CASE cache' = cache
    BY <1>2, <2>1, StorableKept
  <2>2. CASE cache' = Deleted(u)
    <3>1. KeptFrom(Deleted(u), u)
      BY <1>1, DeletedFacts
    <3>2. QED
      BY <1>2, <2>2, <3>1, StorableKept DEF KeptFrom
  <2>3. QED
    BY <1>2, <2>1, <2>2
<1>3. ASSUME NEW u \in Urls, NEW v \in Version, cache' = Remembered(u, v),
             storable' = storable, [url |-> u, version |-> v] \in storable
      PROVE  CacheIsStorable'
  <2>1. \A i \in 1 .. Len(cache') :
          \/ cache'[i] = [url |-> u, version |-> v]
          \/ \E k \in 1 .. Len(cache) : cache'[i] = cache[k]
    BY <1>1, <1>3, RememberedFacts
  <2>2. QED
    BY <1>3, <2>1, StorableKept
<1>4. ASSUME cache' = cache, storable \subseteq storable'
      PROVE  CacheIsStorable'
  BY <1>4, StorableKept
<1>5. ASSUME NEW r \in Reads, NEW u \in Urls, ReadPublic(r, u) \/ ReadPrivate(r, u)
      PROVE  CacheIsStorable'
  BY <1>2, <1>5 DEF ReadPublic, ReadPrivate, Issue
<1>6. ASSUME NEW r \in Reads, Run(r)
      PROVE  CacheIsStorable'
  <2>1. request[r].url \in Urls
    BY <1>1, <1>6 DEF Run, ReadOK
  <2>2. storable' = storable
        /\ (cache' = cache \/ cache' = Deleted(request[r].url))
    BY <1>6 DEF Run, Issue
  <2>3. QED
    BY <1>2, <2>1, <2>2
<1>7. ASSUME NEW r \in Reads, Serve(r)
      PROVE  CacheIsStorable'
  <2>1. cache' = cache /\ storable \subseteq storable'
    BY <1>7 DEF Serve
  <2>2. QED
    BY <1>4, <2>1
<1>8. ASSUME NEW r \in Reads, Receive(r)
      PROVE  CacheIsStorable'
  <2>1. CASE \/ FetchRejected(r) \/ HeadersRefused(r) \/ ErrorStatus(r)
             \/ HeadersAccepted(r) \/ BodyRefused(r) \/ ProblemRead(r)
    BY <1>4, <2>1 DEF FetchRejected, HeadersRefused, ErrorStatus, HeadersAccepted,
                      BodyRefused, ProblemRead, Headers, Body
  <2>2. CASE RetryWithoutCache(r)
    <3>1. request[r].url \in Urls
      BY <1>1, <2>2 DEF RetryWithoutCache, Headers, ReadOK
    <3>2. QED
      BY <1>2, <2>2, <3>1 DEF RetryWithoutCache, Headers, Issue
  <2>3. CASE Revalidated(r)
    <3>1. /\ cache' = Remembered(request[r].url, request[r].cached)
          /\ storable' = storable
          /\ pc[r] = "wire" /\ answer[r].status = 304 /\ ~answer[r].noStore
      BY <2>3 DEF Revalidated, Headers
    <3>2. /\ request[r].url \in Urls /\ request[r].cached \in Version
          /\ [url |-> request[r].url, version |-> request[r].cached] \in storable
      BY <1>1, <3>1 DEF ReadOK
    <3>3. QED
      BY <1>3, <3>1, <3>2
  <2>4. CASE BodyAccepted(r)
    <3>1. /\ cache' = IF request[r].noStore \/ answer[r].noStore
                      THEN Deleted(request[r].url)
                      ELSE Remembered(request[r].url, answer[r].version)
          /\ storable' = storable /\ pc[r] = "body"
      BY <2>4 DEF BodyAccepted, Body
    <3>2. request[r].url \in Urls /\ answer[r].version \in Version
          /\ answer[r].status = 200
      BY <1>1, <3>1 DEF ReadOK
    <3>3. CASE request[r].noStore \/ answer[r].noStore
      BY <1>2, <3>1, <3>2, <3>3
    <3>4. CASE ~(request[r].noStore \/ answer[r].noStore)
      <4>1. [url |-> request[r].url, version |-> answer[r].version] \in storable
        BY <1>1, <3>2, <3>4 DEF ReadOK
      <4>2. QED
        BY <1>3, <3>1, <3>2, <3>4, <4>1
    <3>5. QED
      BY <3>3, <3>4
  <2>5. QED
    BY <1>8, <2>1, <2>2, <2>3, <2>4 DEF Receive
<1>9. ASSUME NEW u \in Urls, Forget(u) \/ Republish(u) \/ ChangeVisibility(u)
      PROVE  CacheIsStorable'
  BY <1>2, <1>9 DEF Forget, Republish, ChangeVisibility
<1>10. ASSUME Disconnect
       PROVE  CacheIsStorable'
  <2>1. Len(cache') = 0
    BY <1>10 DEF Disconnect
  <2>2. QED
    BY <2>1 DEF CacheIsStorable
<1>11. CASE UNCHANGED vars
  BY <1>4, <1>11 DEF vars
<1>12. QED
  BY <1>5, <1>6, <1>7, <1>8, <1>9, <1>10, <1>11 DEF Next

\* Whatever the cache holds, the relay once gave leave to store: no order of
\* reads, visibility changes, retries and disconnects leaves a document behind
\* that was only ever answered with no-store.
THEOREM OnlyStorableIsCached == Spec => []CacheIsStorable
<1>1. Init => Typed /\ CacheIsStorable
  BY InitTyped DEF Init, CacheIsStorable
<1>2. Typed /\ CacheIsStorable /\ [Next]_vars => (Typed /\ CacheIsStorable)'
  BY StepTyped, StepStorable
<1>3. QED
  BY <1>1, <1>2, PTL DEF Spec

-----------------------------------------------------------------------------
(* The chain of private reads. *)

\* The chain holds called reads, each once, and a read is past the queue only
\* when all before it have settled.
ChainInOrder ==
  /\ \A i, j \in 1 .. Len(chain) : chain[i] = chain[j] => i = j
  /\ \A i \in 1 .. Len(chain) : pc[chain[i]] # "idle"
  /\ \A i, j \in 1 .. Len(chain) :
       i < j /\ pc[chain[j]] # "queued" => pc[chain[i]] = "settled"

\* A read that starts, goes on or settles leaves the chain in order.
LEMMA ChainKept ==
  ASSUME TypeOK, ChainInOrder, NEW r \in Reads, NEW p \in {"wire", "problem", "body", "settled"},
         chain' = chain, Go(r, p),
         \/ pc[r] \in {"idle", "wire", "problem", "body"}
         \/ pc[r] = "queued" /\ Turn(r)
  PROVE  ChainInOrder'
<1>1. chain \in Seq(Reads) /\ Len(chain) \in Nat
      /\ \A i \in 1 .. Len(chain) : chain[i] \in Reads
  BY DEF TypeOK
<1>2. \A q \in Reads : pc'[q] = IF q = r THEN p ELSE pc[q]
  BY DEF Go, TypeOK
<1>3. \A i \in 1 .. Len(chain) : pc'[chain[i]] # "idle"
  BY <1>1, <1>2 DEF ChainInOrder
<1>4. ASSUME NEW i \in 1 .. Len(chain), NEW j \in 1 .. Len(chain),
             i < j, pc'[chain[j]] # "queued"
      PROVE  pc'[chain[i]] = "settled"
  <2>1. chain[i] # chain[j]
    BY <1>4 DEF ChainInOrder
  <2>2. CASE chain[j] = r
    <3>1. pc'[chain[i]] = pc[chain[i]]
      BY <1>1, <1>2, <2>1, <2>2
    <3>2. CASE pc[r] # "queued"
      BY <1>4, <2>2, <3>1, <3>2 DEF ChainInOrder
    <3>3. CASE pc[r] = "queued"
      <4>1. j - 1 \in 1 .. Len(chain) /\ pc[chain[j - 1]] = "settled"
        BY <1>1, <1>4, <2>2, <3>3 DEF Turn
      <4>2. CASE i = j - 1
        BY <3>1, <4>1, <4>2
      <4>3. CASE i # j - 1
        <5>1. i < j - 1
          BY <1>1, <1>4, <4>3
        <5>2. QED
          BY <3>1, <4>1, <5>1 DEF ChainInOrder
      <4>4. QED
        BY <4>2, <4>3
    <3>4. QED
      BY <3>2, <3>3
  <2>3. CASE chain[j] # r
    <3>1. pc[chain[i]] = "settled"
      BY <1>1, <1>2, <1>4, <2>3 DEF ChainInOrder
    <3>2. QED
      BY <1>1, <1>2, <3>1
  <2>4. QED
    BY <2>2, <2>3
<1>5. QED
  BY <1>3, <1>4 DEF ChainInOrder

LEMMA StepChain ==
  ASSUME Typed, ChainInOrder, [Next]_vars
  PROVE  ChainInOrder'
<1>1. TypeOK
  BY DEF Typed
<1>2. ASSUME UNCHANGED <<chain, pc>>
      PROVE  ChainInOrder'
  BY <1>2 DEF ChainInOrder
<1>3. ASSUME NEW r \in Reads, NEW u \in Urls, ReadPublic(r, u)
      PROVE  ChainInOrder'
  BY <1>1, <1>3, ChainKept DEF ReadPublic, Issue
<1>4. ASSUME NEW r \in Reads, NEW u \in Urls, ReadPrivate(r, u)
      PROVE  ChainInOrder'
  <2>1. /\ chain \in Seq(Reads) /\ Len(chain) \in Nat
        /\ \A i \in 1 .. Len(chain) : chain[i] \in Reads
    BY <1>1 DEF TypeOK
  <2>2. /\ chain' = Append(chain, r) /\ Len(chain') = Len(chain) + 1
        /\ \A i \in 1 .. Len(chain) : chain'[i] = chain[i]
        /\ chain'[Len(chain) + 1] = r
    BY <1>4, <2>1, AppendProperties DEF ReadPrivate
  <2>3. pc[r] = "idle" /\ \A q \in Reads : pc'[q] = IF q = r THEN "queued" ELSE pc[q]
    BY <1>1, <1>4 DEF ReadPrivate, Go, TypeOK
  <2>4. \A i \in 1 .. Len(chain) : chain[i] # r /\ pc'[chain[i]] = pc[chain[i]]
    BY <2>1, <2>3 DEF ChainInOrder
  <2>5. \A i \in 1 .. Len(chain') :
          \/ i \in 1 .. Len(chain) /\ chain'[i] = chain[i]
          \/ i = Len(chain) + 1 /\ chain'[i] = r
    BY <2>1, <2>2
  <2>6. \A i, j \in 1 .. Len(chain') : chain'[i] = chain'[j] => i = j
    BY <2>4, <2>5 DEF ChainInOrder
  <2>7. \A i \in 1 .. Len(chain') : pc'[chain'[i]] # "idle"
    BY <2>3, <2>4, <2>5 DEF ChainInOrder
  <2>8. ASSUME NEW i \in 1 .. Len(chain'), NEW j \in 1 .. Len(chain'),
               i < j, pc'[chain'[j]] # "queued"
        PROVE  pc'[chain'[i]] = "settled"
    <3>1. j \in 1 .. Len(chain) /\ chain'[j] = chain[j]
      BY <2>3, <2>5, <2>8
    <3>2. i \in 1 .. Len(chain) /\ chain'[i] = chain[i]
      BY <2>1, <2>2, <2>5, <2>8, <3>1
    <3>3. QED
      BY <2>4, <2>8, <3>1, <3>2 DEF ChainInOrder
  <2>9. QED
    BY <2>6, <2>7, <2>8 DEF ChainInOrder
<1>5. ASSUME NEW r \in Reads, Run(r)
      PROVE  ChainInOrder'
  BY <1>1, <1>5, ChainKept DEF Run, Issue, Settle
<1>6. ASSUME NEW r \in Reads, Serve(r)
      PROVE  ChainInOrder'
  BY <1>2, <1>6 DEF Serve
<1>7. ASSUME NEW r \in Reads, Receive(r)
      PROVE  ChainInOrder'
  <2>1. /\ pc[r] \in {"wire", "problem", "body"} /\ chain' = chain
        /\ Go(r, "wire") \/ Go(r, "problem") \/ Go(r, "body") \/ Go(r, "settled")
    BY <1>7 DEF Receive, FetchRejected, RetryWithoutCache, Revalidated, HeadersRefused,
                ErrorStatus, HeadersAccepted, BodyAccepted, BodyRefused, ProblemRead,
                Headers, Body, Issue, Settle
  <2>2. QED
    BY <1>1, <2>1, ChainKept
<1>8. ASSUME NEW u \in Urls, Forget(u) \/ Republish(u) \/ ChangeVisibility(u)
      PROVE  ChainInOrder'
  BY <1>2, <1>8 DEF Forget, Republish, ChangeVisibility
<1>9. ASSUME Disconnect
      PROVE  ChainInOrder'
  BY <1>2, <1>9 DEF Disconnect
<1>10. CASE UNCHANGED vars
  BY <1>2, <1>10 DEF vars
<1>11. QED
  BY <1>3, <1>4, <1>5, <1>6, <1>7, <1>8, <1>9, <1>10 DEF Next

\* Private reads take turns: at most one of the chain waits for headers or a
\* body, whatever fails, times out, retries or is cancelled.
THEOREM PrivateReadsAreSerial == Spec => []PrivateReadsTakeTurns
<1>1. Init => Typed /\ ChainInOrder
  BY InitTyped DEF Init, ChainInOrder
<1>2. Typed /\ ChainInOrder /\ [Next]_vars => (Typed /\ ChainInOrder)'
  BY StepTyped, StepChain
<1>3. Typed /\ ChainInOrder => PrivateReadsTakeTurns
  <2>1. SUFFICES ASSUME TypeOK, ChainInOrder, NEW i \in 1 .. Len(chain),
                        NEW j \in 1 .. Len(chain),
                        OnTheWire(chain[i]), OnTheWire(chain[j])
                 PROVE  chain[i] = chain[j]
    BY DEF Typed, PrivateReadsTakeTurns, Serialized
  <2>2. Len(chain) \in Nat
    BY DEF TypeOK
  <2>3. i < j \/ j < i \/ i = j
    BY <2>2
  <2>4. QED
    BY <2>1, <2>3 DEF ChainInOrder, OnTheWire, AwaitsBody
<1>4. QED
  BY <1>1, <1>2, <1>3, PTL DEF Spec

-----------------------------------------------------------------------------
(* Disconnects and failures. *)

\* A disconnect cancels what had not been answered, and a queued private read
\* fails unsent for no other reason.
THEOREM ReadsEndForTheirOwnReasons ==
  Spec => OnlyDisconnectCancels
<1>1. Init => Typed
  BY InitTyped
<1>2. Typed /\ [Next]_vars => Typed'
  BY StepTyped
<1>3. ASSUME Typed, [Next]_vars, NEW r \in Reads
      PROVE  /\ pc'[r] # pc[r] /\ OnTheWire(r)' => ~Cancelled(r)'
             /\ pc[r] = "queued" /\ pc'[r] = "settled" => Cancelled(r)
  <2>1. TypeOK
    BY <1>3 DEF Typed
  <2>2. ASSUME UNCHANGED pc
        PROVE  /\ pc'[r] # pc[r] /\ OnTheWire(r)' => ~Cancelled(r)'
               /\ pc[r] = "queued" /\ pc'[r] = "settled" => Cancelled(r)
    BY <2>2
  <2>3. ASSUME NEW q \in Reads, NEW u \in Urls, ReadPublic(q, u) \/ ReadPrivate(q, u)
        PROVE  /\ pc'[r] # pc[r] /\ OnTheWire(r)' => ~Cancelled(r)'
               /\ pc[r] = "queued" /\ pc'[r] = "settled" => Cancelled(r)
    BY <2>1, <2>3 DEF ReadPublic, ReadPrivate, Issue, Go, OnTheWire, AwaitsBody, Cancelled, TypeOK
  <2>4. ASSUME NEW q \in Reads, Run(q)
        PROVE  /\ pc'[r] # pc[r] /\ OnTheWire(r)' => ~Cancelled(r)'
               /\ pc[r] = "queued" /\ pc'[r] = "settled" => Cancelled(r)
    BY <2>1, <2>4 DEF Run, Issue, Settle, Go, OnTheWire, AwaitsBody, Cancelled, TypeOK
  <2>5. ASSUME NEW q \in Reads, Receive(q)
        PROVE  /\ pc'[r] # pc[r] /\ OnTheWire(r)' => ~Cancelled(r)'
               /\ pc[r] = "queued" /\ pc'[r] = "settled" => Cancelled(r)
    BY <2>1, <2>5 DEF Receive, FetchRejected, RetryWithoutCache, Revalidated,
         HeadersRefused, ErrorStatus, HeadersAccepted, BodyAccepted, BodyRefused,
         ProblemRead, Headers, Body, Issue, Settle, Go, OnTheWire, AwaitsBody, Cancelled, TypeOK
  <2>6. QED
    BY <1>3, <2>2, <2>3, <2>4, <2>5
    DEF Next, vars, Serve, Forget, Republish, ChangeVisibility, Disconnect
<1>4. Typed /\ [Next]_vars =>
        [\A r \in Reads :
           /\ (pc'[r] # pc[r] /\ OnTheWire(r)' => ~Cancelled(r)')
           /\ (pc[r] = "queued" /\ pc'[r] = "settled" => Cancelled(r))]_vars
  BY <1>3
<1>5. QED
  BY <1>1, <1>2, <1>4, PTL DEF Spec, OnlyDisconnectCancels
=============================================================================
