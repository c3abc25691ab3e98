---------------------------- MODULE DocumentFetch ----------------------------
(***************************************************************************)
(* How the dependency-graph component of assets/dependency-graph.js reads  *)
(* documents from the graph relay: fetchDocument, fetchDocumentNow, the    *)
(* bounded document cache, and the chain that keeps private reads serial.  *)
(*                                                                         *)
(* JavaScript runs one handler at a time, but a read awaits the headers    *)
(* and then the body, of a document or of an error, so reads interleave    *)
(* with each other, with a disconnect of the element, with the             *)
(* twelve-second timer and with changes at the registry.  Each await ends  *)
(* a step here.                                                            *)
(***************************************************************************)
EXTENDS Integers, Sequences

CONSTANTS
  Reads,          \* calls of fetchDocument; each is made at most once
  Urls,           \* document URLs
  Capacity,       \* MAX_DOCUMENT_CACHE_ENTRIES
  MaxVersion,     \* bound: representations one URL goes through
  MaxGeneration,  \* bound: disconnects of the element
  NoUrl

ASSUME ConstantsAssumption ==
  /\ Capacity \in Nat \ {0}
  /\ MaxVersion \in Nat \ {0}
  /\ MaxGeneration \in Nat
  /\ NoUrl \notin Urls

Places  == {"idle", "queued", "wire", "problem", "body", "settled"}
Version == 1 .. MaxVersion
Absent  == 0                    \* no version
Entry   == [url : Urls, version : Version]
Request == [url : Urls \cup {NoUrl}, noStore : BOOLEAN, retried : BOOLEAN,
            generation : 0 .. MaxGeneration,
            cached : Version \cup {Absent}]
Answer  == [status : {0, 200, 304, 502}, noStore : BOOLEAN,
            version : Version \cup {Absent}]
Result  == [from : {"none", "failure", "cache", "body"},
            version : Version \cup {Absent}]

NoRequest == [url |-> NoUrl, noStore |-> FALSE, retried |-> FALSE,
              generation |-> 0, cached |-> Absent]
NoAnswer == [status |-> 0, noStore |-> FALSE, version |-> Absent]
Failure  == [from |-> "failure", version |-> Absent]

VARIABLES
  version,     \* registry: the representation of each URL
  private,     \* registry: the URLs only members may read
  serving,     \* relay: the reads it has not finished with
  generation,  \* fetchGeneration
  cache,       \* cache, in insertion order
  chain,       \* the serialized reads in the order serialFetchTail links them
  pc,          \* where each read is
  request,     \* its URL, options and the cached document it revalidates
  answer,      \* the status line and headers it received
  result,      \* how its promise settled
  storable     \* history: what the relay ever allowed to be stored

registry == <<version, private>>
vars == <<registry, serving, generation, cache, chain, pc, request, answer,
          result, storable>>

-----------------------------------------------------------------------------
(* The document cache, a Map: its keys keep the order of insertion. *)

Positions(u) == {i \in 1 .. Len(cache) : cache[i].url = u}
Without(s, i) == SubSeq(s, 1, i - 1) \o SubSeq(s, i + 1, Len(s))

\* cache.get(url)
Cached(u) == IF Positions(u) = {} THEN Absent
             ELSE cache[CHOOSE i \in Positions(u) : TRUE].version

\* cache.delete(url)
Deleted(u) == IF Positions(u) = {} THEN cache
              ELSE Without(cache, CHOOSE i \in Positions(u) : TRUE)

\* Mutant: the bound is checked before the new entry is counted.
RememberedPastCapacity(u, v) ==
  LET kept == IF Len(Deleted(u)) > Capacity THEN Tail(Deleted(u))
              ELSE Deleted(u)
  IN  Append(kept, [url |-> u, version |-> v])

\* rememberDocument: the newest entry goes last, the oldest leaves first.
Remembered(u, v) ==
  LET added == Append(Deleted(u), [url |-> u, version |-> v])
  IN  IF Len(added) > Capacity THEN Tail(added) ELSE added

-----------------------------------------------------------------------------
(* Steps the handlers share. *)

Go(r, place) == pc' = [pc EXCEPT ![r] = place]

Settle(r, outcome) ==
  /\ Go(r, "settled")
  /\ result' = [result EXCEPT ![r] = outcome]

\* The request goes out: the cached document it will revalidate is read now.
Issue(r, u, noStore, retried, gen) ==
  /\ cache' = IF noStore THEN Deleted(u) ELSE cache
  /\ request' = [request EXCEPT ![r] =
       [url |-> u, noStore |-> noStore, retried |-> retried,
        generation |-> gen, cached |-> IF noStore THEN Absent ELSE Cached(u)]]
  /\ answer' = [answer EXCEPT ![r] = NoAnswer]
  /\ serving' = serving \cup {r}
  /\ Go(r, "wire")

Cancelled(r) == request[r].generation # generation

-----------------------------------------------------------------------------
(* fetchDocument. *)

\* A public read starts at once.
ReadPublic(r, u) ==
  /\ pc[r] = "idle"
  /\ Issue(r, u, FALSE, FALSE, generation)
  /\ UNCHANGED <<registry, generation, chain, result, storable>>

\* A private read, or one of a package whose visibility is unknown, is linked
\* behind the read before it, whatever became of that one.
ReadPrivate(r, u) ==
  /\ pc[r] = "idle"
  /\ chain' = Append(chain, r)
  /\ request' = [request EXCEPT ![r] =
       [url |-> u, noStore |-> TRUE, retried |-> FALSE,
        generation |-> generation, cached |-> Absent]]
  /\ Go(r, "queued")
  /\ UNCHANGED <<registry, serving, generation, cache, answer, result, storable>>

\* Mutant: the tail settles with the headers, before the body is read.
TurnAfterHeaders(r) ==
  \A i \in 2 .. Len(chain) : chain[i] = r => pc[chain[i - 1]] \in {"problem", "body", "settled"}

\* The read before r in the chain has settled, either way.
Turn(r) ==
  \A i \in 2 .. Len(chain) : chain[i] = r => pc[chain[i - 1]] = "settled"

\* Mutants: a cancelled read is dropped without rejecting its promise; a failure is passed down the chain.
RunDropsCancelled(r) ==
  /\ pc[r] = "queued" /\ Turn(r) /\ ~Cancelled(r)
  /\ Issue(r, request[r].url, TRUE, FALSE, generation)
  /\ UNCHANGED <<registry, generation, chain, result, storable>>
RunAfterSuccessOnly(r) ==
  /\ pc[r] = "queued" /\ Turn(r)
  /\ \/ /\ \/ Cancelled(r)
           \/ \E i \in 2 .. Len(chain) :
                chain[i] = r /\ result[chain[i - 1]] = Failure
        /\ Settle(r, Failure)
        /\ UNCHANGED <<serving, cache, request, answer>>
     \/ /\ ~Cancelled(r)
        /\ \A i \in 2 .. Len(chain) :
             chain[i] = r => result[chain[i - 1]] # Failure
        /\ Issue(r, request[r].url, TRUE, FALSE, generation)
        /\ UNCHANGED result
  /\ UNCHANGED <<registry, generation, chain, storable>>

\* A read whose element was disconnected while it waited is never sent.
Run(r) ==
  /\ pc[r] = "queued" /\ Turn(r)
  /\ \/ /\ Cancelled(r)
        /\ Settle(r, Failure)
        /\ UNCHANGED <<serving, cache, request, answer>>
     \/ /\ ~Cancelled(r)
        /\ Issue(r, request[r].url, TRUE, FALSE, generation)
        /\ UNCHANGED result
  /\ UNCHANGED <<registry, generation, chain, storable>>

-----------------------------------------------------------------------------
(* The relay answers. *)

\* A package private at the API is never storable; one that was private when
\* the relay authorized the read is not storable either.
Serve(r) ==
  /\ r \in serving
  /\ serving' = serving \ {r}
  /\ LET u == request[r].url
     IN  \E strict \in BOOLEAN, failed \in BOOLEAN :
           LET unstorable == u \in private \/ strict
               status == IF failed THEN 502
                         ELSE IF request[r].cached = version[u] THEN 304
                         ELSE 200
           IN  /\ answer' = IF pc[r] # "wire" THEN answer
                            ELSE [answer EXCEPT ![r] =
                                    [status |-> status, noStore |-> unstorable,
                                     version |-> version[u]]]
               /\ storable' = IF failed \/ unstorable THEN storable
                              ELSE storable \cup
                                     {[url |-> u, version |-> version[u]]}
  /\ UNCHANGED <<registry, generation, cache, chain, pc, request, result>>

-----------------------------------------------------------------------------
(* fetchDocumentNow, once the headers are in. *)

Headers(r, status) ==
  /\ pc[r] = "wire" /\ ~Cancelled(r)
  /\ answer[r].status = status
  /\ UNCHANGED <<registry, generation, chain, storable>>

\* fetch rejects: the timer or a disconnect aborted it, or the network failed.
\* Headers that came in after a disconnect are rejected the same way.
FetchRejected(r) ==
  /\ pc[r] = "wire"
  /\ Settle(r, Failure)
  /\ UNCHANGED <<registry, serving, generation, cache, chain, request, answer,
                 storable>>

\* 304 with no-store: the cached document must not be used; ask once more,
\* without it.  A request that carried no validator gets no 304.
RetryWithoutCache(r) ==
  /\ Headers(r, 304)
  /\ answer[r].noStore
  /\ Issue(r, request[r].url, TRUE, TRUE, request[r].generation)
  /\ UNCHANGED result

\* Mutant: the storage directive of the answer is not looked at.
RevalidatedAnyway(r) ==
  /\ Headers(r, 304)
  /\ cache' = Remembered(request[r].url, request[r].cached)
  /\ Settle(r, [from |-> "cache", version |-> request[r].cached])
  /\ UNCHANGED <<serving, request, answer>>

\* 304: the document captured before the await is still the current one.
Revalidated(r) ==
  /\ Headers(r, 304)
  /\ ~answer[r].noStore
  /\ cache' = Remembered(request[r].url, request[r].cached)
  /\ Settle(r, [from |-> "cache", version |-> request[r].cached])
  /\ UNCHANGED <<serving, request, answer>>

\* A representation whose type, authority or length header is not what the
\* component accepts, or a 304 whose headers are not those of the cached document.
HeadersRefused(r) ==
  /\ \/ Headers(r, 200)
     \/ Headers(r, 304) /\ ~answer[r].noStore
  /\ Settle(r, Failure)
  /\ UNCHANGED <<serving, cache, request, answer>>

\* An error status: what the server says of it is read before the promise rejects.
ErrorStatus(r) ==
  /\ Headers(r, 502)
  /\ Go(r, "problem")
  /\ UNCHANGED <<serving, cache, request, answer, result>>

HeadersAccepted(r) ==
  /\ Headers(r, 200)
  /\ Go(r, "body")
  /\ UNCHANGED <<serving, cache, request, answer, result>>

-----------------------------------------------------------------------------
(* fetchDocumentNow, once the body is in.  The timer was cleared and the    *)
(* controller dropped with the headers, whatever their status, and the      *)
(* generation is not looked at again: nothing but the network ends this     *)
(* wait.                                                                    *)

Body(r) ==
  /\ pc[r] = "body"
  /\ UNCHANGED <<registry, serving, generation, chain, request, answer, storable>>

\* Mutant: only the caller's noStore option keeps a document out of the cache.
BodyStoredOnOwnOption(r) ==
  LET u == request[r].url
      v == answer[r].version
  IN  /\ Body(r)
      /\ cache' = IF request[r].noStore THEN Deleted(u) ELSE Remembered(u, v)
      /\ Settle(r, [from |-> "body", version |-> v])

BodyAccepted(r) ==
  LET u == request[r].url
      v == answer[r].version
  IN  /\ Body(r)
      /\ cache' = IF request[r].noStore \/ answer[r].noStore THEN Deleted(u)
                  ELSE Remembered(u, v)
      /\ Settle(r, [from |-> "body", version |-> v])

\* Interrupted, of another length, not JSON, or of inconsistent identity.
BodyRefused(r) ==
  /\ Body(r)
  /\ Settle(r, Failure)
  /\ UNCHANGED cache

\* The body of an error, JSON or not, whole or interrupted.
ProblemRead(r) ==
  /\ pc[r] = "problem"
  /\ Settle(r, Failure)
  /\ UNCHANGED <<registry, serving, generation, cache, chain, request, answer,
                 storable>>

-----------------------------------------------------------------------------
(* The element and the registry. *)

\* disconnectedCallback: reads on the wire are aborted, the cache is emptied.
Disconnect ==
  /\ generation < MaxGeneration
  /\ generation' = generation + 1
  /\ cache' = << >>
  /\ UNCHANGED <<registry, serving, chain, pc, request, answer, result, storable>>

\* loadScope drops a document it has copied into the graph.
Forget(u) ==
  /\ Positions(u) # {}
  /\ cache' = Deleted(u)
  /\ UNCHANGED <<registry, serving, generation, chain, pc, request, answer,
                 result, storable>>

Republish(u) ==
  /\ version[u] < MaxVersion
  /\ version' = [version EXCEPT ![u] = @ + 1]
  /\ UNCHANGED <<private, serving, generation, cache, chain, pc, request,
                 answer, result, storable>>

ChangeVisibility(u) ==
  /\ private' = IF u \in private THEN private \ {u} ELSE private \cup {u}
  /\ UNCHANGED <<version, serving, generation, cache, chain, pc, request,
                 answer, result, storable>>

-----------------------------------------------------------------------------
Init ==
  /\ version = [u \in Urls |-> 1]
  /\ private \in SUBSET Urls
  /\ serving = {}
  /\ generation = 0
  /\ cache = << >>
  /\ chain = << >>
  /\ pc = [r \in Reads |-> "idle"]
  /\ request = [r \in Reads |-> NoRequest]
  /\ answer = [r \in Reads |-> NoAnswer]
  /\ result = [r \in Reads |-> [from |-> "none", version |-> Absent]]
  /\ storable = {}

Receive(r) ==
  \/ FetchRejected(r) \/ RetryWithoutCache(r) \/ Revalidated(r)
  \/ HeadersRefused(r) \/ ErrorStatus(r) \/ HeadersAccepted(r)
  \/ ProblemRead(r) \/ BodyAccepted(r) \/ BodyRefused(r)

Next ==
  \/ \E r \in Reads :
       \/ \E u \in Urls : ReadPublic(r, u) \/ ReadPrivate(r, u)
       \/ Run(r) \/ Serve(r) \/ Receive(r)
  \/ \E u \in Urls : Forget(u) \/ Republish(u) \/ ChangeVisibility(u)
  \/ Disconnect

Spec == Init /\ [][Next]_vars

\* A promise reaction always runs, and the timer rejects a fetch whose headers
\* do not come.  Nothing is assumed of the relay or of a body, an error's included.
Fairness == \A r \in Reads : WF_vars(Run(r)) /\ WF_vars(FetchRejected(r))
FairSpec == Spec /\ Fairness

-----------------------------------------------------------------------------
(* Properties. *)

\* Every value is one the code can produce; the cache holds at most Capacity
\* documents, one for each URL (rememberDocument, MAX_DOCUMENT_CACHE_ENTRIES).
TypeOK ==
  /\ version \in [Urls -> Version]
  /\ private \subseteq Urls
  /\ serving \subseteq Reads
  /\ generation \in 0 .. MaxGeneration
  /\ cache \in Seq(Entry) /\ Len(cache) <= Capacity
  /\ \A i, j \in 1 .. Len(cache) : cache[i].url = cache[j].url => i = j
  /\ chain \in Seq(Reads)
  /\ pc \in [Reads -> Places]
  /\ request \in [Reads -> Request]
  /\ answer \in [Reads -> Answer]
  /\ result \in [Reads -> Result]
  /\ storable \subseteq Entry

AwaitsBody(r) == pc[r] \in {"problem", "body"}
OnTheWire(r)  == pc[r] = "wire" \/ AwaitsBody(r)
Serialized(r) == \E i \in 1 .. Len(chain) : chain[i] = r
Ahead(s, r) ==
  \E i, j \in 1 .. Len(chain) : i < j /\ chain[i] = s /\ chain[j] = r

\* Of the reads linked through serialFetchTail at most one is waiting for
\* headers or a body, across failures, time-outs, retries and disconnects.
PrivateReadsTakeTurns ==
  \A r, s \in Reads :
    Serialized(r) /\ Serialized(s) /\ OnTheWire(r) /\ OnTheWire(s) => r = s

\* Whatever the cache holds, the relay once answered that very document with
\* leave to store it: neither a private read nor a visibility change between
\* two answers leaves a private document behind.
CacheIsStorable ==
  \A i \in 1 .. Len(cache) : cache[i] \in storable

\* A read delivers the representation its own last answer named, although the
\* cache may have been replaced, evicted or emptied while it waited, and never a
\* stored one if that answer forbade storage.
DeliveredIsAnswered ==
  \A r \in Reads :
    /\ result[r].from \in {"cache", "body"} => result[r].version = answer[r].version
    /\ result[r].from = "cache" => ~answer[r].noStore

\* A disconnect, and nothing else, takes waiting reads down: after it no read of
\* before it is sent, and none whose headers were still out is delivered; a
\* private read that failed leaves those queued behind it alone.
OnlyDisconnectCancels ==
  [][\A r \in Reads :
       /\ (pc'[r] # pc[r] /\ OnTheWire(r)' => ~Cancelled(r)')
       /\ (pc[r] = "queued" /\ pc'[r] = "settled" => Cancelled(r))]_vars

\* A read settles, unless a body stalls, its own or that of a read ahead of it in
\* the chain: the timer covers headers only, and errors have bodies too.
OnlyABodyHoldsReadsUp ==
  \A r \in Reads :
    pc[r] \in {"queued", "wire"} ~>
      (pc[r] = "settled" \/ \E s \in Reads : (s = r \/ Ahead(s, r)) /\ AwaitsBody(s))

\* What the comments at assets/dependency-graph.js:614 and 1706 ask of the
\* chain: reads that rotate the browser's refresh handle, all of which go
\* through it, are never handled by the relay side by side.
RotatingReadsNeverRace ==
  \A r, s \in serving :
    /\ Serialized(r) /\ Serialized(s)
    /\ {request[r].url, request[s].url} \subseteq private
    => r = s
=============================================================================
