--------------------------- MODULE GraphRelayProofs ---------------------------
(* Proofs about GraphRelay: types, what a cache keeps, what an outsider can     *)
(* tell, and how old the latest version may be.                                *)
EXTENDS GraphRelay, TLAPS

-----------------------------------------------------------------------------
(* Types. *)

\* What a request has, by the place it is in.
RequestOK(r) ==
  /\ pc[r] # "idle" => ask[r] \in Ask
  /\ pc[r] \in {"authorized", "api"} => selected[r] \in Version
  /\ pc[r] = "body" => reply[r].code = 200
  /\ reply[r].code \in {200, 304} => reply[r].version \in Version

Typed == TypeOK /\ \A r \in Requests : RequestOK(r)

LEMMA RefusalTyped ==
  ASSUME NEW code \in Refusals
  PROVE  /\ Refusal(code) \in Reply
         /\ Refusal(code).code = code /\ code \notin {200, 304}
BY ConstantsAssumption
   DEF Refusal, Refusals, Reply, Age, Version, None, Directives

LEMMA Directed ==
  ASSUME NEW public \in BOOLEAN, NEW route \in Routes, NEW forbidden \in BOOLEAN
  PROVE  /\ ForPackage(public, route) \in Policies
         /\ CacheControl(ForPackage(public, route), forbidden) \in Directives
BY DEF ForPackage, CacheControl, Policies, Directives

\* A refusal is typed.
LEMMA ProblemTyped ==
  ASSUME Typed, NEW r \in Requests, NEW code \in Refusals,
         Problem(r, code), Rest(r), pc[r] # "idle"
  PROVE  Typed'
<1>1. /\ reply' = [reply EXCEPT ![r] = Refusal(code)]
      /\ Refusal(code) \in Reply
      /\ Refusal(code).code \notin {200, 304}
  BY RefusalTyped DEF Problem
<1>2. TypeOK'
  BY <1>1 DEF Problem, Go, Rest, Typed, TypeOK, registry, history
<1>3. ASSUME NEW q \in Requests PROVE RequestOK(q)'
  <2>1. RequestOK(q)
    BY DEF Typed
  <2>2. CASE q = r
    BY <2>1, <2>2, <1>1 DEF Problem, Go, Rest, Typed, TypeOK, RequestOK
  <2>3. CASE q # r
    BY <2>1, <2>3, <1>1 DEF Problem, Go, Rest, Typed, TypeOK, RequestOK
  <2>4. QED
    BY <2>2, <2>3
<1>4. QED
  BY <1>2, <1>3 DEF Typed

\* A step that goes on with the handler, and leaves the answer alone, is typed.
LEMMA MoveTyped ==
  ASSUME Typed, NEW r \in Requests, pc[r] # "idle",
         NEW place \in {"package", "org", "project", "version", "authorized", "api"},
         Go(r, place), Rest(r), reply' = reply,
         viewer' \in [Requests -> Viewers \cup {Nobody}],
         found' \in [Requests -> Found],
         selected' \in [Requests -> Version \cup {None}],
         \A q \in Requests \ {r} : selected'[q] = selected[q],
         place \in {"authorized", "api"} => selected'[r] \in Version
  PROVE  Typed'
<1>1. TypeOK'
  BY DEF Go, Rest, Typed, TypeOK, registry, history
<1>2. ASSUME NEW q \in Requests PROVE RequestOK(q)'
  <2>1. RequestOK(q)
    BY DEF Typed
  <2>2. CASE q = r
    BY <2>1, <2>2 DEF Go, Rest, Typed, TypeOK, RequestOK
  <2>3. CASE q # r
    BY <2>1, <2>3 DEF Go, Rest, Typed, TypeOK, RequestOK
  <2>4. QED
    BY <2>2, <2>3
<1>3. QED
  BY <1>1, <1>2 DEF Typed

LEMMA AuthorizeTyped ==
  ASSUME Typed, NEW r \in Requests,
         Resolve(r) \/ Offline(r) \/ FindPackage(r) \/ OrgRole(r) \/ ProjectRole(r)
           \/ FindVersion(r)
  PROVE  Typed'
<1>0. TypeOK /\ RequestOK(r)
  BY DEF Typed
<1>1. CASE Resolve(r)
  BY <1>0, <1>1, MoveTyped DEF Resolve, TypeOK, RequestOK, Ask
<1>2. CASE Offline(r)
  BY <1>2, ProblemTyped DEF Offline, Refusals
<1>3. CASE FindPackage(r)
  <2>1. CASE Problem(r, 404)
    BY <1>3, <2>1, ProblemTyped DEF FindPackage, Refusals
  <2>2. CASE ~Problem(r, 404)
    <3>1. found' \in [Requests -> Found]
      <4>1. found' = [found EXCEPT ![r] =
                        [public |-> visibility = "public", latest |-> latest]]
        BY <1>3, <2>2 DEF FindPackage
      <4>2. (visibility = "public") \in BOOLEAN
        OBVIOUS
      <4>3. [public |-> visibility = "public", latest |-> latest] \in Found
        BY <1>0, <4>2 DEF TypeOK, Found
      <4>4. QED
        BY <1>0, <4>1, <4>3 DEF TypeOK
    <3>2. QED
      BY <1>0, <1>3, <2>2, <3>1, MoveTyped DEF FindPackage, TypeOK
  <2>3. QED
    BY <2>1, <2>2
<1>4. CASE OrgRole(r)
  BY <1>0, <1>4, MoveTyped, ProblemTyped DEF OrgRole, TypeOK, Refusals
<1>5. CASE ProjectRole(r)
  BY <1>0, <1>5, MoveTyped, ProblemTyped DEF ProjectRole, TypeOK, Refusals
<1>6. CASE FindVersion(r)
  <2> DEFINE v == IF Route(r) = "latest" THEN found[r].latest ELSE ask[r].key[2]
  <2>1. v \in Version \cup {None}
    BY <1>0, <1>6 DEF FindVersion, TypeOK, RequestOK, Found, Ask, Key
  <2>2. CASE v # None /\ Select(r, v)
    BY <1>0, <1>6, <2>1, <2>2, MoveTyped DEF FindVersion, Select, TypeOK
  <2>3. CASE Problem(r, 404)
    BY <1>6, <2>3, ProblemTyped DEF FindVersion, Refusals
  <2>4. QED
    BY <1>6, <2>2, <2>3 DEF FindVersion
<1>7. QED
  BY <1>1, <1>2, <1>3, <1>4, <1>5, <1>6

LEMMA AnswerTyped ==
  ASSUME Typed, NEW r \in Requests, ApiAnswers(r)
  PROVE  Typed'
<1>1. TypeOK /\ RequestOK(r) /\ pc[r] = "api" /\ Rest(r)
  BY DEF Typed, ApiAnswers
<1>2. PICK strict \in BOOLEAN :
        reply' = [reply EXCEPT ![r] =
          [code |-> IF ask[r].validator = selected[r] THEN 304 ELSE 200,
           version |-> selected[r],
           cache |-> CacheControl(Policy(r), strict \/ visibility # "public"),
           cached |-> FALSE, db |-> found[r].public,
           api |-> visibility = "public", age |-> 0]]
  BY DEF ApiAnswers
<1>3. CacheControl(Policy(r), strict \/ visibility # "public") \in Directives
  <2> DEFINE forbidden == strict \/ visibility # "public"
  <2>1. found[r].public \in BOOLEAN /\ Route(r) \in Routes
    BY <1>1 DEF Route, TypeOK, RequestOK, Found, Ask, Key
  <2>2. forbidden \in BOOLEAN
    OBVIOUS
  <2> HIDE DEF forbidden
  <2>3. CacheControl(ForPackage(found[r].public, Route(r)), forbidden) \in Directives
    BY <2>1, <2>2, Directed
  <2>4. QED
    BY <2>3 DEF Policy, forbidden
<1>4. /\ reply'[r] \in Reply /\ reply'[r].code \in {200, 304}
      /\ reply'[r].version = selected[r]
      /\ reply'[r].code = 200 \/ ask[r].validator = selected[r]
  <2> DEFINE c == IF ask[r].validator = selected[r] THEN 304 ELSE 200
             k == CacheControl(Policy(r), strict \/ visibility # "public")
             d == found[r].public
             a == visibility = "public"
             e == [code |-> c, version |-> selected[r], cache |-> k,
                   cached |-> FALSE, db |-> d, api |-> a, age |-> 0]
  <2>1. c \in {200, 304} /\ (c = 200 \/ ask[r].validator = selected[r])
    OBVIOUS
  <2>2. k \in Directives
    BY <1>3
  <2>3. d \in BOOLEAN
    BY <1>1 DEF TypeOK, Found
  <2>4. a \in BOOLEAN
    OBVIOUS
  <2>5. selected[r] \in Version \cup {None} /\ 0 \in Age
    BY <1>1, ConstantsAssumption DEF TypeOK, Age
  <2>6. reply' = [reply EXCEPT ![r] = e]
    BY <1>2
  <2> HIDE DEF c, k, d, a
  <2>7. e \in Reply
    BY <2>1, <2>2, <2>3, <2>4, <2>5 DEF Reply
  <2>8. e.code = c /\ e.version = selected[r]
    OBVIOUS
  <2>9. reply'[r] = e
    BY <1>1, <2>6 DEF TypeOK
  <2>10. QED
    BY <2>1, <2>7, <2>8, <2>9
<1>5. TypeOK'
  BY <1>1, <1>2, <1>4 DEF ApiAnswers, Go, Rest, TypeOK, registry, history
<1>6. ASSUME NEW q \in Requests PROVE RequestOK(q)'
  <2>1. RequestOK(q)
    BY DEF Typed
  <2>2. CASE q = r
    BY <2>1, <2>2, <1>1, <1>4 DEF ApiAnswers, Go, Rest, TypeOK, RequestOK
  <2>3. CASE q # r
    BY <2>1, <2>3, <1>1, <1>2 DEF ApiAnswers, Go, Rest, TypeOK, RequestOK
  <2>4. QED
    BY <2>2, <2>3
<1>7. QED
  BY <1>5, <1>6 DEF Typed

LEMMA RelayTyped ==
  ASSUME Typed, NEW r \in Requests,
         NotRelayed(r) \/ AuthorityFails(r) \/ ApiRefuses(r) \/ ApiAuthorizes(r)
           \/ BodyArrives(r) \/ BodyRefused(r) \/ Timeout(r)
  PROVE  Typed'
<1>0. TypeOK /\ RequestOK(r)
  BY DEF Typed
<1>1. CASE NotRelayed(r)
  BY <1>1, ProblemTyped DEF NotRelayed, Refusals
<1>2. CASE AuthorityFails(r)
  BY <1>2, ProblemTyped DEF AuthorityFails, PrivateAuthError, Refusals
<1>3. CASE ApiRefuses(r)
  BY <1>3, ProblemTyped DEF ApiRefuses, Refusals
<1>4. CASE ApiAuthorizes(r)
  BY <1>0, <1>4, MoveTyped, ProblemTyped DEF ApiAuthorizes, TypeOK, RequestOK, Refusals
<1>5. CASE BodyArrives(r)
  <2>1. TypeOK'
    BY <1>0, <1>5 DEF BodyArrives, Go, Rest, TypeOK, registry, history
  <2>2. ASSUME NEW q \in Requests PROVE RequestOK(q)'
    <3>1. RequestOK(q)
      BY DEF Typed
    <3>2. QED
      BY <1>0, <1>5, <3>1 DEF BodyArrives, Go, Rest, TypeOK, RequestOK
  <2>3. QED
    BY <2>1, <2>2 DEF Typed
<1>6. CASE BodyRefused(r)
  BY <1>6, ProblemTyped DEF BodyRefused, Refusals
<1>7. CASE Timeout(r)
  BY <1>7, ProblemTyped DEF Timeout, Refusals
<1>8. QED
  BY <1>1, <1>2, <1>3, <1>4, <1>5, <1>6, <1>7

LEMMA HandleTyped ==
  ASSUME Typed, NEW r \in Requests, Handle(r)
  PROVE  Typed'
BY AuthorizeTyped, AnswerTyped, RelayTyped DEF Handle

-----------------------------------------------------------------------------

LEMMA EnterTyped ==
  ASSUME Typed, NEW r \in Requests, NEW a \in Asks,
         AskInvalid(r, a) \/ AskRelay(r, a) \/ AskCache(r, a)
  PROVE  Typed'
<1>1. TypeOK /\ a \in Ask /\ a.key \in Key
  BY DEF Typed, Asks, Ask
<1>2. CanSee(a.viewer) \in BOOLEAN
  BY DEF CanSee
<1>3. visible' \in [Requests -> BOOLEAN]
  BY <1>1, <1>2 DEF AskInvalid, AskRelay, AskCache, Enter, TypeOK
<1>4. CASE AskInvalid(r, a)
  <2>1. reply' = [reply EXCEPT ![r] = Refusal(400)] /\ Refusal(400) \in Reply
        /\ Refusal(400).code \notin {200, 304}
    BY <1>4, RefusalTyped DEF AskInvalid, Refusals
  <2>2. TypeOK'
    BY <1>1, <1>3, <1>4, <2>1 DEF AskInvalid, Enter, Go, TypeOK, registry
  <2>3. ASSUME NEW q \in Requests PROVE RequestOK(q)'
    <3>1. RequestOK(q)
      BY DEF Typed
    <3>2. QED
      BY <1>1, <1>4, <2>1, <3>1 DEF AskInvalid, Enter, Go, TypeOK, RequestOK
  <2>4. QED
    BY <2>2, <2>3 DEF Typed
<1>5. CASE AskRelay(r, a)
  <2>1. TypeOK'
    BY <1>1, <1>3, <1>5 DEF AskRelay, Enter, Go, TypeOK, registry
  <2>2. ASSUME NEW q \in Requests PROVE RequestOK(q)'
    <3>1. RequestOK(q)
      BY DEF Typed
    <3>2. QED
      BY <1>1, <1>5, <3>1 DEF AskRelay, Enter, Go, TypeOK, RequestOK
  <2>3. QED
    BY <2>1, <2>2 DEF Typed
<1>6. CASE AskCache(r, a)
  <2> DEFINE e == shared[a.key]
             answer == [code |-> 200, version |-> e.version, cache |-> e.cache,
                        cached |-> TRUE, db |-> e.db, api |-> e.api, age |-> e.age]
  <2>1. e \in Entry
    BY <1>1, <1>6 DEF AskCache, Fresh, TypeOK
  <2>2. answer \in Reply /\ answer.code = 200 /\ answer.version \in Version
    BY <2>1 DEF Reply, Entry, Directives
  <2>3. reply' = [reply EXCEPT ![r] = answer]
    BY <1>6 DEF AskCache
  <2> HIDE DEF answer, e
  <2>0. Enter(r, a) /\ Go(r, "reply")
    BY <1>6 DEF AskCache
  <2>4. TypeOK'
    BY <1>1, <1>3, <2>0, <2>2, <2>3 DEF Enter, Go, TypeOK, registry
  <2>5. ASSUME NEW q \in Requests PROVE RequestOK(q)'
    <3>1. RequestOK(q)
      BY DEF Typed
    <3>2. QED
      BY <1>1, <2>0, <2>2, <2>3, <3>1 DEF Enter, Go, TypeOK, RequestOK
  <2>6. QED
    BY <2>4, <2>5 DEF Typed
<1>7. QED
  BY <1>4, <1>5, <1>6

\* What Deliver stores is an entry.
LEMMA StoredTyped ==
  ASSUME Typed, NEW r \in Requests, Deliver(r)
  PROVE  shared' \in [Key -> Entry \cup {NoEntry}]
<1> DEFINE key == ask[r].key
           e == [version |-> reply[r].version, cache |-> reply[r].cache,
                 db |-> reply[r].db, api |-> reply[r].api, age |-> reply[r].age]
<1>1. TypeOK /\ RequestOK(r) /\ reply[r] \in Reply
  BY DEF Typed, TypeOK
<1>2. CASE shared' = shared
  BY <1>1, <1>2 DEF TypeOK
<1>3. CASE shared' # shared
  <2>1. /\ shared' = [shared EXCEPT ![key] = e]
        /\ reply[r].cache \in {"immutable", "minute"}
        /\ reply[r].code \in {200, 304}
    BY <1>3 DEF Deliver
  <2>2. reply[r].version \in Version
    BY <1>1, <2>1 DEF RequestOK
  <2>3. e \in Entry
    BY <1>1, <2>1, <2>2 DEF Reply, Entry
  <2> HIDE DEF e
  <2>4. QED
    BY <1>1, <2>1, <2>3 DEF TypeOK
<1>4. QED
  BY <1>2, <1>3

LEMMA DeliverTyped ==
  ASSUME Typed, NEW r \in Requests, Deliver(r)
  PROVE  Typed'
<1>1. TypeOK /\ shared' \in [Key -> Entry \cup {NoEntry}]
  BY StoredTyped DEF Typed
<1>2. NoReply \in Reply /\ NoReply.code \notin {200, 304} /\ NotFound \in Found
  BY RefusalTyped DEF NoReply, Refusals, NotFound, Found, None
<1>3. TypeOK'
  BY <1>1, <1>2 DEF Deliver, Go, TypeOK, registry
<1>4. ASSUME NEW q \in Requests PROVE RequestOK(q)'
  <2>1. RequestOK(q)
    BY DEF Typed
  <2>2. QED
    BY <1>1, <1>2, <2>1 DEF Deliver, Go, TypeOK, RequestOK
<1>5. QED
  BY <1>3, <1>4 DEF Typed

LEMMA OlderTyped ==
  ASSUME NEW cap \in Nat, NEW n \in 0 .. cap
  PROVE  Older(n, cap) \in 0 .. cap
BY DEF Older

LEMMA AgedTyped ==
  /\ \A e \in Reply : Aged(e) \in Reply /\ Aged(e).code = e.code
                       /\ Aged(e).version = e.version
  /\ \A e \in Entry \cup {NoEntry} : Aged(e) \in Entry \cup {NoEntry}
<1>1. ASSUME NEW n \in Age PROVE Older(n, LatestMaxAge + 1) \in Age
  BY ConstantsAssumption, OlderTyped DEF Age
<1>2. ASSUME NEW e \in Reply
      PROVE  /\ Aged(e) \in Reply /\ Aged(e).code = e.code
             /\ Aged(e).version = e.version
  BY <1>1 DEF Aged, Reply
<1>3. ASSUME NEW e \in Entry PROVE Aged(e) \in Entry
  BY <1>1 DEF Aged, Entry
<1>4. Aged(NoEntry) = NoEntry
  BY DEF Aged, NoEntry
<1>5. QED
  BY <1>2, <1>3, <1>4

LEMMA WorldTyped ==
  ASSUME Typed,
         \/ \E v \in {"public", "private"} : ChangeVisibility(v)
         \/ \E m, c \in SUBSET Viewers : ChangeRoles(m, c)
         \/ \E v \in Version \cup {None} : ChangeLatest(v)
         \/ Tick
         \/ UNCHANGED vars
  PROVE  Typed'
<1>1. TypeOK /\ \A r \in Requests : RequestOK(r)
  BY DEF Typed
<1>2. CASE Tick
  <2>1. \A r \in Requests : /\ reply'[r] = Aged(reply[r]) /\ reply[r] \in Reply
                            /\ reply'[r] \in Reply
                            /\ reply'[r].code = reply[r].code
                            /\ reply'[r].version = reply[r].version
    BY <1>1, <1>2, AgedTyped DEF Tick, TypeOK
  <2>2. reply' \in [Requests -> Reply]
    BY <1>2, <2>1 DEF Tick
  <2>3. shared' \in [Key -> Entry \cup {NoEntry}]
    BY <1>1, <1>2, AgedTyped DEF Tick, TypeOK
  <2>4. since' \in [Version -> Since]
    <3>1. LatestMaxAge + 3 \in Nat /\ 0 \in Since
      BY ConstantsAssumption DEF Since
    <3>2. \A v \in Version : Older(since[v], LatestMaxAge + 3) \in Since
      BY <1>1, <3>1, OlderTyped DEF TypeOK, Since
    <3>3. QED
      BY <1>2, <3>1, <3>2 DEF Tick
  <2>5. ticked' \in [Requests -> BOOLEAN]
    BY <1>2 DEF Tick
  <2>6. TypeOK'
    BY <1>1, <1>2, <2>2, <2>3, <2>4, <2>5 DEF Tick, TypeOK, registry
  <2>7. ASSUME NEW q \in Requests PROVE RequestOK(q)'
    BY <1>1, <1>2, <2>1 DEF Tick, RequestOK
  <2>8. QED
    BY <2>6, <2>7 DEF Typed
<1>3. CASE UNCHANGED vars
  BY <1>1, <1>3 DEF Typed, TypeOK, RequestOK, vars, registry, history
<1>4. ASSUME NEW v \in {"public", "private"}, ChangeVisibility(v) PROVE Typed'
  <2>1. visible' \in [Requests -> BOOLEAN]
    BY <1>1, <1>4 DEF ChangeVisibility, Witness, TypeOK
  <2>2. QED
    BY <1>1, <1>4, <2>1 DEF ChangeVisibility, Relayed, Typed, TypeOK, RequestOK
<1>5. ASSUME NEW m \in SUBSET Viewers, NEW c \in SUBSET Viewers, ChangeRoles(m, c)
      PROVE  Typed'
  <2>1. visible' \in [Requests -> BOOLEAN]
    BY <1>1, <1>5 DEF ChangeRoles, Witness, TypeOK
  <2>2. QED
    BY <1>1, <1>5, <2>1 DEF ChangeRoles, Relayed, Typed, TypeOK, RequestOK
<1>6. ASSUME NEW v \in Version \cup {None}, ChangeLatest(v) PROVE Typed'
  <2>1. since' \in [Version -> Since]
    BY <1>1, <1>6, ConstantsAssumption DEF ChangeLatest, TypeOK, Since
  <2>2. QED
    BY <1>1, <1>6, <2>1 DEF ChangeLatest, Relayed, Typed, TypeOK, RequestOK
<1>7. QED
  BY <1>2, <1>3, <1>4, <1>5, <1>6

LEMMA StepTyped == Typed /\ [Next]_vars => Typed'
BY HandleTyped, EnterTyped, DeliverTyped, WorldTyped DEF Next

LEMMA InitTyped == Init => Typed
<1> SUFFICES ASSUME Init PROVE Typed
  OBVIOUS
<1>1. NoReply \in Reply /\ NoReply.code \notin {200, 304} /\ NotFound \in Found
  BY RefusalTyped DEF NoReply, Refusals, NotFound, Found, None
<1>2. LatestMaxAge + 3 \in Since
  BY ConstantsAssumption DEF Since
<1>3. TypeOK
  BY <1>1, <1>2 DEF Init, TypeOK
<1>4. QED
  BY <1>1, <1>3 DEF Init, Typed, RequestOK

\* Every reachable state is well typed: an answer has a status, a cache policy
\* and a version the relay can produce, for any number of requests, viewers and
\* versions.
THEOREM TypeCorrect == Spec => []TypeOK
<1>1. Typed => TypeOK
  BY DEF Typed
<1>2. QED
  BY <1>1, InitTyped, StepTyped, PTL DEF Spec

-----------------------------------------------------------------------------
(* What a step of a handler does to an answer. *)

LEMMA HandleAnswers ==
  ASSUME Typed, NEW r \in Requests, Handle(r)
  PROVE  /\ Rest(r)
         /\ \/ reply' = reply
            \/ ApiAnswers(r)
            \/ \E code \in Refusals :
                 pc'[r] = "reply" /\ reply' = [reply EXCEPT ![r] = Refusal(code)]
<1>1. pc \in [Requests -> {"idle", "resolve", "package", "org", "project",
                          "version", "authorized", "api", "body", "reply"}]
  BY DEF Typed, TypeOK
<1>2. ASSUME NEW code \in Refusals, Problem(r, code)
      PROVE  pc'[r] = "reply" /\ reply' = [reply EXCEPT ![r] = Refusal(code)]
  BY <1>1, <1>2 DEF Problem, Go
<1>3. CASE Resolve(r) \/ FindPackage(r) \/ OrgRole(r) \/ ProjectRole(r)
             \/ FindVersion(r)
  BY <1>2, <1>3
  DEF Resolve, FindPackage, OrgRole, ProjectRole, FindVersion, Select, Refusals
<1>4. CASE Offline(r) \/ NotRelayed(r) \/ ApiRefuses(r) \/ BodyRefused(r) \/ Timeout(r)
  BY <1>2, <1>4
  DEF Offline, NotRelayed, ApiRefuses, BodyRefused, Timeout, Refusals
<1>5. CASE AuthorityFails(r)
  BY <1>2, <1>5 DEF AuthorityFails, PrivateAuthError, Refusals
<1>6. CASE ApiAuthorizes(r) \/ BodyArrives(r)
  BY <1>2, <1>6 DEF ApiAuthorizes, BodyArrives, Refusals
<1>7. CASE ApiAnswers(r)
  BY <1>7 DEF ApiAnswers
<1>8. QED
  BY <1>3, <1>4, <1>5, <1>6, <1>7 DEF Handle

-----------------------------------------------------------------------------
(* What may be stored. *)

MayBeStored(e) == e.cache \in {"immutable", "minute"}
Agreed(e)      == MayBeStored(e) => e.db /\ e.api

\* Whatever may be stored, in an answer or in the cache, both authorities saw
\* public.
Consent == /\ \A r \in Requests : Agreed(reply[r])
           /\ \A k \in Key : Agreed(shared[k])

LEMMA AgedAgreed == \A e \in Reply \cup Entry \cup {NoEntry} : Agreed(e) => Agreed(Aged(e))
BY DEF Agreed, MayBeStored, Aged, Reply, Entry, NoEntry

LEMMA RefusalAgreed == \A code \in Refusals : Agreed(Refusal(code))
BY DEF Agreed, MayBeStored, Refusal

\* apply_cache_policy allows storage only of what both authorities saw public.
LEMMA AnswerAgreed ==
  ASSUME Typed, NEW r \in Requests, ApiAnswers(r)
  PROVE  Agreed(reply'[r])
<1>1. TypeOK /\ RequestOK(r) /\ pc[r] = "api"
  BY DEF Typed, ApiAnswers
<1>2. PICK strict \in BOOLEAN :
        reply' = [reply EXCEPT ![r] =
          [code |-> IF ask[r].validator = selected[r] THEN 304 ELSE 200,
           version |-> selected[r],
           cache |-> CacheControl(Policy(r), strict \/ visibility # "public"),
           cached |-> FALSE, db |-> found[r].public,
           api |-> visibility = "public", age |-> 0]]
  BY DEF ApiAnswers
<1>3. found[r].public \in BOOLEAN
  BY <1>1 DEF TypeOK, Found
<1>4. /\ reply'[r].cache = CacheControl(Policy(r), strict \/ visibility # "public")
      /\ reply'[r].db = found[r].public
      /\ reply'[r].api = (visibility = "public")
  BY <1>1, <1>2 DEF TypeOK
<1>5. CASE ~found[r].public
  <2>1. Policy(r) = "Private"
    BY <1>5 DEF Policy, ForPackage
  <2>2. QED
    BY <1>4, <2>1 DEF CacheControl, Agreed, MayBeStored
<1>6. CASE visibility # "public"
  <2>1. Policy(r) \in Policies
    BY <1>1, <1>3, Directed DEF Policy, Route, TypeOK, RequestOK, Ask, Key
  <2>2. CacheControl(Policy(r), TRUE) \in {"private", "no-store"}
    BY <2>1 DEF CacheControl, Policies
  <2>3. (strict \/ visibility # "public") = TRUE
    BY <1>6
  <2>4. QED
    BY <1>4, <2>2, <2>3 DEF Agreed, MayBeStored
<1>7. QED
  BY <1>3, <1>4, <1>5, <1>6 DEF Agreed

LEMMA ConsentStep == Typed /\ Consent /\ [Next]_vars => Consent'
<1> SUFFICES ASSUME Typed, Consent, [Next]_vars PROVE Consent'
  OBVIOUS
<1>1. TypeOK /\ Typed'
  BY StepTyped DEF Typed
<1>2. ASSUME NEW r \in Requests, Handle(r) PROVE Consent'
  BY <1>1, <1>2, HandleAnswers, AnswerAgreed, RefusalAgreed
  DEF Consent, Rest, ApiAnswers, TypeOK
<1>3. ASSUME NEW r \in Requests, NEW a \in Asks, AskInvalid(r, a) \/ AskRelay(r, a)
      PROVE  Consent'
  BY <1>1, <1>3, RefusalAgreed DEF AskInvalid, AskRelay, Enter, Consent, TypeOK, Refusals
<1>4. ASSUME NEW r \in Requests, NEW a \in Asks, AskCache(r, a) PROVE Consent'
  <2> DEFINE e == shared[a.key]
  <2>1. a.key \in Key /\ Agreed(e)
    BY DEF Asks, Ask, Consent
  <2>2. /\ reply'[r].cache = e.cache /\ reply'[r].db = e.db /\ reply'[r].api = e.api
        /\ \A q \in Requests \ {r} : reply'[q] = reply[q]
        /\ shared' = shared
    BY <1>1, <1>4 DEF AskCache, Enter, TypeOK
  <2>3. QED
    BY <2>1, <2>2 DEF Consent, Agreed, MayBeStored
<1>5. ASSUME NEW r \in Requests, Deliver(r) PROVE Consent'
  <2>1. \A q \in Requests : Agreed(reply'[q])
    BY <1>1, <1>5, RefusalAgreed DEF Deliver, Consent, TypeOK, NoReply, Refusals
  <2>2. ASSUME NEW k \in Key PROVE Agreed(shared'[k])
    <3>1. Agreed(shared[k]) /\ Agreed(reply[r])
      BY DEF Consent
    <3>2. \/ shared'[k] = shared[k]
          \/ /\ shared'[k].cache = reply[r].cache
             /\ shared'[k].db = reply[r].db /\ shared'[k].api = reply[r].api
      BY <1>1, <1>5 DEF Deliver, TypeOK
    <3>3. QED
      BY <3>1, <3>2 DEF Agreed, MayBeStored
  <2>3. QED
    BY <2>1, <2>2 DEF Consent
<1>6. CASE Tick
  <2>1. /\ \A r \in Requests : reply'[r] = Aged(reply[r]) /\ reply[r] \in Reply
        /\ \A k \in Key : shared'[k] = Aged(shared[k])
                          /\ shared[k] \in Entry \cup {NoEntry}
    BY <1>1, <1>6 DEF Tick, TypeOK
  <2>2. QED
    BY <2>1, AgedAgreed DEF Consent
<1>7. ASSUME UNCHANGED <<reply, shared>> PROVE Consent'
  BY <1>7 DEF Consent
<1>8. QED
  BY <1>2, <1>3, <1>4, <1>5, <1>6, <1>7
  DEF Next, ChangeVisibility, ChangeRoles, ChangeLatest, Relayed, vars

\* What a cache in front of the relay keeps was public when the database
\* authorized its reader and when the API answered: changes of visibility in
\* between only make caching stricter (apply_cache_policy).
THEOREM OnlyPublicIsCached == Spec => []SharedCacheIsPublic
<1>1. Init => Consent
  BY RefusalAgreed
  DEF Init, Consent, NoReply, Refusals, NoEntry, Agreed, MayBeStored
<1>2. Typed /\ Consent => SharedCacheIsPublic
  BY DEF Typed, TypeOK, Consent, SharedCacheIsPublic, Agreed, MayBeStored, Entry
<1>3. QED
  BY <1>1, <1>2, InitTyped, StepTyped, ConsentStep, PTL DEF Spec

-----------------------------------------------------------------------------
(* What an outsider can tell. *)

\* A request past the package lookup is about a package that is there; one past
\* the role lookups has a viewer who could see it.
ViewOK(r) ==
  /\ viewer[r] \in {ask[r].viewer, Nobody}
  /\ pc[r] = "idle" => viewer[r] = Nobody
  /\ pc[r] # "idle" /\ CanSee(ask[r].viewer) => visible[r]
  /\ pc[r] \in {"org", "project"} => visibility # "absent"
  /\ pc[r] = "project" => InProject
  /\ pc[r] \in {"version", "authorized", "api", "body"} => visible[r]
  /\ pc[r] = "reply" /\ ~reply[r].cached /\ ~visible[r] =>
       reply[r].code \in {400, 404, 408, 503}

Views == \A r \in Requests : ViewOK(r)

LEMMA ViewStep == Typed /\ Views /\ [Next]_vars => Views'
<1> SUFFICES ASSUME Typed, Views, [Next]_vars, NEW q \in Requests PROVE ViewOK(q)'
  BY DEF Views
<1>1. /\ TypeOK /\ ViewOK(q)
      /\ \A r \in Requests : ViewOK(r) /\ RequestOK(r)
      /\ Nobody \notin Viewers
  BY ConstantsAssumption DEF Typed, Views
<1> DEFINE frame == UNCHANGED <<registry, ask, visible>>
           still == /\ pc'[q] = pc[q] /\ viewer'[q] = viewer[q]
                    /\ reply'[q] = reply[q]
<1>2. ASSUME frame, still PROVE ViewOK(q)'
  BY <1>1, <1>2 DEF ViewOK, CanSee, Readers, registry
\* A refusal that outsiders may get, or that only others can.
<1>3. ASSUME NEW code \in Refusals, Problem(q, code), Rest(q), pc[q] # "idle",
             visible[q] \/ code \in {400, 404, 408, 503}
      PROVE  ViewOK(q)'
  <2>1. reply'[q] = Refusal(code) /\ Refusal(code).code = code
    BY <1>1, <1>3, RefusalTyped DEF Problem, TypeOK
  <2>2. pc'[q] = "reply" /\ viewer' = viewer /\ frame
    BY <1>1, <1>3 DEF Problem, Go, Rest, TypeOK, history
  <2>3. QED
    BY <1>1, <1>3, <2>1, <2>2 DEF ViewOK, CanSee, Readers, registry
<1>4. ASSUME NEW r \in Requests, Handle(r), r # q PROVE ViewOK(q)'
  <2>1. frame /\ still
    BY <1>1, <1>4, HandleAnswers
    DEF Handle, Resolve, Offline, FindPackage, OrgRole, ProjectRole, FindVersion,
        Select, NotRelayed, AuthorityFails, ApiRefuses, ApiAuthorizes, ApiAnswers,
        BodyArrives, BodyRefused, Timeout, Problem, Go, Rest, TypeOK, history
  <2>2. QED
    BY <2>1, <1>2
<1>5. ASSUME Handle(q) PROVE ViewOK(q)'
  <2>0. Rest(q) /\ frame
    BY <1>5, HandleAnswers DEF Rest, history
  <2>1. CASE Resolve(q)
    BY <1>1, <2>0, <2>1 DEF Resolve, Go, TypeOK, ViewOK, CanSee, Readers, registry
  <2>2. CASE Offline(q)
    BY <1>3, <2>0, <2>2 DEF Offline, Refusals
  <2>3. CASE FindPackage(q)
    <3>1. CASE Problem(q, 404)
      BY <1>3, <2>0, <2>3, <3>1 DEF FindPackage, Refusals
    <3>2. CASE ~Problem(q, 404)
      BY <1>1, <2>0, <2>3, <3>2
      DEF FindPackage, Go, TypeOK, ViewOK, CanSee, Readers, registry
    <3>3. QED
      BY <3>1, <3>2
  <2>4. ASSUME Go(q, "version"), viewer' = viewer, reply' = reply,
               pc[q] \in {"org", "project"}, viewer[q] \in Readers
        PROVE  ViewOK(q)'
    <3>1. viewer[q] = ask[q].viewer
      BY <1>1, <2>4 DEF ViewOK, Readers, TypeOK
    <3>2. visibility \in {"public", "private"}
      BY <1>1, <2>4 DEF ViewOK, TypeOK
    <3>3. visible[q]
      BY <1>1, <2>4, <3>1, <3>2 DEF ViewOK, CanSee
    <3>4. QED
      BY <1>1, <2>0, <2>4, <3>3 DEF Go, TypeOK, ViewOK, CanSee, Readers, registry
  <2>5. CASE OrgRole(q)
    <3>1. CASE Problem(q, 404)
      BY <1>3, <2>0, <2>5, <3>1 DEF OrgRole, Refusals
    <3>2. CASE viewer[q] \in members /\ ~Problem(q, 404)
      BY <2>4, <2>5, <3>2 DEF OrgRole, Readers
    <3>3. CASE viewer[q] \notin members /\ ~Problem(q, 404)
      BY <1>1, <2>0, <2>5, <3>3
      DEF OrgRole, Go, TypeOK, ViewOK, CanSee, Readers, registry
    <3>4. QED
      BY <3>1, <3>2, <3>3
  <2>6. CASE ProjectRole(q)
    <3>1. CASE Problem(q, 404)
      BY <1>3, <2>0, <2>6, <3>1 DEF ProjectRole, Refusals
    <3>2. CASE ~Problem(q, 404)
      BY <1>1, <2>4, <2>6, <3>2 DEF ProjectRole, Readers, ViewOK
    <3>3. QED
      BY <3>1, <3>2
  <2>7. CASE FindVersion(q)
    <3>1. CASE Problem(q, 404)
      BY <1>3, <2>0, <2>7, <3>1 DEF FindVersion, Refusals
    <3>2. CASE ~Problem(q, 404)
      BY <1>1, <2>0, <2>7, <3>2
      DEF FindVersion, Select, Go, TypeOK, ViewOK, CanSee, Readers, registry
    <3>3. QED
      BY <3>1, <3>2
  <2>8. ASSUME pc[q] \in {"authorized", "api", "body"},
               NEW code \in Refusals, Problem(q, code)
        PROVE  ViewOK(q)'
    BY <1>1, <1>3, <2>0, <2>8 DEF ViewOK
  <2>9. CASE NotRelayed(q) \/ AuthorityFails(q) \/ ApiRefuses(q) \/ BodyRefused(q)
    BY <2>8, <2>9
    DEF NotRelayed, AuthorityFails, PrivateAuthError, ApiRefuses, BodyRefused, Refusals
  <2>10. CASE ApiAuthorizes(q)
    <3>1. CASE Problem(q, 404)
      BY <2>8, <2>10, <3>1 DEF ApiAuthorizes, Refusals
    <3>2. CASE ~Problem(q, 404)
      BY <1>1, <2>0, <2>10, <3>2
      DEF ApiAuthorizes, Go, TypeOK, ViewOK, CanSee, Readers, registry
    <3>3. QED
      BY <3>1, <3>2
  <2>11. CASE ApiAnswers(q)
    BY <1>1, <2>0, <2>11 DEF ApiAnswers, Go, TypeOK, ViewOK, CanSee, Readers, registry
  <2>12. CASE BodyArrives(q)
    BY <1>1, <2>0, <2>12 DEF BodyArrives, Go, TypeOK, ViewOK, CanSee, Readers, registry
  <2>13. CASE Timeout(q)
    BY <1>3, <2>0, <2>13 DEF Timeout, Refusals
  <2>14. QED
    BY <1>5, <2>1, <2>2, <2>3, <2>5, <2>6, <2>7, <2>9, <2>10, <2>11, <2>12, <2>13
    DEF Handle
<1>6. ASSUME NEW r \in Requests, NEW a \in Asks,
             AskInvalid(r, a) \/ AskRelay(r, a) \/ AskCache(r, a)
      PROVE  ViewOK(q)'
  <2>1. Enter(r, a)
    BY <1>6 DEF AskInvalid, AskRelay, AskCache
  <2>2. CASE r # q
    BY <1>1, <1>6, <2>1, <2>2
    DEF AskInvalid, AskRelay, AskCache, Enter, Go, TypeOK, ViewOK, CanSee, Readers,
        registry
  <2>3. CASE r = q
    <3>1. /\ ask'[q] = a /\ visible'[q] = CanSee(a.viewer)
          /\ CanSee(a.viewer)' = CanSee(a.viewer)
          /\ visibility' = visibility /\ viewer' = viewer
      BY <1>1, <2>1, <2>3 DEF Enter, TypeOK, CanSee, Readers, registry
    <3>2. pc'[q] \in {"reply", "resolve"}
      BY <1>1, <1>6, <2>3 DEF AskInvalid, AskRelay, AskCache, Go, TypeOK
    <3>3. pc'[q] = "reply" =>
            reply'[q].cached \/ reply'[q].code \in {400, 404, 408, 503}
      BY <1>1, <1>6, <2>3, RefusalTyped
      DEF AskInvalid, AskRelay, AskCache, Go, TypeOK, Refusals
    <3>4. viewer[q] = Nobody
      BY <1>1, <2>1, <2>3 DEF Enter, ViewOK
    <3>5. QED
      BY <3>1, <3>2, <3>3, <3>4 DEF ViewOK
  <2>4. QED
    BY <2>2, <2>3
<1>7. ASSUME NEW r \in Requests, Deliver(r) PROVE ViewOK(q)'
  <2>1. CASE r # q
    BY <1>1, <1>7, <2>1 DEF Deliver, Go, TypeOK, ViewOK, CanSee, Readers, registry
  <2>2. CASE r = q
    BY <1>1, <1>7, <2>2 DEF Deliver, Go, TypeOK, ViewOK
  <2>3. QED
    BY <2>1, <2>2
<1>8. CASE Tick
  <2>1. reply'[q].code = reply[q].code /\ reply'[q].cached = reply[q].cached
    BY <1>1, <1>8 DEF Tick, Aged, TypeOK, Reply
  <2>2. QED
    BY <1>1, <1>8, <2>1 DEF Tick, ViewOK, CanSee, Readers, registry
<1>9. ASSUME Relayed, Witness, visibility' # "absent" \/ visibility' = visibility
      PROVE  ViewOK(q)'
  <2>1. /\ visible[q] => visible'[q]
        /\ pc[q] # "idle" /\ CanSee(ask[q].viewer)' => visible'[q]
    BY <1>9, Zenon DEF Witness
  <2>2. QED
    BY <1>1, <1>9, <2>1 DEF Relayed, ViewOK, CanSee, Readers
<1>10. ASSUME NEW v \in {"public", "private"}, ChangeVisibility(v) PROVE ViewOK(q)'
  BY <1>9, <1>10 DEF ChangeVisibility
<1>11. ASSUME NEW m \in SUBSET Viewers, NEW c \in SUBSET Viewers, ChangeRoles(m, c)
       PROVE  ViewOK(q)'
  BY <1>9, <1>11 DEF ChangeRoles
<1>12. ASSUME NEW v \in Version \cup {None}, ChangeLatest(v) PROVE ViewOK(q)'
  BY <1>1, <1>12 DEF ChangeLatest, Relayed, ViewOK, CanSee, Readers
<1>13. CASE UNCHANGED vars
  BY <1>2, <1>13 DEF vars, history
<1>14. QED
  BY <1>4, <1>5, <1>6, <1>7, <1>8, <1>10, <1>11, <1>12, <1>13 DEF Next

\* A viewer who at no time since asking could see the package gets nothing that
\* tells it from a package that does not exist.
THEOREM OutsidersStayOutside == Spec => []OutsidersLearnNothing
<1>1. ASSUME Init PROVE Views
  <2>1. ASSUME NEW r \in Requests PROVE pc[r] = "idle" /\ viewer[r] = Nobody
    BY <1>1 DEF Init
  <2>2. QED
    BY <2>1 DEF Views, ViewOK
<1>2. Views => OutsidersLearnNothing
  BY DEF Views, ViewOK, OutsidersLearnNothing
<1>3. QED
  BY <1>1, <1>2, InitTyped, StepTyped, ViewStep, PTL DEF Spec

-----------------------------------------------------------------------------
(* How old the latest version may be. *)

\* The latest a request found is no older than the request; what its answer or
\* the cache names no older than its age and the request that fetched it.
Lag(r) == IF ticked[r] THEN 1 ELSE 0

Recent(v, n) == v # None => since[v] <= n

FoundOK(r) ==
  Route(r) = "latest" =>
    /\ pc[r] \in {"org", "project", "version"} => Recent(found[r].latest, Lag(r))
    /\ pc[r] \in {"authorized", "api"} => Recent(selected[r], Lag(r))

AnswerOK(r) ==
  Route(r) = "latest" /\ pc[r] \in {"body", "reply"} /\ reply[r].version # None =>
    /\ reply[r].cache # "immutable"
    /\ reply[r].cached => since[reply[r].version] <= LatestMaxAge + 1 + Lag(r)
    /\ ~reply[r].cached =>
         /\ since[reply[r].version] <= Lag(r)
         /\ reply[r].age <= LatestMaxAge =>
              since[reply[r].version] <= reply[r].age + 1

StoredOK(k) ==
  k[1] = "latest" /\ shared[k] # NoEntry =>
    /\ shared[k].cache = "minute"
    /\ shared[k].age <= LatestMaxAge =>
         since[shared[k].version] <= shared[k].age + 1

Timely == /\ Recent(latest, 0)
          /\ \A r \in Requests : FoundOK(r) /\ AnswerOK(r)
          /\ \A k \in Key : StoredOK(k)

LEMMA TimelyHandle ==
  ASSUME Typed, Timely, NEW r \in Requests, Handle(r)
  PROVE  Timely'
<1>1. /\ TypeOK /\ RequestOK(r) /\ FoundOK(r) /\ AnswerOK(r)
      /\ Rest(r) /\ UNCHANGED <<registry, ticked, ask, shared, since>>
  BY HandleAnswers DEF Typed, Timely, Rest, history
<1>2. \A k \in Key : StoredOK(k)'
  BY <1>1 DEF Timely, StoredOK
<1>3. ASSUME NEW q \in Requests \ {r} PROVE FoundOK(q)' /\ AnswerOK(q)'
  <2>1. /\ pc'[q] = pc[q] /\ found'[q] = found[q] /\ selected'[q] = selected[q]
        /\ reply'[q] = reply[q]
    BY <1>1, <1>3, HandleAnswers
    DEF Handle, Resolve, Offline, FindPackage, OrgRole, ProjectRole, FindVersion,
        Select, NotRelayed, AuthorityFails, ApiRefuses, ApiAuthorizes, ApiAnswers,
        BodyArrives, BodyRefused, Timeout, Problem, Go, TypeOK
  <2>2. QED
    BY <1>1, <2>1 DEF Timely, FoundOK, AnswerOK, Route, Lag, Recent
<1>4. ASSUME NEW code \in Refusals, Problem(r, code) PROVE FoundOK(r)' /\ AnswerOK(r)'
  <2>1. pc'[r] = "reply" /\ reply'[r].version = None
    BY <1>1, <1>4 DEF Problem, Go, TypeOK, Refusal
  <2>2. QED
    BY <1>1, <2>1 DEF FoundOK, AnswerOK, Route
<1>5. FoundOK(r)' /\ AnswerOK(r)'
  <2>5. CASE Offline(r) \/ NotRelayed(r) \/ AuthorityFails(r) \/ ApiRefuses(r)
               \/ BodyRefused(r) \/ Timeout(r)
    BY <1>4, <2>5
    DEF Offline, NotRelayed, AuthorityFails, PrivateAuthError, ApiRefuses, BodyRefused,
        Timeout, Refusals
  <2>6. CASE Resolve(r)
    BY <1>1, <2>6 DEF Resolve, Go, TypeOK, FoundOK, AnswerOK, Route
  <2>7. CASE FindPackage(r)
    <3>1. CASE Problem(r, 404)
      BY <1>4, <3>1 DEF Refusals
    <3>2. CASE ~Problem(r, 404)
      <4>1. /\ found'[r].latest = latest /\ pc'[r] \in {"version", "org"}
            /\ latest \in Version \cup {None}
        BY <1>1, <2>7, <3>2 DEF FindPackage, Go, TypeOK
      <4>2. Recent(latest, 0)
        BY DEF Timely
      <4>3. latest # None => since[latest] \in Nat
        BY <1>1, <4>1, ConstantsAssumption DEF TypeOK, Since
      <4>4. since' = since /\ Recent(latest, Lag(r)')
        BY <1>1, <4>2, <4>3 DEF Recent, Lag
      <4>5. QED
        BY <4>1, <4>4 DEF FoundOK, AnswerOK, Recent
    <3>3. QED
      BY <3>1, <3>2
  <2>8. CASE OrgRole(r) \/ ProjectRole(r)
    <3>1. CASE Problem(r, 404)
      BY <1>4, <3>1 DEF Refusals
    <3>2. CASE ~Problem(r, 404)
      BY <1>1, <2>8, <3>2
      DEF OrgRole, ProjectRole, Go, TypeOK, FoundOK, AnswerOK, Route, Lag, Recent
    <3>3. QED
      BY <3>1, <3>2
  <2>9. CASE FindVersion(r)
    <3>1. CASE Problem(r, 404)
      BY <1>4, <3>1 DEF Refusals
    <3>2. CASE ~Problem(r, 404)
      BY <1>1, <2>9, <3>2
      DEF FindVersion, Select, Go, TypeOK, FoundOK, AnswerOK, Route, Lag, Recent
    <3>3. QED
      BY <3>1, <3>2
  <2>10. CASE ApiAuthorizes(r)
    <3>1. CASE Problem(r, 404)
      BY <1>4, <3>1 DEF Refusals
    <3>2. CASE ~Problem(r, 404)
      BY <1>1, <2>10, <3>2
      DEF ApiAuthorizes, Go, TypeOK, FoundOK, AnswerOK, Route, Lag, Recent
    <3>3. QED
      BY <3>1, <3>2
  <2>11. CASE ApiAnswers(r)
    <3>1. /\ reply'[r].version = selected[r] /\ reply'[r].age = 0
          /\ ~reply'[r].cached /\ pc'[r] \in {"body", "reply"}
          /\ \E forbidden \in BOOLEAN :
               reply'[r].cache = CacheControl(Policy(r), forbidden)
      <4>1. PICK strict \in BOOLEAN :
              reply' = [reply EXCEPT ![r] =
                [code |-> IF ask[r].validator = selected[r] THEN 304 ELSE 200,
                 version |-> selected[r],
                 cache |-> CacheControl(Policy(r), strict \/ visibility # "public"),
                 cached |-> FALSE, db |-> found[r].public,
                 api |-> visibility = "public", age |-> 0]]
        BY <2>11 DEF ApiAnswers
      <4>2. pc'[r] \in {"body", "reply"}
        BY <1>1, <2>11 DEF ApiAnswers, Go, TypeOK
      <4>3. (strict \/ visibility # "public") \in BOOLEAN
        OBVIOUS
      <4>4. /\ reply'[r].version = selected[r] /\ reply'[r].age = 0
            /\ ~reply'[r].cached
            /\ reply'[r].cache = CacheControl(Policy(r), strict \/ visibility # "public")
        BY <1>1, <4>1 DEF TypeOK
      <4>5. QED
        BY <4>2, <4>3, <4>4
    <3>2. Route(r) = "latest" => reply'[r].cache # "immutable"
      <4>1. found[r].public \in BOOLEAN
        BY <1>1 DEF TypeOK, Found
      <4>2. QED
        BY <3>1, <4>1 DEF CacheControl, Policy, ForPackage
    <3>3. since' = since /\ ticked' = ticked /\ ask' = ask
      BY <1>1
    <3>4. Route(r) = "latest" /\ selected[r] # None => since[selected[r]] <= Lag(r)
      BY <1>1, <2>11 DEF ApiAnswers, FoundOK, Recent
    <3>5. Lag(r) \in {0, 1} /\ selected[r] \in Version /\ since[selected[r]] \in Nat
      BY <1>1, <2>11, ConstantsAssumption DEF ApiAnswers, RequestOK, TypeOK, Since, Lag
    <3>6. QED
      BY <3>1, <3>2, <3>3, <3>4, <3>5 DEF FoundOK, AnswerOK, Route, Lag
  <2>12. CASE BodyArrives(r)
    BY <1>1, <2>12 DEF BodyArrives, Go, TypeOK, FoundOK, AnswerOK, Route, Lag
  <2>13. QED
    BY <2>5, <2>6, <2>7, <2>8, <2>9, <2>10, <2>11, <2>12 DEF Handle
<1>6. Recent(latest, 0)'
  BY <1>1 DEF Timely, Recent, registry
<1>7. QED
  BY <1>2, <1>3, <1>5, <1>6 DEF Timely

\* A request comes in: the answer of a cache that is still fresh is recent.
LEMMA TimelyEnter ==
  ASSUME Typed, Timely, NEW r \in Requests, NEW a \in Asks,
         AskInvalid(r, a) \/ AskRelay(r, a) \/ AskCache(r, a)
  PROVE  Timely'
<1>1. /\ TypeOK /\ ticked' = [ticked EXCEPT ![r] = FALSE] /\ ask' = [ask EXCEPT ![r] = a]
      /\ UNCHANGED <<registry, viewer, found, selected, shared, since>>
  BY DEF Typed, AskInvalid, AskRelay, AskCache, Enter
<1>2. (\A k \in Key : StoredOK(k)') /\ Recent(latest, 0)'
  BY <1>1 DEF Timely, StoredOK, Recent, registry
<1>3. ASSUME NEW q \in Requests \ {r} PROVE FoundOK(q)' /\ AnswerOK(q)'
  <2>1. /\ pc'[q] = pc[q] /\ reply'[q] = reply[q]
        /\ ticked'[q] = ticked[q] /\ ask'[q] = ask[q]
    BY <1>1, <1>3 DEF AskInvalid, AskRelay, AskCache, Go, TypeOK
  <2>2. QED
    BY <1>1, <2>1 DEF Timely, FoundOK, AnswerOK, Route, Lag, Recent
<1>4. FoundOK(r)'
  BY <1>1 DEF AskInvalid, AskRelay, AskCache, Go, TypeOK, FoundOK
<1>5. AnswerOK(r)'
  <2>1. CASE AskInvalid(r, a)
    BY <1>1, <2>1 DEF AskInvalid, TypeOK, AnswerOK, Refusal
  <2>2. CASE AskRelay(r, a)
    BY <1>1, <2>2 DEF AskRelay, Go, TypeOK, AnswerOK
  <2>3. CASE AskCache(r, a)
    <3> DEFINE e == shared[a.key]
    <3>1. /\ Fresh(e) /\ a.key \in Key /\ e \in Entry
      BY <1>1, <2>3 DEF AskCache, Fresh, TypeOK, Asks, Ask
    <3>2. /\ reply'[r].version = e.version /\ reply'[r].cache = e.cache
          /\ reply'[r].cached /\ Route(r)' = a.key[1] /\ Lag(r)' = 0
      BY <1>1, <2>3 DEF AskCache, TypeOK, Route, Lag
    <3>3. CASE a.key[1] = "latest"
      <4>1. e.cache = "minute" /\ e.age <= LatestMaxAge
            /\ since[e.version] <= e.age + 1
        BY <3>1, <3>3 DEF Fresh, Timely, StoredOK
      <4>2. e.version # None => since[e.version] \in Nat
        BY <1>1, <3>1, ConstantsAssumption DEF TypeOK, Entry, Since
      <4>3. e.age \in Nat
        BY <3>1, ConstantsAssumption DEF Entry, Age
      <4>4. e.version # None => since[e.version] <= LatestMaxAge + 1
        BY <4>1, <4>2, <4>3, ConstantsAssumption
      <4>5. QED
        BY <1>1, <3>2, <4>1, <4>4, ConstantsAssumption DEF AnswerOK
    <3>4. CASE a.key[1] # "latest"
      BY <3>2, <3>4 DEF AnswerOK
    <3>5. QED
      BY <3>3, <3>4
  <2>4. QED
    BY <2>1, <2>2, <2>3
<1>6. QED
  BY <1>2, <1>3, <1>4, <1>5 DEF Timely

\* What is stored is what was answered.
LEMMA TimelyDeliver ==
  ASSUME Typed, Timely, NEW r \in Requests, Deliver(r)
  PROVE  Timely'
<1>1. /\ TypeOK /\ RequestOK(r) /\ AnswerOK(r) /\ pc[r] = "reply"
      /\ UNCHANGED <<registry, since>> /\ Go(r, "idle")
      /\ ticked' = [ticked EXCEPT ![r] = FALSE] /\ ask' = [ask EXCEPT ![r] = NoAsk]
      /\ found' = [found EXCEPT ![r] = NotFound]
      /\ selected' = [selected EXCEPT ![r] = None]
      /\ reply' = [reply EXCEPT ![r] = NoReply]
  BY DEF Typed, Timely, Deliver
<1>2. Recent(latest, 0)'
  BY <1>1 DEF Timely, Recent, registry
<1>3. ASSUME NEW q \in Requests PROVE FoundOK(q)' /\ AnswerOK(q)'
  <2>1. CASE q = r
    BY <1>1, <2>1 DEF Go, TypeOK, FoundOK, AnswerOK
  <2>2. CASE q # r
    <3>1. /\ pc'[q] = pc[q] /\ reply'[q] = reply[q] /\ found'[q] = found[q]
          /\ selected'[q] = selected[q] /\ ticked'[q] = ticked[q] /\ ask'[q] = ask[q]
      BY <1>1, <2>2 DEF Go, TypeOK
    <3>2. QED
      BY <1>1, <3>1 DEF Timely, FoundOK, AnswerOK, Route, Lag, Recent
  <2>3. QED
    BY <2>1, <2>2
<1>4. ASSUME NEW k \in Key PROVE StoredOK(k)'
  <2> DEFINE e == [version |-> reply[r].version, cache |-> reply[r].cache,
                   db |-> reply[r].db, api |-> reply[r].api, age |-> reply[r].age]
  <2>1. \/ shared'[k] = shared[k]
        \/ /\ k = ask[r].key /\ shared'[k] = e
           /\ reply[r].cache \in {"immutable", "minute"} /\ ~reply[r].cached
           /\ reply[r].code \in {200, 304}
    BY <1>1, <1>4 DEF Deliver, TypeOK
  <2>2. CASE shared'[k] = shared[k]
    BY <1>1, <1>4, <2>2 DEF Timely, StoredOK
  <2>3. CASE shared'[k] # shared[k]
    <3>1. CASE k[1] = "latest"
      <4>1. Route(r) = "latest" /\ reply[r].version # None
        BY <1>1, <2>1, <2>3, <3>1 DEF Route, RequestOK, Version, None
      <4>2. e.cache = "minute"
            /\ (e.age <= LatestMaxAge => since[e.version] <= e.age + 1)
        BY <1>1, <2>1, <2>3, <4>1 DEF AnswerOK
      <4>3. QED
        BY <1>1, <2>1, <2>3, <4>2 DEF StoredOK
    <3>2. CASE k[1] # "latest"
      BY <3>2 DEF StoredOK
    <3>3. QED
      BY <3>1, <3>2
  <2>4. QED
    BY <2>2, <2>3
<1>5. QED
  BY <1>2, <1>3, <1>4 DEF Timely

\* Ages and what they bound advance together.
LEMMA AgedReply ==
  ASSUME NEW e \in Reply
  PROVE  /\ Aged(e).version = e.version /\ Aged(e).cache = e.cache
         /\ Aged(e).cached = e.cached /\ Aged(e).age \in Nat
<1>1. /\ e.age \in Nat /\ LatestMaxAge + 1 \in Nat /\ e.age <= LatestMaxAge + 1
  BY ConstantsAssumption DEF Reply, Age
<1>2. Older(e.age, LatestMaxAge + 1) \in Nat
  BY <1>1 DEF Older
<1>3. CASE e.cache # "minute"
  BY <1>1, <1>3 DEF Aged
<1>4. CASE e.cache = "minute"
  <2>1. Aged(e) = [e EXCEPT !.age = Older(e.age, LatestMaxAge + 1)]
    BY <1>4 DEF Aged
  <2>2. QED
    BY <1>2, <2>1 DEF Reply
<1>5. QED
  BY <1>3, <1>4

LEMMA AgedEntry ==
  ASSUME NEW e \in Entry, e.cache = "minute", Aged(e).age <= LatestMaxAge
  PROVE  Aged(e).age = e.age + 1 /\ e.age <= LatestMaxAge /\ e.age \in Nat
<1>1. /\ e.age \in Nat /\ LatestMaxAge + 1 \in Nat /\ e.age <= LatestMaxAge + 1
      /\ LatestMaxAge \in Nat
  BY ConstantsAssumption DEF Entry, Age
<1>2. Aged(e).age = Older(e.age, LatestMaxAge + 1)
  BY DEF Aged, Entry
<1>3. QED
  BY <1>1, <1>2 DEF Older

LEMMA AgedEntryKept ==
  ASSUME NEW e \in Entry
  PROVE  Aged(e).version = e.version /\ Aged(e).cache = e.cache
BY DEF Aged, Entry

LEMMA TimelyTick ==
  ASSUME Typed, Timely, Tick
  PROVE  Timely'
<1>1. TypeOK /\ UNCHANGED <<registry, pc, ask, found, selected>>
  BY DEF Typed, Tick
<1>2. ASSUME NEW v \in Version
      PROVE  /\ since[v] \in Nat /\ since'[v] \in Nat /\ since'[v] <= since[v] + 1
             /\ v = latest => since'[v] = 0
  <2>1. /\ since[v] \in 0 .. LatestMaxAge + 3 /\ LatestMaxAge + 3 \in Nat
        /\ since[v] \in Nat /\ since[v] <= LatestMaxAge + 3
    BY <1>1, ConstantsAssumption DEF TypeOK, Since
  <2>2. since'[v] = IF v = latest THEN 0 ELSE Older(since[v], LatestMaxAge + 3)
    BY DEF Tick
  <2>3. QED
    BY <2>1, <2>2 DEF Older
<1>3. Recent(latest, 0)'
  BY <1>1, <1>2 DEF TypeOK, Recent, registry
<1>4. ASSUME NEW r \in Requests PROVE FoundOK(r)'
  <2>1. pc[r] # "idle" => Lag(r) = 0 /\ Lag(r)' = 1
    BY <1>1 DEF Tick, Lag, TypeOK
  <2>2. CASE Route(r) = "latest" /\ pc[r] \in {"org", "project", "version"}
    <3>1. found[r].latest \in Version \cup {None}
      BY <1>1 DEF TypeOK, Found
    <3>2. Recent(found[r].latest, 0)
      BY <2>1, <2>2 DEF Timely, FoundOK
    <3>3. Recent(found[r].latest, 1)'
      BY <1>1, <1>2, <3>1, <3>2 DEF Recent
    <3>4. QED
      BY <1>1, <2>1, <2>2, <3>3 DEF FoundOK, Recent
  <2>3. CASE Route(r) = "latest" /\ pc[r] \in {"authorized", "api"}
    <3>1. selected[r] \in Version \cup {None}
      BY <1>1 DEF TypeOK
    <3>2. Recent(selected[r], 0)
      BY <2>1, <2>3 DEF Timely, FoundOK
    <3>3. Recent(selected[r], 1)'
      BY <1>1, <1>2, <3>1, <3>2 DEF Recent
    <3>4. QED
      BY <1>1, <2>1, <2>3, <3>3 DEF FoundOK, Recent
  <2>4. QED
    BY <1>1, <2>2, <2>3 DEF FoundOK, Route
<1>5. ASSUME NEW r \in Requests PROVE AnswerOK(r)'
  <2> DEFINE e == reply[r]
             v == reply[r].version
  <2> SUFFICES ASSUME Route(r) = "latest", pc[r] \in {"body", "reply"}, v # None
               PROVE  AnswerOK(r)'
    BY <1>1, AgedReply DEF Tick, AnswerOK, Route, TypeOK
  <2>1. Lag(r) = 0 /\ Lag(r)' = 1
    BY <1>1 DEF Tick, Lag, TypeOK
  <2>2. e \in Reply /\ v \in Version /\ reply'[r] = Aged(e)
    BY <1>1 DEF Tick, TypeOK, Reply
  <2>3. /\ reply'[r].version = v /\ reply'[r].cache = e.cache
        /\ reply'[r].cached = e.cached /\ reply'[r].age \in Nat
    BY <2>2, AgedReply
  <2>4. /\ e.cache # "immutable"
        /\ e.cached => since[v] <= LatestMaxAge + 1
        /\ ~e.cached => since[v] <= 0
    BY <2>1, ConstantsAssumption DEF Timely, AnswerOK
  <2>5. since[v] \in Nat /\ since'[v] \in Nat /\ since'[v] <= since[v] + 1
    BY <1>2, <2>2
  <2>6. QED
    BY <2>1, <2>3, <2>4, <2>5, ConstantsAssumption DEF AnswerOK
<1>6. ASSUME NEW k \in Key PROVE StoredOK(k)'
  <2> DEFINE e == shared[k]
  <2>1. shared'[k] = Aged(e) /\ (e = NoEntry => shared'[k] = NoEntry)
    BY DEF Tick, Aged, NoEntry
  <2> SUFFICES ASSUME k[1] = "latest", e # NoEntry PROVE StoredOK(k)'
    BY <2>1 DEF StoredOK
  <2>2. e \in Entry
    BY <1>1 DEF TypeOK
  <2>3. shared'[k].cache = "minute" /\ shared'[k].version = e.version
        /\ e.cache = "minute" /\ (e.age <= LatestMaxAge => since[e.version] <= e.age + 1)
    BY <2>1, <2>2, AgedEntryKept DEF Timely, StoredOK
  <2>4. ASSUME shared'[k].age <= LatestMaxAge
        PROVE  since'[e.version] <= shared'[k].age + 1
    <3>1. /\ shared'[k].age = e.age + 1 /\ e.age \in Nat
          /\ since[e.version] <= e.age + 1
      BY <2>1, <2>2, <2>3, <2>4, AgedEntry
    <3>2. e.version \in Version
      BY <2>2 DEF Entry
    <3>3. QED
      BY <1>2, <3>1, <3>2
  <2>5. QED
    BY <2>3, <2>4 DEF StoredOK
<1>7. QED
  BY <1>3, <1>4, <1>5, <1>6 DEF Timely

\* The registry moves: a version that becomes the latest is young again.
LEMMA TimelyRegistry ==
  ASSUME Typed, Timely, Relayed,
         \/ UNCHANGED <<latest, since>>
         \/ \E v \in Version \cup {None} :
              /\ latest' = v
              /\ since' = [w \in Version |-> IF w = v THEN 0 ELSE since[w]]
  PROVE  Timely'
<1>1. TypeOK /\ UNCHANGED <<pc, ticked, ask, found, selected, reply, shared>>
  BY DEF Typed, Relayed
<1>2. ASSUME NEW v \in Version
      PROVE  since[v] \in Nat /\ since'[v] \in Nat /\ since'[v] <= since[v]
  BY <1>1, ConstantsAssumption DEF TypeOK, Since
<1>3. Recent(latest, 0)'
  BY <1>1 DEF Timely, TypeOK, Recent, None
<1>4. ASSUME NEW r \in Requests PROVE FoundOK(r)' /\ AnswerOK(r)'
  <2>1. /\ found[r].latest \in Version \cup {None}
        /\ selected[r] \in Version \cup {None}
        /\ reply[r].version \in Version \cup {None}
        /\ reply[r].age \in Nat /\ LatestMaxAge \in Nat /\ Lag(r) \in Nat
    BY <1>1, ConstantsAssumption DEF TypeOK, Found, Reply, Age, Lag
  <2>2. Route(r)' = Route(r) /\ Lag(r)' = Lag(r) /\ FoundOK(r) /\ AnswerOK(r)
    BY <1>1 DEF Timely, Route, Lag
  <2>3. FoundOK(r)'
    BY <1>1, <1>2, <2>1, <2>2 DEF FoundOK, Recent
  <2>4. AnswerOK(r)'
    BY <1>1, <1>2, <2>1, <2>2 DEF AnswerOK
  <2>5. QED
    BY <2>3, <2>4
<1>5. ASSUME NEW k \in Key PROVE StoredOK(k)'
  <2>1. shared[k] # NoEntry => shared[k].version \in Version /\ shared[k].age \in Nat
    BY <1>1, ConstantsAssumption DEF TypeOK, Entry, Age
  <2>2. QED
    BY <1>1, <1>2, <2>1 DEF Timely, StoredOK
<1>6. QED
  BY <1>3, <1>4, <1>5 DEF Timely

LEMMA TimelyStep ==
  ASSUME Typed, Timely, [Next]_vars
  PROVE  Timely'
<1>1. CASE UNCHANGED vars
  BY <1>1 DEF vars, registry, history, Timely, FoundOK, AnswerOK, StoredOK, Recent, Lag, Route
<1>2. ASSUME NEW v \in {"public", "private"}, ChangeVisibility(v) PROVE Timely'
  BY <1>2, TimelyRegistry DEF ChangeVisibility
<1>3. ASSUME NEW m \in SUBSET Viewers, NEW c \in SUBSET Viewers, ChangeRoles(m, c)
      PROVE  Timely'
  BY <1>3, TimelyRegistry DEF ChangeRoles
<1>4. ASSUME NEW v \in Version \cup {None}, ChangeLatest(v) PROVE Timely'
  BY <1>4, TimelyRegistry DEF ChangeLatest
<1>5. QED
  BY <1>1, <1>2, <1>3, <1>4, TimelyHandle, TimelyEnter, TimelyDeliver, TimelyTick DEF Next

\* What the latest route answers, itself or through a cache, was the latest
\* version at most LatestMaxAge + 2 ticks ago, for any number of requests.
THEOREM LatestIsServedFresh == Spec => []LatestIsRecent
<1>1. Init => Timely
  BY DEF Init, Timely, FoundOK, AnswerOK, StoredOK, Recent
<1>2. Typed /\ Timely /\ [Next]_vars => Timely'
  BY TimelyStep
<1>3. Typed /\ Timely => LatestIsRecent
  <2> SUFFICES ASSUME Typed, Timely, NEW r \in Requests, pc[r] = "reply",
                      reply[r].version # None, Route(r) = "latest"
               PROVE  since[reply[r].version] <= LatestMaxAge + 2
    BY DEF LatestIsRecent
  <2>1. reply[r].version \in Version
    BY DEF Typed, TypeOK, Reply
  <2>2. /\ since[reply[r].version] \in Nat /\ LatestMaxAge \in Nat
        /\ Lag(r) \in {0, 1} /\ reply[r].cached \in BOOLEAN
    BY <2>1, ConstantsAssumption DEF Typed, TypeOK, Since, Lag, Reply
  <2>3. \/ since[reply[r].version] <= LatestMaxAge + 1 + Lag(r)
        \/ since[reply[r].version] <= Lag(r)
    BY DEF Timely, AnswerOK
  <2>4. QED
    BY <2>2, <2>3
<1>4. QED
  BY <1>1, <1>2, <1>3, InitTyped, StepTyped, PTL DEF Spec
=============================================================================
