------------------------------ MODULE GraphRelay ------------------------------
(***************************************************************************)
(* The dependency-graph relay (src/routes/dependency_graph.rs): three      *)
(* routes that authorize a reader against the registry database, fetch     *)
(* the document from the registry API, and say who may store the answer.   *)
(*                                                                         *)
(* The database and the API are two authorities over one registry, read at *)
(* different times: every query and every call is an await, and visibility,*)
(* memberships and releases change between them.  A cache in front of the  *)
(* relay does what the Cache-Control of its answers allows.                *)
(*                                                                         *)
(* One package is modelled.  What a private read does to the browser's     *)
(* session is the subject of BrowserSession; here it succeeds or fails.    *)
(***************************************************************************)
EXTENDS Integers

CONSTANTS
  Requests,      \* slots for requests in flight
  Viewers,       \* signed-in principals
  Nobody,        \* the anonymous viewer
  Routes,        \* the routes in use: "exact", "latest", "export"
  InProject,     \* whether the package belongs to a project
  LatestMaxAge,  \* max-age of LATEST_GRAPH_CACHE, in ticks
  MaxVersion     \* bound: releases of the package

ASSUME ConstantsAssumption ==
  /\ Nobody \notin Viewers
  /\ Routes \subseteq {"exact", "latest", "export"}
  /\ InProject \in BOOLEAN
  /\ LatestMaxAge \in Nat /\ MaxVersion \in Nat

Version == 1 .. MaxVersion
None    == 0                      \* no version, no validator
Age     == 0 .. LatestMaxAge + 1  \* ticks an entry is old, capped
Since   == 0 .. LatestMaxAge + 3  \* ticks a version was latest ago, capped
Key     == Routes \X (Version \cup {None})
Ask     == [viewer : Viewers \cup {Nobody}, key : Key, head : BOOLEAN,
            validator : Version \cup {None}]
Found   == [public : BOOLEAN, latest : Version \cup {None}]
Policies == {"PublicExact", "PublicLatest", "Private"}
Directives == {"immutable", "minute", "private", "no-store"}
Refusals == {0, 400, 404, 406, 408, 413, 422, 429, 502, 503}
Reply   == [code : Refusals \cup {200, 304}, version : Version \cup {None},
            cache : Directives, cached : BOOLEAN, db : BOOLEAN, api : BOOLEAN,
            age : Age]
Entry   == [version : Version, cache : {"immutable", "minute"},
            db : BOOLEAN, api : BOOLEAN, age : Age]

NoAsk   == [viewer |-> Nobody, key |-> <<"none", None>>, head |-> FALSE,
            validator |-> None]
NotFound == [public |-> FALSE, latest |-> None]

\* problem(): an answer that is not a representation forbids storage (the 408 of
\* the timeout layer says nothing, and a cache does not keep a bare 408).
Refusal(code) == [code |-> code, version |-> None, cache |-> "no-store",
                  cached |-> FALSE, db |-> FALSE, api |-> FALSE, age |-> 0]
NoReply == Refusal(0)
NoEntry == [version |-> None, cache |-> "no-store", db |-> FALSE, api |-> FALSE,
            age |-> 0]

VARIABLES
  visibility,     \* registry: "absent", "public" or "private"
  members,        \* registry: viewers with a role in the organisation
  collaborators,  \* registry: viewers with a role in the project
  latest,         \* registry: the package's latest_version
  pc,             \* where each request is
  ticked,         \* whether the clock ticked since it came in
  ask,            \* what was asked, by whom, with which If-None-Match
  viewer,         \* session::resolve
  found,          \* what the package lookup returned
  selected,       \* AuthorizedGraph.version
  reply,          \* its answer
  shared,         \* the cache in front of the relay
  visible,        \* history: its viewer could see the package at some time
  since           \* history: how long ago each version was the latest

registry == <<visibility, members, collaborators, latest>>
history  == <<visible, since>>
vars == <<registry, pc, ticked, ask, viewer, found, selected, reply, shared, history>>

-----------------------------------------------------------------------------
(* The registry: who may read the package. *)

Readers == members \cup (IF InProject THEN collaborators ELSE {})
CanSee(v) == visibility = "public" \/ (visibility = "private" /\ v \in Readers)

-----------------------------------------------------------------------------
(* Cache policy. *)

\* Mutant: the latest route is cached as an exact version is.
ForPackageAnyRoute(isPublic, route) ==
  IF isPublic THEN "PublicExact" ELSE "Private"

\* GraphCachePolicy::for_package
ForPackage(isPublic, route) ==
  CASE ~isPublic                     -> "Private"
    [] isPublic /\ route = "latest"  -> "PublicLatest"
    [] isPublic /\ route # "latest"  -> "PublicExact"

\* Mutant: what the API says about storage is not looked at.
CacheControlOfPolicy(policy, forbidden) ==
  CASE policy = "Private"      -> "private"
    [] policy = "PublicExact"  -> "immutable"
    [] policy = "PublicLatest" -> "minute"

\* apply_cache_policy
CacheControl(policy, forbidden) ==
  CASE policy = "Private"                      -> "private"
    [] policy # "Private" /\ forbidden         -> "no-store"
    [] policy = "PublicExact" /\ ~forbidden    -> "immutable"
    [] policy = "PublicLatest" /\ ~forbidden   -> "minute"

Route(r)  == ask[r].key[1]
Policy(r) == ForPackage(found[r].public, Route(r))

\* Who the relay is to the API: the viewer's delegate, or nobody.
Principal(r) == IF Policy(r) = "Private" THEN ask[r].viewer ELSE Nobody

-----------------------------------------------------------------------------
(* Steps the handlers share. *)

Go(r, place) == pc' = [pc EXCEPT ![r] = place]

Rest(r) == UNCHANGED <<registry, ticked, ask, shared, history>>

Problem(r, code) ==
  /\ Go(r, "reply")
  /\ reply' = [reply EXCEPT ![r] = Refusal(code)]
  /\ UNCHANGED <<viewer, found, selected>>

\* private_auth_error
\* Mutant: the status of the session authority is passed on.
PrivateAuthErrorUnmapped(status) == status
PrivateAuthError(status) == IF status \in {401, 403} THEN 404 ELSE 502

-----------------------------------------------------------------------------
(* The browser, and the cache in front of the relay. *)

Fresh(e) ==
  /\ e # NoEntry
  /\ e.cache = "immutable" \/ e.age <= LatestMaxAge

Enter(r, a) ==
  /\ pc[r] = "idle"
  /\ ticked' = [ticked EXCEPT ![r] = FALSE]
  /\ ask' = [ask EXCEPT ![r] = a]
  /\ visible' = [visible EXCEPT ![r] = CanSee(a.viewer)]
  /\ UNCHANGED <<registry, viewer, found, selected, shared, since>>

\* A coordinate that is not valid is refused before anything is looked up.
AskInvalid(r, a) ==
  /\ Enter(r, a)
  /\ Go(r, "reply")
  /\ reply' = [reply EXCEPT ![r] = Refusal(400)]

\* A cache that holds a document asks for news of that one.
AskRelay(r, a) ==
  /\ a.head \/ ~Fresh(shared[a.key])
  /\ (~a.head /\ shared[a.key] # NoEntry) =>
        a.validator = shared[a.key].version
  /\ Enter(r, a)
  /\ Go(r, "resolve")
  /\ UNCHANGED reply

AskCache(r, a) ==
  LET e == shared[a.key]
  IN  /\ ~a.head /\ Fresh(e)
      /\ Enter(r, a)
      /\ Go(r, "reply")
      /\ reply' = [reply EXCEPT ![r] =
           [code |-> 200, version |-> e.version, cache |-> e.cache,
            cached |-> TRUE, db |-> e.db, api |-> e.api, age |-> e.age]]

\* The answer reaches the cache and the browser.  A 304 renews what is stored.
Deliver(r) ==
  LET key == ask[r].key
      storing == /\ reply[r].cache \in {"immutable", "minute"}
                 /\ ~reply[r].cached /\ ~ask[r].head
                 /\ \/ reply[r].code = 200
                    \/ /\ reply[r].code = 304
                       /\ shared[key].version = reply[r].version
  IN  /\ pc[r] = "reply"
      /\ Go(r, "idle")
      /\ shared' = IF ~storing THEN shared
                   ELSE [shared EXCEPT ![key] =
                           [version |-> reply[r].version, cache |-> reply[r].cache,
                            db |-> reply[r].db, api |-> reply[r].api,
                            age |-> reply[r].age]]
      /\ ticked' = [ticked EXCEPT ![r] = FALSE]
      /\ ask' = [ask EXCEPT ![r] = NoAsk]
      /\ viewer' = [viewer EXCEPT ![r] = Nobody]
      /\ found' = [found EXCEPT ![r] = NotFound]
      /\ selected' = [selected EXCEPT ![r] = None]
      /\ reply' = [reply EXCEPT ![r] = NoReply]
      /\ visible' = [visible EXCEPT ![r] = FALSE]
      /\ UNCHANGED <<registry, since>>

-----------------------------------------------------------------------------
(* authorize_package: each query is an await. *)

\* session::resolve falls back to an anonymous viewer when a lookup fails.
Resolve(r) ==
  /\ pc[r] = "resolve"
  /\ \E v \in {ask[r].viewer, Nobody} : viewer' = [viewer EXCEPT ![r] = v]
  /\ Go(r, "package")
  /\ Rest(r)
  /\ UNCHANGED <<found, selected, reply>>

\* No database, or a query failed.
Offline(r) ==
  /\ pc[r] \in {"package", "org", "project", "version"}
  /\ Problem(r, 503)
  /\ Rest(r)

FindPackage(r) ==
  /\ pc[r] = "package"
  /\ Rest(r)
  /\ \/ /\ visibility = "absent"
        /\ Problem(r, 404)
     \/ /\ visibility # "absent"
        /\ found' = [found EXCEPT ![r] =
                       [public |-> visibility = "public", latest |-> latest]]
        /\ Go(r, IF visibility = "public" THEN "version" ELSE "org")
        /\ UNCHANGED <<viewer, selected, reply>>

\* Mutant: a viewer who signed in is not asked for a role.
OrgRoleOrSignedIn(r) ==
  /\ pc[r] = "org"
  /\ Rest(r)
  /\ \/ /\ viewer[r] # Nobody
        /\ Go(r, "version")
        /\ UNCHANGED <<viewer, found, selected, reply>>
     \/ /\ viewer[r] = Nobody
        /\ Problem(r, 404)

\* exact_org_role, then exact_project_role if the package is in a project.
OrgRole(r) ==
  /\ pc[r] = "org"
  /\ Rest(r)
  /\ \/ /\ viewer[r] \in members
        /\ Go(r, "version")
        /\ UNCHANGED <<viewer, found, selected, reply>>
     \/ /\ viewer[r] \notin members /\ InProject
        /\ Go(r, "project")
        /\ UNCHANGED <<viewer, found, selected, reply>>
     \/ /\ viewer[r] \notin members /\ ~InProject
        /\ Problem(r, 404)

ProjectRole(r) ==
  /\ pc[r] = "project"
  /\ Rest(r)
  /\ \/ /\ viewer[r] \in collaborators
        /\ Go(r, "version")
        /\ UNCHANGED <<viewer, found, selected, reply>>
     \/ /\ viewer[r] \notin collaborators
        /\ Problem(r, 404)

Select(r, v) ==
  /\ selected' = [selected EXCEPT ![r] = v]
  /\ Go(r, "authorized")
  /\ UNCHANGED <<viewer, found, reply>>

\* An exact version has to exist; the latest has to be there and, by now, not to
\* be yanked.  Whether a version exists or is yanked is either way.
FindVersion(r) ==
  LET v == IF Route(r) = "latest" THEN found[r].latest ELSE ask[r].key[2]
  IN  /\ pc[r] = "version"
      /\ Rest(r)
      /\ \/ v # None /\ Select(r, v)
         \/ Problem(r, 404)

-----------------------------------------------------------------------------
(* relay and relay_response. *)

\* The handlers after authorize_package: an export format that is not known, or
\* an API that is not configured.
NotRelayed(r) ==
  /\ pc[r] = "authorized"
  /\ \/ Route(r) = "export" /\ Problem(r, 406)
     \/ Problem(r, 503)
  /\ Rest(r)

\* Refresh, delegation or the call failed.
AuthorityFails(r) ==
  /\ pc[r] = "authorized" /\ Policy(r) = "Private"
  /\ \E status \in {401, 403, 502, 503} : Problem(r, PrivateAuthError(status))
  /\ Rest(r)

\* The API answers with a status the relay maps, with metadata it refuses, with
\* too much, or not at all.
ApiRefuses(r) ==
  /\ pc[r] = "authorized"
  /\ \E code \in {404, 413, 422, 429, 502} : Problem(r, code)
  /\ Rest(r)

\* The API authorizes for itself.
ApiAuthorizes(r) ==
  /\ pc[r] = "authorized"
  /\ Rest(r)
  /\ \/ /\ CanSee(Principal(r))
        /\ Go(r, "api")
        /\ UNCHANGED <<viewer, found, selected, reply>>
     \/ /\ ~CanSee(Principal(r))
        /\ Problem(r, 404)

\* The headers: the API forbids storage of what is not public by now.  A HEAD
\* and a 304 are complete with them.
ApiAnswers(r) ==
  LET known == ask[r].validator = selected[r]
  IN  /\ pc[r] = "api"
      /\ \E strict \in BOOLEAN :
           reply' = [reply EXCEPT ![r] =
             [code |-> IF known THEN 304 ELSE 200, version |-> selected[r],
              cache |-> CacheControl(Policy(r),
                                     strict \/ visibility # "public"),
              cached |-> FALSE, db |-> found[r].public,
              api |-> visibility = "public", age |-> 0]]
      /\ Go(r, IF known \/ ask[r].head THEN "reply" ELSE "body")
      /\ Rest(r)
      /\ UNCHANGED <<viewer, found, selected>>

BodyArrives(r) ==
  /\ pc[r] = "body"
  /\ Go(r, "reply")
  /\ Rest(r)
  /\ UNCHANGED <<viewer, found, selected, reply>>

\* Too long, interrupted, or not of the length declared.
BodyRefused(r) ==
  /\ pc[r] = "body"
  /\ \E code \in {413, 502} : Problem(r, code)
  /\ Rest(r)

\* The router's TimeoutLayer drops the handler at any await.
Timeout(r) ==
  /\ pc[r] \notin {"idle", "reply"}
  /\ Problem(r, 408)
  /\ Rest(r)

-----------------------------------------------------------------------------
(* The registry changes. *)

\* Requests whose viewer can see the package now.
Witness ==
  visible' = [r \in Requests |->
                visible[r] \/ (pc[r] # "idle" /\ CanSee(ask[r].viewer)')]

Relayed == UNCHANGED <<pc, ticked, ask, viewer, found, selected, reply, shared>>

\* A package is created, published or withdrawn from the public; none is deleted.
ChangeVisibility(v) ==
  /\ visibility' = v
  /\ UNCHANGED <<members, collaborators, latest, since>>
  /\ Relayed /\ Witness

ChangeRoles(m, c) ==
  /\ members' = m /\ collaborators' = c
  /\ UNCHANGED <<visibility, latest, since>>
  /\ Relayed /\ Witness

\* A release, or a latest one that is yanked and gives way to another or none.
ChangeLatest(v) ==
  /\ latest' = v
  /\ since' = [w \in Version |-> IF w = v THEN 0 ELSE since[w]]
  /\ UNCHANGED <<visibility, members, collaborators, visible>>
  /\ Relayed

\* Ages advance; that of what may be kept for ever is not counted.
Older(n, cap) == IF n < cap THEN n + 1 ELSE n
Aged(e) == IF e.cache # "minute" THEN e
           ELSE [e EXCEPT !.age = Older(@, LatestMaxAge + 1)]

\* A request is answered and delivered within a tick, so it sees at most one.
Tick ==
  /\ \A r \in Requests : pc[r] # "idle" => ~ticked[r]
  /\ ticked' = [r \in Requests |-> pc[r] # "idle"]
  /\ since' = [v \in Version |-> IF v = latest THEN 0
                                 ELSE Older(since[v], LatestMaxAge + 3)]
  /\ reply' = [r \in Requests |-> Aged(reply[r])]
  /\ shared' = [k \in Key |-> Aged(shared[k])]
  /\ UNCHANGED <<registry, pc, ask, viewer, found, selected, visible>>

-----------------------------------------------------------------------------
Init ==
  /\ visibility \in {"absent", "public", "private"}
  /\ members \in SUBSET Viewers
  /\ collaborators \in SUBSET Viewers
  /\ latest = None
  /\ pc = [r \in Requests |-> "idle"]
  /\ ticked = [r \in Requests |-> FALSE]
  /\ ask = [r \in Requests |-> NoAsk]
  /\ viewer = [r \in Requests |-> Nobody]
  /\ found = [r \in Requests |-> NotFound]
  /\ selected = [r \in Requests |-> None]
  /\ reply = [r \in Requests |-> NoReply]
  /\ shared = [k \in Key |-> NoEntry]
  /\ visible = [r \in Requests |-> FALSE]
  /\ since = [v \in Version |-> LatestMaxAge + 3]

\* The latest route names no version, the others one.
Asks == {a \in Ask : (a.key[1] = "latest") <=> (a.key[2] = None)}

Handle(r) ==
  \/ Resolve(r) \/ Offline(r) \/ FindPackage(r) \/ OrgRole(r) \/ ProjectRole(r)
  \/ FindVersion(r) \/ NotRelayed(r) \/ AuthorityFails(r) \/ ApiRefuses(r)
  \/ ApiAuthorizes(r) \/ ApiAnswers(r) \/ BodyArrives(r) \/ BodyRefused(r)
  \/ Timeout(r)

Next ==
  \/ \E r \in Requests, a \in Asks :
       AskInvalid(r, a) \/ AskRelay(r, a) \/ AskCache(r, a)
  \/ \E r \in Requests : Handle(r) \/ Deliver(r)
  \/ \E v \in {"public", "private"} : ChangeVisibility(v)
  \/ \E m, c \in SUBSET Viewers : ChangeRoles(m, c)
  \/ \E v \in Version \cup {None} : ChangeLatest(v)
  \/ Tick

Spec == Init /\ [][Next]_vars

-----------------------------------------------------------------------------
(* Properties. *)

\* Every value is one the code can produce: in particular no status of the
\* session authority is passed on by private_auth_error.
TypeOK ==
  /\ visibility \in {"absent", "public", "private"}
  /\ members \subseteq Viewers /\ collaborators \subseteq Viewers
  /\ latest \in Version \cup {None}
  /\ pc \in [Requests -> {"idle", "resolve", "package", "org", "project",
                          "version", "authorized", "api", "body", "reply"}]
  /\ ticked \in [Requests -> BOOLEAN]
  /\ ask \in [Requests -> Ask \cup {NoAsk}]
  /\ viewer \in [Requests -> Viewers \cup {Nobody}]
  /\ found \in [Requests -> Found]
  /\ selected \in [Requests -> Version \cup {None}]
  /\ reply \in [Requests -> Reply]
  /\ shared \in [Key -> Entry \cup {NoEntry}]
  /\ visible \in [Requests -> BOOLEAN]
  /\ since \in [Version -> Since]

\* What a cache keeps was public to both authorities: to the database when the
\* reader was authorized and to the API when it answered (apply_cache_policy:
\* a visibility change in between must only make caching stricter).
SharedCacheIsPublic ==
  \A k \in Key : shared[k] # NoEntry => shared[k].db /\ shared[k].api

\* A viewer who could at no time since asking see the package cannot tell it
\* from one that does not exist: no body, no 304, and none of the statuses that
\* only an authorized read reaches.
OutsidersLearnNothing ==
  \A r \in Requests :
    (pc[r] = "reply" /\ ~reply[r].cached /\ ~visible[r]) =>
      reply[r].code \in {400, 404, 408, 503}

\* What the latest route answers, itself or through a cache, was the latest
\* version no longer ago than its max-age, the request that stored it and the
\* request that reads it take.
LatestIsRecent ==
  \A r \in Requests :
    (pc[r] = "reply" /\ reply[r].version # None /\ Route(r) = "latest") =>
      since[reply[r].version] <= LatestMaxAge + 2
=============================================================================
