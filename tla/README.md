# Verification of the registry web server

TLA+ models of `zed-web-server`, the browser-facing tier of the zpkg registry:
an axum process that renders registry pages from a read-only database, acts as
the browser's backend for Shared Auth (sign-in, session cookie, delegated calls
of the registry API), relays dependency graphs, and serves the script that
explores them. Source paths below are relative to `src/` of this workspace.

## 1. Inventory

| Part | Code | State it keeps | Talks to |
|---|---|---|---|
| Browser session authority | `src/browser_auth.rs`, `src/routes/session_status.rs` | none in the process: the signed cookie in the browser (refresh handle, principal, `issued_at`, `verified_at`) | Shared Auth (`/auth/refresh`, `/auth/delegate`, `/auth/logout`, `/auth/exchange`), registry API |
| Sign-in and PKCE, return targets | `sign_in`, `callback`, the sanitiser in `browser_auth.rs` | the signed login cookie (state, verifier, return target), shared by the tabs | Shared Auth (`/authorize`, `/auth/handoff/redeem`) |
| Account and onboarding pages | `src/session.rs`, `src/routes/onboarding.rs`, `src/views/onboarding.rs` | none | read-only database, the mutation path |
| Registry pages | `src/routes/home.rs`, `search.rs`, `package.rs`, `console.rs`, `src/views/layout.rs` | none; what a handler has read so far | read-only database, query by query |
| Topology pages | `src/routes/dependency_graph_page.rs`, `src/views/dependency_graph.rs` | none | read-only database |
| Graph relay | `src/routes/dependency_graph.rs` | none; answers are stored by browser and shared caches | database (visibility), registry API (document) |
| Graph explorer | `assets/dependency-graph.js` | loaded documents, LRU cache, load and fragment sequence numbers, selection, filters, query and highlight, the address that carries them | graph relay, fragment routes |
| Graph fragments | `src/routes/dependency_graph_fragments.rs`, htmx | none; htmx keeps one request on the wire and one waiting | the explorer's panels |
| Startup | `src/server.rs` | the database handle and the configuration, fixed at startup | Postgres |
| Reverse proxy | `src/proxy.rs` | none | Shared Auth |

The web process is one: it starts (`server.rs`), and every route reads the
handle and the configuration that start left. The pages render the explorer,
which reads documents through the relay and posts what it rendered to the
fragment routes; the relay's private reads, the forms and the probe all go
through the session authority.

What is hard here:

* **One single-use handle, many requests.** Two replicas serve a browser that
  sends overlapping requests with the same cookie. Every authority path spends
  the cookie's refresh handle, and only its own response can bring the successor
  home.
* **Partial failure.** A handler makes up to three upstream calls. Each can
  fail, take effect without an answer, or outlast the router's ten-second
  timeout, which drops the handler.
* **Order.** Responses reach the browser's cookie jar in any order; sign-ins,
  logouts and mutations overlap.
* **Clocks.** The session slides for thirty days, a probe trusts a verification
  stamp for fifty minutes, and the two replicas' clocks differ.
* **Two authorities.** The graph relay checks visibility in the database and
  fetches from the API, and the answer may be stored in a shared cache.
* **Many queries, one page.** A page authorizes with one query and lists with
  later ones while memberships, visibility and versions change, and each query
  may fail; what it offers is followed with rights the next handler looks up
  again.
* **Tabs.** The tabs of a browser share one login cookie, and may reload a
  callback.
* **Asynchronous browser code.** The explorer aborts, serialises and supersedes
  loads, with a bounded cache and a bounded graph; the panels' answers come late,
  and a link restores a view before its graph is there.
* **Algorithms over hostile shapes.** Return targets are percent-decoded several
  times over; graph queries meet cycles, self-loops and packages that are gone.

`PROJECT.json` lists each hazard at its line with the properties that cover it.

## 2. Modules

| Module | What it is |
|---|---|
| `BrowserSession` | the session authority: browser jar, requests, handlers, Shared Auth, timeouts, losses, clock |
| `SingleUseHandle` | what it promises of refresh handles: the abstract specification it implements |
| `BrowserSessionProofs` | types, custody of the refresh handle, the refinement of `SingleUseHandle`, what the browser, the stamps, the verdicts and the probe may be trusted with |
| `DocumentFetch`, `DocumentFetchProofs` | how the explorer reads documents: cache, revalidation, serial chain, aborts; its types and safety |
| `GraphWorkspace`, `GraphWorkspaceProofs` | the explorer's loads and expansions and the graph they build; its types and safety |
| `GraphRelay`, `GraphRelayProofs` | the graph relay, its two authorities and the cache in front of it; its types and safety |
| `GraphFragments` | the explorer's panels, htmx and the fragment routes' checks |
| `GraphQueries`, `GraphQueriesProofs` | what the explorer's queries compute; that it is right for every finite graph |
| `GraphView` | filters, selection, highlight, links and restored views |
| `Explorer`, `ExplorerProofs` | the element: `GraphFragments` and `GraphView`; what it posts, highlights, and what its links open |
| `Startup` | the start of the process |
| `SiteState` | what the page handlers share: the registry, `session::resolve`, the page shell |
| `RegistryPages` | home, search, package and console pages |
| `GraphPages` | the topology pages and the workspace they open |
| `Enrollment` | account pages, the enrollment form and the entry page |
| `ReturnTarget` | the sanitiser of return targets, byte by byte |
| `PkceLogin` | sign-ins of several tabs with one login cookie |
| `Site` | the process: `Startup`, the pages and the sign-ins |
| `SignInProofs` | the wait at the start; sanitised targets, ceremonies and where sign-ins end |
| `SiteProofs` | the types of the whole, what pages disclose, the truth of what they say and where their links lead |
| `MCBrowserSession`, `MCDocumentFetch`, `MCGraphWorkspace`, `MCGraphRelay`, `MCExplorer`, `MCSite` | instances for TLC |

`Site` EXTENDS the page modules in a line (`Startup`, `SiteState`,
`RegistryPages`, `GraphPages`, `Enrollment`) and `PkceLogin`; `Explorer` EXTENDS
`GraphFragments` and `GraphView`. The other modules meet at what one takes for
granted of another: `GraphWorkspace` takes from `DocumentFetch` that a fetch
yields a document or fails, in any order; `GraphView` takes from `GraphWorkspace`
that a load ends with its graph or is refused; `DocumentFetch` takes from the
relay that an answer names a representation and says whether it may be stored;
the relay's private reads are the `read` requests of `BrowserSession`, and
`PkceLogin` and `Enrollment` stop where `BrowserSession` takes over.

### BrowserSession

*State.* `jar` is the browser's session cookie. A request slot `r` has its place
`pc[r]` in the handler, the handler's `kind[r]`, the cookie it carried `sent[r]`,
the handle and principal its refresh or exchange returned `fresh[r]`, the
`Set-Cookie` its handler has ready `held[r]` and its response `reply[r]`. Shared
Auth, which is not in the repository, is what the web tier sees of it: per
family (one sign-in's chain of handles) the generation it accepts `gen`,
whether the family was issued (`opened`) and when it was revoked (`revokedAt`).
`applied`, `proved`, `denied` and `stranded` are history: committed mutations,
handles that were delegated, requests whose delegation Shared Auth refused (an
outage is no refusal), and families whose newest handle was lost on the way.

*Actions.* Each `await` of a handler ends a step.

| Code | Actions |
|---|---|
| `mutate_outcome` (every form handler and onboarding) | `EnterMutate`, `Refresh*`, `Delegate*`, `MutationSucceeds`, `MutationRejected`, `MutationUnanswered` |
| `delegated_get` (private graph read) | `EnterRead`, `Refresh*`, `Delegate*`, `ReadAnswered` |
| `verify_session_continuity` and `session_status::get` | `EnterStatus`, `Refresh*`, `Delegate*`, `StatusResolved` |
| `callback` | `EnterCallback`, `CallbackExchanged`, `Delegate*`, `CallbackProjected` |
| `logout` | `EnterLogout`, `Logout` |
| `TimeoutLayer` in `routes/mod.rs` | `Timeout` (with what the orphaned call may still do) |
| browser and network | `Send`, `Deliver`, `Lose` |
| Shared Auth, other actors | `Revoke`, `Tick` |

`Refresh*` distinguishes an answer, an answer with another principal, an answer
that is lost or does not decode although the handle was spent, a refusal, and an
outage. The signature and encoding of cookies are abstracted: a cookie the model
reads is one that was signed. Response bodies, redirect targets and logging are
left out.

*Initial states.* An empty jar, or a cookie of an earlier visit: verified, legacy
without a stamp, or dated up to `MaxSkew` ahead by the other replica.

*Properties.*

| Property | What it says |
|---|---|
| `TypeOK` | every value is one the code can produce; in particular a mutation's error status is never a redirect |
| `HandleCustody` | the successor of a handle has one custodian, newer than everything the browser holds or sends |
| `SessionNotStranded` | the jar's cookie is accepted, revoked, lost on the way, or about to be replaced |
| `CookieNeverGoesBack` | a late response never puts an older handle of the family back |
| `CookieNamesOwner` | a cookie names the principal its family was opened for |
| `VerifiedIsEarned` | a stamp means that handle was delegated |
| `MutationVerdictIsTrue` | applied means committed; committed is reported applied, or 408/502 |
| `ProbeClearsOnlyDeadSessions` | for a browser with one request in flight, a probe deletes only a session that expired, was revoked, was cut off by a lost response or was refused delegation, or one dated ahead of this replica's clock; never for an outage, nor on the last tick of its life |
| `RevocationIsNoticed` | how long a revoked family still looks signed in |
| `EveryRequestIsAnswered` | every started request is answered |
| `HandleIsSingleUse` | the whole implements `SingleUseHandle` |

`ProbeClearsOnlyDeadSessions` is stated for one request in flight on purpose:
a probe that loses the race for the handle is refused with 401 and clears the
cookie although the winner's session is alive; the winner's response restores it
if it arrives later, and signs the user out if it arrived first. The repository's
`formal/README.md` leaves overlapping rotation out of its claims, so this is
recorded here and not as a finding. Custody, stranding and the refinement hold
with it: the successor stays the winner's, and an empty jar strands nobody's
handle. A cookie dated ahead by the other replica's clock is also deleted while
its session lives: `active_session` takes a negative age for an invalid one.
The property says expired and dated ahead in its own words (`Expired`,
`DatedAhead`) and not by the check the code makes.

`SingleUseHandle` knows no cookies, phases, upstreams or time. The newest handle
of a sign-in is a token that is at home (with the browser) or carried by the
request that had it issued; requests leave home with copies, one copy may be
spent, which ends the others and moves the token to its request or loses it. The
refinement mapping (`AtHome`, `InCustody`, `CarriedAway`) reads token and copies
off the jar, `fresh` and `sent`.

### DocumentFetch

*State.* The component's `generation` (`fetchGeneration`), `cache` (a JavaScript
`Map`, so a sequence in order of insertion) and `chain` (the reads in the order
`serialFetchTail` links them); for each read its place, its `request` (with the
cached document captured before the await), its `answer` and its `result`. At the
registry, `version` and `private` of each document; at the relay, the reads it is
still `serving`, which includes reads the browser has given up. `storable` is
history: what the relay ever allowed to be stored.

*Actions.* `ReadPublic` starts at once; `ReadPrivate` queues and `Run` sends it
when the read before it has settled. `FetchRejected` is the twelve-second timer,
a disconnect or the network; `RetryWithoutCache`, `Revalidated`,
`HeadersRefused`, `ErrorStatus` and `HeadersAccepted` are the branches of
`fetchDocumentNow` after the headers, `ProblemRead` (the body of an error),
`BodyAccepted` and `BodyRefused` those after the body.
`Disconnect` and `Forget` are the element's, `Serve` the relay's,
`Republish` and `ChangeVisibility` the registry's. Header checks and body checks
are one refusal each.

*Properties.* The cache is bounded with one entry a document (`TypeOK`) and holds
only what the relay allowed to be stored (`CacheIsStorable`); a read delivers
what its own answer named and is never met from the cache if that answer forbids
storage (`DeliveredIsAnswered`); private reads take turns
(`PrivateReadsTakeTurns`); a read is cancelled by a disconnect and by nothing
that happens to another (`OnlyDisconnectCancels`); and every read settles unless
a body stalls, its own or that of a read ahead of it in the chain, an error's
included (`OnlyABodyHoldsReadsUp`).

### GraphWorkspace

*State.* `loadSequence` tells a load it was superseded; `chosen` is what the
controls show; `graph` has nodes, edges, roots and the nodes marked expanded;
`epoch` counts `clearGraph`, so that a node object of an earlier graph can be
told from the one that replaced it; `button` is the node whose expand button the
inspector shows; `sourceFailures` is the counter all scope loads share; `status`
is the state of the status line. Each load has its kind and what it captured, and
a scope load its batch. `added` and `cleared` are history: the documents in the
graph with the load that brought each, and the load that cleared it last.

*Actions.*

| Code | Actions |
|---|---|
| `loadPackage` | `LoadPackage`, `PackageArrives`, `ReadFails` |
| `loadScope` | `LoadScope`, `SourceSettles`, `BatchSettles`, `AddSource` |
| `expandLatest` | `ExpandLatest`, `ExpansionArrives`, `ReadFails` |
| `selectNode`, `renderInspector` | `Inspect`, and `Render` inside the steps that draw |
| `disconnectedCallback` | `Disconnect` |

`addDocument` is `AddDocument`: every check first (`Accepts`), then the change
(`With`). The loop that adds a batch runs without an await; the model takes it
one document a step and lets nothing else move meanwhile.

*Properties.* The graph is whole documents within the limits
(`DocumentsFitWhole`); nothing superseded is in it and the newest choice is what
is shown (`NewestLoadRules`); "composed n graphs" counts
right although overlapping loads share the counter (`ComposedIsTrue`); a failed
expansion can be tried again (`FailedExpansionCanBeRetried`); the status line
does not say loading for ever (`StatusSettles`).

### GraphRelay

*State.* The registry: one package's `visibility`, its organisation's `members`
and project's `collaborators`, its `latest` version. For each request its place
`pc`, what was asked, by whom and with which `If-None-Match` (`ask`), the
`viewer` that `session::resolve` found, what the lookup returned (`found`), the
`selected` version and the `reply`. `shared` is the cache in front of the relay,
an entry for each document with its age. `visible`, `since` and the marks `db`
and `api` of an answer are history: whether the viewer could see the package at
some time since asking, how long ago each version was the latest, and what the
two authorities said of the package.

*Actions.*

| Code | Actions |
|---|---|
| the three route handlers | `AskInvalid`, `AskRelay`, `NotRelayed` |
| `authorize_package`, an action for each query | `Resolve`, `FindPackage`, `OrgRole`, `ProjectRole`, `FindVersion`, `Offline` |
| `relay` | `AuthorityFails`, `ApiRefuses`, `ApiAuthorizes` |
| `relay_response` | `ApiRefuses`, `ApiAnswers`, `BodyArrives`, `BodyRefused` |
| `TimeoutLayer` | `Timeout` |
| HTTP cache | `AskCache`, `AskRelay` (revalidation), `Deliver` |
| registry | `ChangeVisibility`, `ChangeRoles`, `ChangeLatest`, `Tick` |

The checks of the API's headers are one refusal; whether a version exists, and
whether the latest one is yanked by the time it is looked up, is either way.
That the API answers `private` or `no-store` for a package that is not public is
the contract `apply_cache_policy` reads, not code of this repository.

*Properties.* What a cache keeps was public to both authorities
(`SharedCacheIsPublic`); a viewer who at no time could see the package cannot
tell it from an absent one, whatever changes between the queries
(`OutsidersLearnNothing`); and what the latest route answers, itself or through
a cache, was the latest version within its max-age plus the time of two requests
(`LatestIsRecent`; with one request's time less it is violated, by a cache that
stores at the end of a slow request and is read at the start of another).

### GraphFragments, GraphQueries, GraphView and Explorer

*State.* `ui` is what the panels hold and what htmx does: the selected package,
the result of the query and its page, the fragment `sequence` of each panel, the
rendering in each `panel` (whose it is, of which form, how many listeners its
buttons have), the request on the `wire`, the one `queued` behind it and the
`reactions` of promises that are due. `view` is what the visitor sees of the
graph: the graph of the `shown` version or channel, the one `loading`, the
`choice` of the control, filters, selection, pinned start, the active `query` with
its package (`anchor`) and its highlight (`focus`, `pairs`), and the `pending` part
of a link. `workspace` is what the page may load.

*Actions.*

| Code | Actions |
|---|---|
| `requestFragment` and its callers | `SelectNode`, `RunQuery`, `TurnPage`, `GraphLoaded`, `Redraw`, `Expanded`, `RequestStateFragment`, `Reattach` |
| htmx, the fragment routes | `Swap`, `ErrorAnswer`, `SendError`, `AfterSwap` |
| `runQuery`, the filters, `resetView`, `selectNode` | `ClickQuery`, `ClearQuery`, `ToggleKind`, `ToggleOptional`, `ResetView`, `Select` |
| `loadInitial`, the version and channel control | `ViewInit`, `Choose` |
| `afterGraphLoaded`, `fail` | `GraphArrives`, `LoadRefused` |
| `restoreSavedView`, `popstate` | `RestoreView` |

`element.htmx.ajax` is called without a source, so htmx keeps one request on the
wire and one waiting for the whole body; the model is of the vendored
`static/htmx.min.js`. `GraphQueries` computes what `walk`, `shortestPath`,
`longestChain` (in topological order), `cycleNodes` (two depth-first searches)
and `aggregateQueryNodes` do, with recursive functions in the place of their
loops.

*Properties.* No page of rows the element posts is refused for its numbers
(`PostsAreConsistent`). What is highlighted is the answer to the active query
about the package it was asked of, along the edges the filters leave now
(`HighlightAnswersQuery`): the reference definitions are reachability
(`Reachable`: what is in every set that has the package and what its members
depend on), quantifiers over simple paths, and ranks. It excepts a query that has not been asked of what is shown (a
restored link while its version is loading, or after that was refused) or could
not be, a longest chain that a cycle leaves undefined, which keeps the highlight
of before, and a start that was pinned since. A copied link opens what it was
copied from (`LinkReproducesView`), provided that a package is selected, the
chosen graph is the one shown and the highlight is up to date.

### Startup, pages and sign-ins: Site

`Startup` has the `phase` of the process, the environment, the seconds `elapsed`
and what the start leaves (`db`, `auth`): `Connect`, `ConnectFails` and `Pause`
are `connect_with_retry`, `Configure` is the rest of `server.rs` and the
configuration of browser auth.

`SiteState` has the registry (organisations, roles, project grants, visibility,
releases and yanks), which changes between any two queries
(`RegistryChanges`), and the one request being answered: `at` names the await its
handler is at, `req` what was asked, `viewer` what `session::resolve` found,
`seen` what was read and `answer` what is shown and offered. `past` is history:
what the viewer was entitled to at some time (`ever`) and all the time (`always`)
while the page was made, and what was yanked when it was asked for. The page modules
take one action for each query of each handler:

| Code | Actions |
|---|---|
| `session::resolve` | `Resolve` |
| `home.rs`, `search.rs` | `Home`, `Search` |
| `package.rs` | `FindPackage`, `PackageOrgRole`, `PackageProjectRole`, `PackageVersions`, `PackageLatest`, `PackageProject` |
| `console.rs` | `OrgScope`, `DashboardProjects`, `DashboardPackages`, `ProjectSettingsProject`, `ProjectSettingsPackages`, `PackageSettings`, `UserSettings` |
| `dependency_graph_page.rs` | `GraphOrg`, `GraphProject`, `GraphOrgRole`, `GraphProjectRole`, `GraphPackages`, `GraphVersions`, `GraphLicenses` |
| `onboarding.rs`, `marketing_dashboard` | `Choose`, `RenderAccount`, `Entry`, `EntryUnavailable`, `EnrollRefused`, `ApiCreates`, `ApiRefuses`, `EnrollAnswered`, `RenderFailure` |
| the router | `Arrive`, `Timeout`, `Deliver` |

A listing holds `ProjectLimit` projects or `PackageLimit` packages: the read layer is not in the
repository, which calls its listings bounded (`package.rs:177`) or capped
(`views/dependency_graph.rs:120`), so which rows they leave out is any choice
(`Excerpts`, and `Read` for one that may fail). `PageLimit` is the same for the
memberships of the session.

`PkceLogin` has the browser's `loginCookie`, Shared Auth's `codes`, and for each
tab where it is, the ceremony its callback URL carries, the cookie its request
carried and the answer on its way. `SignIn`, `Redirected`, `AuthorityGrants`,
`CallBack`, `CallbackRefused`, `Redeem`, `Complete`, `Incomplete`, `Land` and
`LoseAnswer` are the ceremony, `FormSent` and `FormAnswered` the forms that use the
sanitiser on a Referer. `ReturnTarget` is the sanitiser over the bytes its rules
tell apart. The pages and the sign-ins share no variable but the startup's,
so a behaviour of `Site` follows one or the other, and follows the registry's changes
only where there is a database to read them from.

| Property | What it says |
|---|---|
| `WaitIsKept` | the wait for the database is what the environment asks for, within one pause and one attempt |
| `ShownWasGranted` | no page tells of what its viewer was at no time entitled to while it was made |
| `MemberIsNotRefused` | pages that recheck exact membership never tell a member of the organisation, nor of the project alone, that there is nothing, whichever query fails |
| `OfferedLinksLead` | what a page offers a member of the organisation leads there while nothing changes, save to what a bounded listing does not hold (`FitsTheListing`); a process without browser auth knows no members, and offers organisations it cannot lead to |
| `GraphOpensOnWhatIsThere` | a graph opens on an option it has, shows nothing that had been yanked, and counts what it leaves out |
| `EnrollmentIsTruthful` | sign-in, the choice of workspaces and the notice of a form say what is so, also when the API's answer is lost |
| `CodeMeetsItsVerifier` | a code is only presented with the verifier of its own sign-in |
| `ReturnsToItsOwnTarget` | a sign-in ends where that sign-in was asked to |
| `RedirectsStayLocal` | every decoding of where the browser is sent is a path of this origin, also beyond the sanitiser's depth |

## 3. Runs

| Run | Instance | Shows |
|---|---|---|
| `overlap` | two requests of every kind but private reads, two families of two principals, one rotation, clock stopped | the custody, stranding, stamp, owner and verdict properties under every overlap, and the refinement of `SingleUseHandle` |
| `serial` | one request of any kind, one family, four ticks, lifetime 3, recheck 1, skew 1, two rotations, `FairSpec` | what the probe deletes, how late a revocation is noticed, that every request is answered |
| `logout_race`, `timeout` | small instances | two disagreements of section 5 |
| `fetch_cache` | two reads, two documents of two versions, a cache of one, one disconnect, `FairSpec` | what the cache holds and serves, the chain, isolation of failures; reads settle |
| `fetch_race` | two reads of one document | the third disagreement of section 5 |
| `load` | three loads among three versions (one malformed) or three channels (all, stable, empty) and expansions, batches of two, at most four packages and two edges, two superseding steps, `FairSpec` | order of answers, limits, wholeness, the composed count, retries, the status line |
| `relay` | one request at a time by one viewer or nobody, latest and export routes, one version that comes and goes, a project, max-age of one tick | what is cached is public; outsiders learn nothing; how old the latest version may be |
| `site` | every kind of environment, a database without browser auth included; one user, two organisations, two projects in one and one in the other, two packages, listings of one membership, one project and two packages, from a registry of a stranger's and one of an admin's, two changes; two tabs, two sign-ins, targets and Referers of up to three bytes and nested escapes | the properties of `Site` |
| `paged` | the same pages with a session listing of one membership and other listings that hold all, nothing changing | the fourth disagreement of section 5 |
| `explorer` | the panels: two packages (one too long for the server), results of up to four in pages of two, four events; the view: every graph of three packages, those of four with up to four edges, each opened with each structural query, and three workspaces of two choices whose visitor takes four steps | pages that are posted, the queries' answers, highlight and links |
| `rejected_fragment` | the panels alone | the fifth disagreement of section 5 |

*Bounds.* `MaxTime`, `MaxRotations`, `MaxVersion`, `MaxGeneration`,
`MaxSequence`, `MaxChanges`, `MaxCeremonies`, `MaxEvents` and `MaxSteps` cap
counters; `MaxSequence` also caps how many loads replace the graph. Two requests
are enough for every race of `BrowserSession`: its properties relate the jar, one
request and one rival for the same handle. One rotation lets one of two requests
spend the handle the other carries too; `serial` rotates twice. A private read
spends the handle and fails the way a mutation does, so `overlap` leaves it to
`serial`. A tick is no
shorter than the request timeout, so a request sees at most one (`Tick`'s guard).
The runs that stop the clock ask nothing about age; `serial`, which moves it, has
one request, enough for questions about a single cookie's dates.

A cache of one evicts at every second document. With two reads no run replaces a
cached document while another read waits for its revalidation; the proof of
`DeliveredIsAnswered` covers any number of reads. Three loads let a version, its
successor and an expansion overlap; the limits of `load` are chosen so that some
documents fit together and some do not. Slots are symmetric (`SYMMETRY`) in
`overlap`.

`GraphRelay`'s ages are capped where a larger one means the same (`Age`,
`Since`). Its visibility properties speak of one request and the cache it leaves
behind, so one request at a time is enough; the proofs cover any number. One
version that is the latest, is not, and is again ages like any other.

Handlers of pages share nothing but the database, so `Site` answers one request at
a time; two changes let a thing be granted and taken away, or the reverse, within
one page. `ScopeLimit` of one makes the second package of a topology one too
many. A member of both
organisations does not fit the session's listing of one, nor do the two projects of
`o1` that of their organisation, while a change away the member of one and the project
of `o2` do: `OfferedLinksLead` meets its exceptions and what they leave. The
two packages fit every listing, so that a topology may have one too many; that a
listing leaves packages out is in the proofs only. Two sign-ins are one and its rival
for the cookie. The paths go two escapes beyond what the sanitiser decodes.

A query of `GraphQueries` only sees a graph, so every graph of three packages
(self-loops included) and those of four with few edges meet every case of its
loops: a diamond, a cycle that is reached and one that is not, a tie. The
visitor's four steps fit a filter, a query, a change of version that is refused
and a restored link. One workspace has a part with a longest chain and one without,
and its links name a package that is gone: there a query keeps the package and the
highlight of before. A behaviour of `Explorer` follows the panels or the view.

*Deadlock* is checked for `BrowserSession`, whose browser always sends again.
`GraphRelay` starts requests for ever and checks it too. The explorer's runs end
when every slot or step is used, and a process of `Site` may refuse to start or
run out of changes and sign-ins, so there it is not.

*Fairness.* In `BrowserSession` only `Timeout(r)` is fair: the HTTP client has no
timeout (`src/proxy.rs` `client`), so an upstream may hang for ever, and the
router's `TimeoutLayer` is the one thing that guarantees an answer. In
`DocumentFetch` only `Run` (a promise reaction always runs) and `FetchRejected`
(the timer) are fair; nothing is assumed of the relay or of a body. In
`GraphWorkspace` `Continue(l)` is fair: a fetch settles one way or the other.
`OnlyABodyHoldsReadsUp` says what that takes, and that a body that stalls, which
no timer covers, is the one thing that can hold it up.

## 4. Proofs

Each is `THEOREM Spec => []...` for all values of the constants, from the named
assumptions of its module (bounds are naturals, sentinels are distinct from what
they stand beside, every family has an owner, organisations, projects and packages are finitely many, a graph
of the explorer is finite and a channel names a document once). TLC evaluates these assumptions in every run.

`BrowserSession`:

1. `TypeCorrect`: `Typed == TypeOK /\ PhaseOK` is inductive. `PhaseOK` says
   which of a request's slots are filled in which phase; without it a handler
   could be thought to rotate a cookie it does not have.
2. `HandleHasOneCustodian`: `Custody` adds `CookiesKnown` (nothing the browser
   holds is newer than Shared Auth's record) and `SingleCustody`. A refresh
   takes effect only on the accepted handle; by custody a handle that is
   accepted and in a cookie has no other custodian, so the successor has exactly
   one. `JarNeverGoesBack` is a corollary of the invariant before the step.
3. `BrowserIsNotStranded`: on top of custody, each request that holds a
   successor either sets it, deletes the cookie, or is counted in `stranded`.
4. `CookiesNameTheirOwner` and `StampsAreEvidence` share `CookiesAreMade`: every
   cookie existed before the step or was made from the handle in custody.
5. `VerdictsAreTrue`: strengthened by "a committed mutation's request is being
   answered".
6. `SessionImplementsHandleCustody`: initial states map to initial states; each
   action of the session is a stutter of `SingleUseHandle` or one of its steps.
   `Places` translates the mapping into one family's handles; custody makes the
   copy a refresh spends the only one there is to spend.
7. `RevocationDoesNotLinger`: `Noticed` dates the evidence. A stamp is no older
   than the skew and the tick of the callback that wrote it (`StampOK`), and a
   handler past its delegation began before the revocation, or relies on a stamp
   that was young when it began (`RequestOK`).
8. `ProbeSparesLiveSessions`, under the hypothesis `OneSlot` that the property's
   own scope names: `Serial`, the jar does not change under the only request. A
   deletion after a refresh is one after a refused delegation, by the status that
   `ContinuityFailure` looks at.

`DocumentFetch`:

1. `TypeCorrect`: `Typed` adds `ReadOK`: what a read holds at each place, that a
   304 names the captured document, that an answer which allows storage names a
   representation the relay gave leave to store, and what a result came from.
2. `DeliveriesAreTrue` is a part of `Typed`.
3. `OnlyStorableIsCached`: a step drops documents from the cache or adds one
   that by `ReadOK` may be stored.
4. `PrivateReadsAreSerial`: `ChainInOrder`, a read leaves the queue only when
   all before it have settled.
5. `ReadsEndForTheirOwnReasons`: step by step, from the guards of `Run` and of
   the steps that follow an answer.

`GraphWorkspace`:

1. `TypeCorrect`: `Typed` adds `LoadOK` and `ButtonOK`, which tie what a load
   captured to its kind and keep epochs in the past.
2. `DocumentsAreWholeOrRefused` (`DocumentsAreWhole` and `LimitsAreKept`): every
   step leaves the graph, clears it or adds one document that was accepted; the
   limits add the cardinality of a union.
3. `TheNewestLoadRules` (`LateAnswersLeaveNoTrace` and `TheLastChoiceIsShown`)
   rests on `Ordered`: what is in the graph was asked for no earlier than the
   load that cleared it (`AddedOK`), nothing is in it before a load cleared it (`ClearedOK`), and each
   load of the controls has a sequence number of its own (`ChoicesOK`).
4. `ExpansionsCanBeRetried` uses the epochs: a failure unmarks the node object
   it captured, and that object is in the graph only if the epoch is the same.
5. `TheCountIsTrue`: `Counted`. A load that rules cleared the graph and with it the
   counter; what it added, with the failures counted so far, is every source before
   the one it is at and the failures of its batch, which are counted before the
   loop comes to them (`FailedAhead`). A superseded load owns neither the graph
   nor the counter, and every change of either supersedes or belongs to the ruler.

`GraphRelay`:

1. `TypeCorrect`: `Typed` adds `RequestOK`: which requests have a version
   selected, and that an answer with a document names it.
2. `OnlyPublicIsCached`: `Consent`, an answer or an entry that may be stored
   carries both marks; it follows from `CacheControl` at the one step that
   writes it.
3. `OutsidersStayOutside`: `Views`, a request past a lookup is of a viewer who
   saw the package at that time, so `visible` is set before any status that only
   an authorized read reaches.
4. `LatestIsServedFresh`: `Timely`, at each place the selected version was the
   latest within the request's own time, and each entry within its age and one
   request's time; a tick moves both sides.

`Explorer`, for any graphs, any page size and any links:

1. `PostsAgree`: `InOrder`, the rows shown are a page of a result, and no request
   on the wire or waiting is one the server refuses. A page is clamped to those
   there are, and starts within the result (`PagesCover`); that a click keeps it so
   is by induction over the listeners the button has gathered.
2. `LinksReproduce`: `Viewed`, the graph shown is the chosen one or none and what
   is selected and pinned is of it. Opening a copied link then restores the same
   values field by field; the highlight is asked of the same graph with the same
   filters (`ResultDepends`), about the same package.
3. `HighlightAnswers`: `Said`, what is highlighted is what the code's query says of
   the graph shown, along the edges the filters leave, about the package it was asked
   of and from the start pinned then. It is inductive because every change of the
   filters or the graph asks again (`AgainSaid`) and no other step touches what the
   result depends on (`SaidDepends`). That what the query says is the right answer is
   the next module's matter.

`GraphQueriesProofs`, for any finite graph:

1. `WalkIsReach`: a walk finds exactly what is reachable. What it has seen is reachable
   and its queue has no package twice, so that every entry is looked at within as many
   steps as there are packages, and what was seen is closed.
2. `ShortestPathIsShortest`: breadth-first, the distances along the queue do not fall
   and differ by at most one, so the first path to reach the target is as short as any.
3. `LongestChainIsLongest`: a package is taken when all before it are, so in the
   order that results every edge leads forward, a chain is final when its end is taken,
   and no path visits a package twice. If packages are left over, each has one before it
   among them, and there is a cycle (`NoFirstMeansCycle`).
4. `CyclesAreCycles`: `Searching` says of the first search that what is expanded on its
   stack leads to all above it (`StackInOrder`), that no package is forgotten
   (`NoneForgotten`) and that whatever leads to a finished package is on a cycle with it
   or with one that finishes later (`FinishedLast`). Of the packages without a component
   the last to finish is then led to only from its own, so the walk backwards from it is
   its component and no more. `Rest` falls with each step, so the search ends.
5. `CentralIsChosen`: of the packages with edges, none outside the choice has more than
   one in it, and the choice is as large as the count or has them all.

`Site`, over any registry, users and things, and any environments:

1. `TypesAreKept`: `AllTyped` puts the types of the pages, the sign-ins and the
   start together with `Disclosure`, which says what a handler has read where.
2. `WaitHolds`: `WaitInv` bounds `elapsed` in each phase: what was begun in time
   ends within one pause and one attempt.
3. `CodesMeetTheirVerifiers`: `Ceremonial`, the state and the verifier of every
   login cookie there is (the browser's, one that was carried, one on its way) are
   of one ceremony; the callback compares the states.
4. `RedirectsDoNotLeave`: a target that passed is local through all the decodings the
   sanitiser looks at, up to one that leaves nothing to decode
   (`SanitizedStaysLocal`), and that one decodes to itself for ever
   (`PlainTextStays`, by induction over the text; `DecodingsSettle`, over the rounds).
5. `SignInsReturnHome`: `Bearings`, every login cookie there is names a sign-in there
   was, and the target of the tab that still waits for it; a callback is completed
   with the cookie of its own state.
6. `NothingIsDisclosed`: `Disclosure` adds `Known` (the viewer is known by what
   the cookie was granted, and what is granted now has been recorded in `past`) and
   `Permission` (where a handler is, it has read no more than its viewer was
   granted at some time). Each handler has a lemma for its queries.
7. `MembersAreNotRefused`, `GraphsOpenOnWhatIsThere` and
   `EnrollmentTellsTheTruth` share `Truth`: `Disclosure`, `Standing` (what stood
   since the request came still stands, and what the handler has read is true),
   `Errand` (where the handler is, why it is there: behind an organisation role
   that was not found, the viewer was at some time without it) and the verdicts.
8. `LinksLead`: `Trail`, while nothing changes a handler's readings are how things
   are, and every link of the page leads to a place its viewer's roles open (`Leads`),
   which the next handler looks up again. Listings may be of any length: one that fits
   is read whole (`PageIsWhole`), and the session's
   is whole if the memberships fit (`Abridged`); `FitsTheListing` asks that of the
   handlers that look something up in one, and of no other.

The provers have no induction over an operator. `Induction` in `SignInProofs` and
`GraphQueriesProofs` states it for a set of numbers, from `WFMin`, which is enough for the
recursive functions above: they exist for each argument, and what they yield follows.

Two properties were found wrong while they were proved, and both were the
properties' fault. `OfferedLinksLead` failed for a process with a database and no
browser auth, where nobody is a member of anything and the topology of a public
organisation is still linked; the run had no such environment and has one now.
`LinkReproducesView` compared the package a query was last asked about, which stays
behind when a longest chain cannot be asked of another one and is not what the
highlight is about; it compares the latter now, and the run has a workspace where
the two differ.

Only model-checked:

* the liveness properties `EveryRequestIsAnswered`, `OnlyABodyHoldsReadsUp` and
  `StatusSettles`, out of the prover's reach;
* what the runs of section 5 show, which are counterexamples.

## 5. Where code and documentation differ

* `logout_race`: a request in flight brings a rotated cookie back after a logout;
  `docs/shared-auth/README.md:209` says a logout clears the cookie and revokes
  its session.
* `timeout`: the timeout layer drops a handler after its refresh succeeded and
  loses the new handle; `docs/shared-auth-pkce-bff.md:50` says a downstream
  failure preserves it.
* `fetch_race`: the chain of private reads sends the next one when the browser
  has given up the one before, which the relay may still be handling with the
  same refresh handle; the comment at `assets/dependency-graph.js:1708` says the
  reads are serialized so that they cannot race.
* `paged`: `org_scope` of `console.rs` authorizes by the bounded listing of the
  session, so a member whose membership does not fit is told that their
  organisation does not exist; the comment of `exact_org_role` in `session.rs`
  says that authorization of an addressed resource must not depend on it.
* `rejected_fragment`: a panel's request is not aborted, because htmx keeps it
  with the body; the answer for the package selected before replaces the local
  rendering of the one selected now, whose own fragment is then refused;
  `dependency_graph_fragments.rs:6` says a rejected fragment leaves the local
  rendering in place.

Observed while modelling, and no document of the repository says otherwise:

* a logout answers the same redirect when the revocation failed
  (`browser_auth.rs:635-648`), so after an outage the family lives on with
  nobody holding its handle;
* a body that arrives after `disconnectedCallback` puts its document back into
  the emptied cache (it was storable, and is revalidated before use);
* `loadPackage` clears the graph before it checks the new document, so a refused
  one leaves an empty graph where a failed fetch leaves the old one (`LoadRefused`
  of `GraphView` has both);
* the body of an error answer is awaited after the timer was cleared
  (`dependency-graph.js:996`), so one that stalls holds its read and the chain;
* `project_settings` looks its project up in the bounded listing of the
  organisation (`console.rs:297`), so a project beyond it answers 404 although
  the home page, the project graph and its breadcrumb link to it (the package page
  takes care of the same, `package.rs:177`); `invite_project` finds its project
  the same way (`browser_auth.rs:775`) and is not modelled beyond its mutation;
* an expand button that is still on screen while another load is pending adds
  its document to the graph that replaces its node's; a superseded expansion
  leaves its node marked; a second click can unmark a node whose document the
  first one added;
* the coordinate check of an expansion leaves the registry out;
* fragment sequence numbers start again after a disconnect, so a fragment of
  before can be taken for one of after; a request that waits resolves its promise
  at once, so its controls are bound twice and one click on Next turns two pages,
  while the fragment that is swapped in later has dead Previous, Next and Inspect
  buttons;
* restoring a saved view or a link without a query, or with one that cannot be
  asked, leaves the highlight of before; pinning another start leaves the path
  from the old one highlighted while the copied link carries the new pin; a
  deselected canvas opens with its first root selected; Restore clicked twice while
  its version loads consumes the pending selection against the old graph; an
  expansion redraws without asking the query again;
* an account that cannot be read looks signed out to the settings page and absent
  to the console, because both use `resolve`; direct members of a project are
  offered, on their home page, project settings that answer 404; the breadcrumb of a public package
  leads a visitor who is no member to a dashboard that answers 404; the Download
  links of the package settings (`console.rs`) have no route, and its form sends an
  empty configuration;
* a sign-in that succeeds clears the login cookie also when it is a newer one of
  another tab, which is then answered 400; a failed callback keeps the cookie;
* dragging a node while a load replaces the graph throws in the pointer handler.

## 6. Plan

Of the plan of this project these are left:

1. The metadata queries of `GraphView` apart, with the dates and licenses they look
   at, and the selection by a hash.
2. The reverse proxy, as a function from a request to the request it forwards.

## 7. Not modelled

The HTML of views, static headers, Brotli negotiation and the reverse proxy keep
no state; the insight scripts present one loaded document and keep nothing across an
await; layout, zoom, search text and rendering of the explorer change neither
selection nor highlight.
Cookie signing is taken as sound. In `GraphRelay` no package is deleted and no
version's document changes (exact versions are immutable); an exact document that
was public stays in shared caches for the year its answer allows, also when its
package turns private, which is what the immutable policy means. The Quint model under `formal/` covers one
request of the mutation path; `BrowserSession` is written from the code.
In `GraphWorkspace` an edge is its two ends (the code also keys it by its
requirement), `loadPackage` without a version, which only sets the status line,
is left out, and so is `addDocument`'s view of a resolved document, which no load
asks for; `mapLimit`'s concurrency is any order of results. In `Site` the card of
limits on the package settings and the fields of forms are left out; a page's text
is what it shows, offers and says of itself. In `GraphView` a load is its start
and its end: what a scope shows between two batches is `GraphWorkspace`'s.
