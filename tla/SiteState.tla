------------------------------- MODULE SiteState -------------------------------
(***************************************************************************)
(* What the page handlers share: the registry database they read, the      *)
(* request being answered, session::resolve (src/session.rs) and the page  *)
(* shell (src/views/layout.rs).                                            *)
(*                                                                         *)
(* Every query is an await, and the registry may change at each.  Handlers *)
(* share nothing but the database, so one request at a time is enough.     *)
(* "admin" stands for the roles owner and admin, "member" for the others:  *)
(* the handlers tell no more apart.                                        *)
(***************************************************************************)
EXTENDS Startup, FiniteSets

CONSTANTS
  Users, Nobody,              \* principals with a session cookie, and no cookie
  Orgs, Projects, Packages,   \* names; an organisation or package may not exist
  OrgOf, ProjectOf,           \* where a project and a package belong
  None,                       \* no role, no project
  Releases,                   \* how many versions a package may get
  PageLimit,                  \* memberships that fit the session's listing
  ProjectLimit,               \* rows that fit a listing of projects
  PackageLimit,               \* rows that fit a listing of packages
  MaxChanges                  \* bound: changes of the registry in a behaviour

Things   == Orgs \cup Projects \cup Packages
Version  == Nat \ {0}
Roles    == {"admin", "member"}
Pages    == {"home", "search", "package", "dashboard", "org_settings",
             "project_settings", "package_settings", "settings", "org_graph",
             "project_graph", "entry", "choose", "individual", "organization"}
Posts    == {"enroll_individual", "enroll_organization"}
Asks     == [route : Pages \cup Posts, thing : Things \cup {None}]
Stages   == {"", "sign_in", "active", "unavailable"}
Notices  == {"", "Created", "Invalid", "Conflict", "Denied", "Unavailable"}
Statuses == {200, 303, 307, 400, 401, 403, 404, 408, 409, 422, 429, 500, 502, 503}

ASSUME SiteAssumption ==
  /\ IsFiniteSet(Orgs) /\ IsFiniteSet(Projects) /\ IsFiniteSet(Packages)
  /\ Orgs \cap Projects = {} /\ Orgs \cap Packages = {} /\ Projects \cap Packages = {}
  /\ OrgOf \in [Projects \cup Packages -> Orgs]
  /\ ProjectOf \in [Packages -> Projects \cup {None}]
  /\ \A p \in Packages : ProjectOf[p] # None => OrgOf[ProjectOf[p]] = OrgOf[p]
  /\ None \notin Things \cup Roles
  /\ Nobody \notin Users
  /\ Releases \in [Packages -> Nat]
  /\ PageLimit \in Nat \ {0} /\ ProjectLimit \in Nat \ {0} /\ PackageLimit \in Nat \ {0}
  /\ MaxChanges \in Nat

VARIABLES
  orgs,          \* registry: the organisations that exist
  role,          \* registry: each user's role in each organisation
  direct,        \* registry: the users with a role in a project itself
  visibility,    \* registry: "absent", "private" or "public"
  latest,        \* registry: latest_version, 0 before the first release
  yanked,        \* registry: the versions yanked, with their package
  changes,       \* how often the registry has changed
  at,            \* the await the handler is at; "idle" between requests
  req,           \* what was asked, and whose cookie came with it
  viewer,        \* the resolved session: its user, the listing of its roles,
                 \* and whether the account could not be read
  seen,          \* what the handler has read
  answer,        \* its answer
  failed,        \* history: a read of this request failed
  past,          \* history: what its user was granted at some time since it came
                 \* in, what stood all that time, what was yanked when it came,
                 \* and whether nothing changed
  offered,       \* history: what the last answer linked to, while nothing changed
  followed       \* history: the request follows such a link

registry == <<orgs, role, direct, visibility, latest, yanked>>
request  == <<at, req, viewer, seen, answer, failed>>
traces   == <<past, offered, followed>>

NoAsk    == [route |-> "none", thing |-> None, user |-> Nobody]
Anonymous == [user |-> Nobody, roles |-> [o \in Orgs |-> None], unavailable |-> FALSE]
NotSeen  == [visibility |-> "absent", latest |-> 0, role |-> None, direct |-> None,
             versions |-> {}, selected |-> 0, packages |-> {}, projects |-> {},
             rows |-> {}, created |-> FALSE, status |-> 0, notice |-> ""]
NoPast   == [ever |-> {}, always |-> {}, yanked |-> {}, calm |-> TRUE]

\* An answer: the packages, projects and organisations it tells of, and where it
\* leads; the rest is of the pages that have it.
Page(status, shows, offers) ==
  [status |-> status, shows |-> shows, offers |-> offers, selected |-> 0,
   versions |-> {}, sources |-> {}, omitted |-> 0, stage |-> "", notice |-> ""]
Message(status) == Page(status, {}, {})
NoAnswer == Message(0)

-----------------------------------------------------------------------------
(* The registry, and who is granted what. *)

Roster(u) == IF u = Nobody THEN [o \in Orgs |-> None] ELSE role[u]
MemberOf(u) == {o \in Orgs : Roster(u)[o] # None}
DirectOf(u) == {j \in Projects : <<u, j>> \in direct}
Published == {p \in Packages : visibility[p] = "public"}
Present   == {p \in Packages : visibility[p] # "absent"}

Grants(u) == MemberOf(u) \cup DirectOf(u) \cup Published
Stands(u) == MemberOf(u) \cup DirectOf(u) \cup Present

\* The things a grant covers.
Covered(grants) ==
  grants \cup {t \in Projects \cup Packages : OrgOf[t] \in grants}
         \cup {p \in Packages : ProjectOf[p] \in grants}

\* A change of the registry, in the middle of a request or between two.
Change ==
  /\ phase = "serving"
  /\ changes < MaxChanges
  /\ changes' = changes + 1
  /\ UNCHANGED <<startupVars, request>>

Remember ==
  /\ past' = IF at = "idle" THEN past
             ELSE [past EXCEPT !.ever   = @ \cup Grants(req.user)',
                               !.always = @ \cap Stands(req.user)',
                               !.calm   = FALSE]
  /\ offered' = {}
  /\ followed' = FALSE

ChangeRole(u, o, r) ==
  /\ Change
  /\ o \in orgs
  /\ role' = [role EXCEPT ![u][o] = r]
  /\ UNCHANGED <<orgs, direct, visibility, latest, yanked>>
  /\ Remember

ChangeDirect(u, j) ==
  /\ Change
  /\ OrgOf[j] \in orgs
  /\ direct' = IF <<u, j>> \in direct THEN direct \ {<<u, j>>}
               ELSE direct \cup {<<u, j>>}
  /\ UNCHANGED <<orgs, role, visibility, latest, yanked>>
  /\ Remember

ChangeVisibility(p, v) ==
  /\ Change
  /\ OrgOf[p] \in orgs
  /\ visibility' = [visibility EXCEPT ![p] = v]
  /\ UNCHANGED <<orgs, role, direct, latest, yanked>>
  /\ Remember

Release(p) ==
  /\ Change
  /\ latest[p] < Releases[p]
  /\ latest' = [latest EXCEPT ![p] = @ + 1]
  /\ UNCHANGED <<orgs, role, direct, visibility, yanked>>
  /\ Remember

Yank(p) ==
  /\ Change
  /\ latest[p] # 0
  /\ yanked' = yanked \cup {<<p, latest[p]>>}
  /\ UNCHANGED <<orgs, role, direct, visibility, latest>>
  /\ Remember

RegistryChanges ==
  \/ \E u \in Users, o \in Orgs, r \in Roles \cup {None} : ChangeRole(u, o, r)
  \/ \E u \in Users, j \in Projects : ChangeDirect(u, j)
  \/ \E p \in Packages, v \in {"absent", "private", "public"} : ChangeVisibility(p, v)
  \/ \E p \in Packages : Release(p) \/ Yank(p)

-----------------------------------------------------------------------------
(* A request comes in, and its answer goes out. *)

Arrive(u, ask) ==
  /\ phase = "serving"
  /\ at = "idle"
  /\ at' = IF ask.route \in Posts THEN "enroll" ELSE "resolve"
  /\ req' = [route |-> ask.route, thing |-> ask.thing, user |-> u]
  /\ past' = [ever |-> Grants(u), always |-> Stands(u), yanked |-> yanked, calm |-> TRUE]
  /\ followed' = (<<u, ask>> \in offered)
  /\ offered' = {}
  /\ UNCHANGED <<startupVars, registry, changes, viewer, seen, answer, failed>>

Deliver ==
  /\ at = "answered"
  /\ at' = "idle"
  /\ offered' = IF past.calm THEN {req.user} \X answer.offers ELSE {}
  /\ req' = NoAsk /\ viewer' = Anonymous /\ seen' = NotSeen
  /\ answer' = NoAnswer /\ failed' = FALSE /\ past' = NoPast /\ followed' = FALSE
  /\ UNCHANGED <<startupVars, registry, changes>>

\* What a handler's step leaves alone, and its two ways to go on.
Handling == UNCHANGED <<startupVars, registry, changes, req, traces>>

Goto(place) == at' = place /\ UNCHANGED answer
Respond(page) == at' = "answered" /\ answer' = page

\* The timeout layer answers for a handler that takes too long.
Timeout ==
  /\ at \notin {"idle", "answered"}
  /\ Respond(Message(408))
  /\ Handling
  /\ UNCHANGED <<viewer, seen, failed>>

-----------------------------------------------------------------------------
(* session::resolve_account *)

\* session_subject: without browser auth no cookie is read.
Subject == IF auth = "none" THEN Nobody ELSE req.user

\* orgs_for_user returns a page of the memberships.
Listings(u) ==
  {roles \in [Orgs -> Roles \cup {None}] :
     /\ \A o \in Orgs : roles[o] \in {Roster(u)[o], None}
     /\ LET listed == {o \in Orgs : roles[o] # None}
        IN  Cardinality(listed) = PageLimit \/ listed = MemberOf(u)
     /\ Cardinality({o \in Orgs : roles[o] # None}) <= PageLimit}

\* Both queries: the user projection, then the memberships.
Resolve ==
  /\ at = "resolve"
  /\ \/ /\ Subject = Nobody
        /\ UNCHANGED <<viewer, failed>>
     \/ /\ Subject # Nobody /\ db
        /\ \E roles \in Listings(Subject) :
             viewer' = [user |-> Subject, roles |-> roles, unavailable |-> FALSE]
        /\ UNCHANGED failed
     \/ /\ Subject # Nobody
        /\ viewer' = [Anonymous EXCEPT !.unavailable = TRUE]
        /\ failed' = TRUE
  /\ Goto(req.route)
  /\ Handling
  /\ UNCHANGED seen

SignedIn == viewer.user # Nobody
Listed   == {o \in Orgs : viewer.roles[o] # None}

\* Viewer::can_administer: by the listing of the session.
CanAdminister(o) == viewer.roles[o] = "admin"

\* The read layer caps its listings: of more rows than fit, it says which.
Excerpts(rows, limit) ==
  {page \in SUBSET rows : \/ page = rows /\ Cardinality(rows) <= limit
                          \/ Cardinality(page) = limit}

\* A listing that could not be read is taken for an empty one.
Read(ok, rows, limit) == IF ok THEN Excerpts(rows, limit) ELSE {{}}

\* The results a query may have; a failed one is "failed".
ExactOrgRole(o) ==
  IF SignedIn THEN {role[viewer.user][o], "failed"} ELSE {None}
ExactProjectRole(j) ==
  IF SignedIn
  THEN {IF <<viewer.user, j>> \in direct THEN "member" ELSE None, "failed"}
  ELSE {None}

-----------------------------------------------------------------------------
(* views/layout.rs: the links of the page shell, with the page's context. *)

Link(route, thing) == [route |-> route, thing |-> thing]

Breadcrumb(context) ==
  CASE context = None         -> {}
    [] context \in Orgs       -> {Link("dashboard", context)}
    [] context \in Projects   -> {Link("dashboard", OrgOf[context]),
                                  Link("project_settings", context)}
    [] context \in Packages   -> {Link("dashboard", OrgOf[context]),
                                  Link("package", context)}

\* Mutant: the menu is that of every signed-in viewer.
CreateMenuForAll(context) ==
  {Link("org_settings", o) : o \in ({context} \cap Orgs)
     \cup {OrgOf[t] : t \in {context} \cap (Projects \cup Packages)}}

\* Its entries for an organisation appear where the viewer may administer it.
CreateMenu(context) ==
  {Link("org_settings", o) : o \in {q \in Orgs :
     CanAdminister(q) /\ \/ context = q
                         \/ context \in Projects \cup Packages /\ OrgOf[context] = q}}

AccountMenu == {Link("dashboard", o) : o \in Listed} \cup {Link("settings", None)}

Layout(context) ==
  Breadcrumb(context)
    \cup {Link("individual", None), Link("organization", None)}
    \cup (IF SignedIn THEN CreateMenu(context) \cup AccountMenu ELSE {})

\* A page in its shell, which names the organisations of the viewer's listing.
Render(status, context, shows, offers) ==
  Page(status, shows \cup Listed, offers \cup Layout(context))

\* What the handlers answer instead of their page.
MessagePage(status) == Render(status, None, {}, {})
================================================================================
