---------------------------------- MODULE Site ----------------------------------
(***************************************************************************)
(* The web process as a whole: it starts, and then answers one request     *)
(* after another with the pages of the modules this one composes, while    *)
(* the registry changes under it.                                          *)
(***************************************************************************)
EXTENDS Enrollment, PkceLogin

CONSTANT Registries   \* what the registry may hold at the start

ASSUME RegistriesAssumption ==
  /\ Registries \subseteq
       [orgs : SUBSET Orgs, role : [Users -> [Orgs -> Roles \cup {None}]],
        direct : SUBSET (Users \X Projects),
        visibility : [Packages -> {"absent", "private", "public"}],
        latest : [Packages -> Nat]]
  /\ \A r \in Registries, u \in Users, o \in Orgs : r.role[u][o] # None => o \in r.orgs
  /\ \A r \in Registries, u \in Users, j \in Projects : <<u, j>> \in r.direct => OrgOf[j] \in r.orgs

pageVars == <<registry, changes, request, traces>>
vars == <<startupVars, pageVars, signInVars>>

\* Where a link of the site may lead.
AskedOf(route) ==
  CASE route \in {"package", "package_settings"}                -> Packages
    [] route \in {"project_settings", "project_graph"}          -> Projects
    [] route \in {"dashboard", "org_settings", "org_graph"} \cup Posts -> Orgs
    [] OTHER                                                    -> {None}

Ask(route, thing) == [route |-> route, thing |-> thing]

Init ==
  /\ StartupInit
  /\ \E r \in Registries :
       /\ orgs = r.orgs /\ role = r.role /\ direct = r.direct
       /\ visibility = r.visibility /\ latest = r.latest /\ yanked = {}
  /\ changes = 0
  /\ at = "idle" /\ req = NoAsk /\ viewer = Anonymous /\ seen = NotSeen
  /\ answer = NoAnswer /\ failed = FALSE
  /\ past = NoPast /\ offered = {} /\ followed = FALSE
  /\ SignInInit

Starting == StartupNext /\ UNCHANGED <<pageVars, signInVars>>

Asking == \E u \in Users \cup {Nobody}, route \in Pages \cup Posts :
            \E thing \in AskedOf(route) : Arrive(u, Ask(route, thing))

Answering ==
  \/ Resolve \/ RegistryPagesNext \/ GraphPagesNext \/ EnrollmentNext
  \/ Timeout \/ Deliver

\* Bound: a behaviour follows pages or sign-ins, which share no variable but the
\* startup's; the sign-ins in a process that has no database, which they do not
\* use, and the changes of the registry in one that has, as no other reads it.
Paging ==
  /\ ceremonies = 0 /\ \A t \in Tabs : tab[t] = "page"
  /\ (db /\ RegistryChanges) \/ Asking \/ Answering
  /\ UNCHANGED signInVars

SigningIn ==
  /\ phase = "serving" /\ auth # "none" /\ ~env.database
  /\ changes = 0 /\ at = "idle" /\ offered = {}
  /\ SignInNext
  /\ UNCHANGED <<startupVars, pageVars>>

Next == Starting \/ Paging \/ SigningIn

Spec == Init /\ [][Next]_vars

-----------------------------------------------------------------------------
TypeOK ==
  /\ StartupTypeOK
  /\ orgs \subseteq Orgs
  /\ role \in [Users -> [Orgs -> Roles \cup {None}]]
  /\ direct \subseteq Users \X Projects
  /\ visibility \in [Packages -> {"absent", "private", "public"}]
  /\ latest \in [Packages -> Nat]
  /\ yanked \subseteq Packages \X Nat
  /\ changes \in 0 .. MaxChanges
  /\ req.user \in Users \cup {Nobody}
  /\ viewer.user \in Users \cup {Nobody}
  /\ viewer.roles \in [Orgs -> Roles \cup {None}]
  /\ answer.status \in Statuses \cup {0}
  /\ answer.offers \subseteq Asks
  /\ answer.versions \subseteq Version
  /\ past.ever \subseteq Things /\ past.always \subseteq Things
  /\ SignInTypeOK

Answered == at = "answered"

\* No page tells a viewer of anything they were granted at no time while it was
\* made: a package that was neither public nor theirs, a project or an
\* organisation they had no role in, whatever changed between two queries.
ShownWasGranted == Answered => answer.shows \subseteq Covered(past.ever)

\* The pages that recheck exact membership (package, organisation graph, project
\* graph) never tell a member of the organisation, nor for the package and project
\* pages one of the project alone, that what is there is not, whichever of their
\* queries fail, once the session is resolved.
MemberIsNotRefused ==
  /\ Answered /\ viewer.user # Nobody
  /\ req.route \in {"package", "org_graph", "project_graph"}
  /\ {OrgAddressed, ProjectAddressed} \cap past.always # {}
  /\ req.thing \in past.always \cup Projects
  => answer.status # 404

\* Authorization of an addressed resource does not depend on whether the
\* membership fits the session's listing (exact_org_role of session.rs): a member
\* all along, with no query failing, is never told there is nothing.
AuthorizationIsNotPaged ==
  /\ Answered /\ viewer.user # Nobody /\ ~failed
  /\ req.thing # None
  /\ req.route \notin Posts
  /\ OrgAddressed \in past.always
  /\ req.thing \in past.always \cup Projects
  => answer.status # 404

\* The console looks a membership up in the session's listing, and a project in
\* that of its organisation.
ConsoleRoutes == {"dashboard", "org_settings", "project_settings", "package_settings"}

FitsTheListing ==
  /\ req.route \in ConsoleRoutes => Cardinality(MemberOf(req.user)) <= PageLimit
  /\ req.route = "project_settings" =>
       Cardinality(InOrg(OrgAddressed, Projects)) <= ProjectLimit

\* What a page offers a member of the organisation (breadcrumb, menus, buttons)
\* leads there while nothing changes and no query fails: never to a 403 or a 404.
\* Two kinds of link are excepted where a listing does not hold what they name: to
\* the console, for the member of more organisations than the session lists, and to
\* a project's settings in an organisation with more projects than a listing
\* holds.  A process without browser auth knows no member.
OfferedLinksLead ==
  /\ Answered /\ followed /\ ~failed
  /\ req.thing # None => auth # "none" /\ OrgAddressed \in past.always
  /\ FitsTheListing
  => answer.status \notin {403, 404}

\* A graph opens on what is there.  The workspace of a package page opens on one
\* of its own options, although they come from a listing that is read apart and
\* need not hold it; neither it nor a source of a topology is a version that had
\* been yanked when the page was asked for, although the package's row goes on
\* naming it as its latest; and a topology shows every published package its
\* queries found, or says how many it leaves out.
GraphOpensOnWhatIsThere ==
  Answered =>
    /\ answer.selected # 0 => /\ answer.selected \in answer.versions
                              /\ <<req.thing, answer.selected>> \notin past.yanked
    /\ answer.sources \cap past.yanked = {}
    /\ answer.sources # {} =>
         Cardinality(answer.sources) + answer.omitted = Cardinality(seen.rows)

\* Enrollment tells its visitor the truth.  Sign-in is asked of those without a
\* session only, and a page without workspaces shown only to who was without one
\* at some time; what the notice calls created was created by this form, and what
\* it calls refused was not, although the API's answer may be lost.
EnrollmentIsTruthful ==
  Answered =>
    /\ answer.stage = "sign_in" => req.user = Nobody
    /\ answer.stage = "active" /\ answer.shows = {} => past.always \cap Orgs = {}
    /\ answer.notice = "Created" => seen.created
    /\ answer.notice \in {"Invalid", "Conflict", "Denied"} => ~seen.created
================================================================================
