----------------------------- MODULE RegistryPages -----------------------------
(***************************************************************************)
(* The pages over the registry: home, search, the package page and the     *)
(* signed-in console (src/routes/home.rs, search.rs, package.rs and        *)
(* console.rs).  One action for each query, in the order of the handler.   *)
(***************************************************************************)
EXTENDS SiteState

Target == req.thing

\* The outcome of a query that only succeeds or fails.
Outcomes == {"ok", "failed"}
Note(outcome) == failed' = (failed \/ outcome = "failed")
Remains == UNCHANGED <<viewer, seen>>

-----------------------------------------------------------------------------
(* Home and search. *)

\* projects_for_user
ProjectsOfViewer ==
  {j \in Projects : <<viewer.user, j>> \in direct \/ role[viewer.user][OrgOf[j]] # None}

\* The listing of the session, and the projects.
HomeOfViewer(projects) ==
  Render(200, None, projects,
         {Link("project_settings", j) : j \in projects}
           \cup (IF Listed = {} THEN {Link("choose", None)} ELSE {}))

\* A list of packages, each with its link.
PackageRows(packages) ==
  Render(200, None, packages, {Link("package", p) : p \in packages})

\* Signed out, the home page has the newest public packages.
Home ==
  /\ at = "home"
  /\ \E outcome \in Outcomes :
       LET ok == db /\ outcome = "ok"
       IN  /\ Note(outcome)
           /\ \/ /\ SignedIn
                 /\ \E projects \in Read(ok, ProjectsOfViewer, ProjectLimit) :
                      Respond(HomeOfViewer(projects))
              \/ /\ ~SignedIn
                 /\ \E recent \in Read(ok, Published, PackageLimit) : Respond(PackageRows(recent))
  /\ Handling /\ Remains

\* Viewer::visible_org_ids: from the session, never from the query.
SearchScope == Listed

Search ==
  /\ at = "search"
  /\ \E outcome \in Outcomes :
       /\ Note(outcome)
       /\ \E shown \in Read(db /\ outcome = "ok",
                             Published \cup {p \in Present : OrgOf[p] \in SearchScope},
                             PackageLimit) :
            Respond(PackageRows(shown))
  /\ Handling /\ Remains

-----------------------------------------------------------------------------
(* The package page. *)

FindPackage ==
  /\ at = "package"
  /\ \/ /\ ~db
        /\ Respond(MessagePage(503)) /\ UNCHANGED <<seen, failed>>
     \/ /\ db
        /\ failed' = TRUE /\ Respond(MessagePage(503)) /\ UNCHANGED seen
     \/ /\ db /\ visibility[Target] = "absent"
        /\ Respond(MessagePage(404)) /\ UNCHANGED <<seen, failed>>
     \/ /\ db /\ visibility[Target] # "absent"
        /\ seen' = [seen EXCEPT !.visibility = visibility[Target],
                                !.latest = latest[Target]]
        /\ Goto("package_org_role") /\ UNCHANGED failed
  /\ Handling
  /\ UNCHANGED viewer

IsPublic == seen.visibility = "public"

\* Mutant: a private package is shown to whoever is signed in.
PermittedSignedIn(orgRole, projectRole) == IsPublic \/ SignedIn

\* A public package is for all; a private one for either kind of member.
Permitted(orgRole, projectRole) == IsPublic \/ orgRole # None \/ projectRole # None

\* Missing and unauthorized coordinates are one 404.
Authorize(orgRole, projectRole) ==
  IF Permitted(orgRole, projectRole)
  THEN /\ Goto("package_versions")
       /\ seen' = [seen EXCEPT !.role = orgRole, !.direct = projectRole]
  ELSE Respond(MessagePage(404)) /\ UNCHANGED seen

\* A role that cannot be read hides a private page and costs a public one only
\* its links.
PackageOrgRole ==
  /\ at = "package_org_role"
  /\ \E result \in ExactOrgRole(OrgOf[Target]) :
       /\ Note(result)
       /\ LET orgRole == IF result = "failed" THEN None ELSE result
          IN  IF result = "failed" /\ ~IsPublic
              THEN Respond(MessagePage(503)) /\ UNCHANGED seen
              ELSE IF orgRole = None /\ ProjectOf[Target] # None
              THEN Goto("package_project_role") /\ UNCHANGED seen
              ELSE Authorize(orgRole, None)
  /\ Handling
  /\ UNCHANGED viewer

PackageProjectRole ==
  /\ at = "package_project_role"
  /\ \E result \in ExactProjectRole(ProjectOf[Target]) :
       /\ Note(result)
       /\ IF result = "failed" /\ ~IsPublic
          THEN Respond(MessagePage(503)) /\ UNCHANGED seen
          ELSE Authorize(None, IF result = "failed" THEN None ELSE result)
  /\ Handling
  /\ UNCHANGED viewer

\* versions_for_package lists a page of the versions; the licenses come with
\* a query of their own that may fail alike.
PackageVersions ==
  /\ at = "package_versions"
  /\ \/ /\ failed' = TRUE /\ Respond(MessagePage(503)) /\ UNCHANGED seen
     \/ /\ \E versions \in SUBSET (1 .. latest[Target]) :
             seen' = [seen EXCEPT !.versions = versions]
        /\ Goto(IF seen.latest = 0 THEN "package_project" ELSE "package_latest")
        /\ UNCHANGED failed
  /\ Handling
  /\ UNCHANGED viewer

\* Mutant: the workspace opens on what the package's row says.
SelectedUnread(p, version) == version

\* The exact lookup: a version yanked since the package was read is not opened.
Selected(p, version) == IF <<p, version>> \in yanked THEN 0 ELSE version

PackageLatest ==
  /\ at = "package_latest"
  /\ \/ /\ failed' = TRUE /\ Respond(MessagePage(503)) /\ UNCHANGED seen
     \/ /\ seen' = [seen EXCEPT !.selected = Selected(Target, seen.latest)]
        /\ Goto("package_project")
        /\ UNCHANGED failed
  /\ Handling
  /\ UNCHANGED viewer

\* Mutants: the options are the versions the listing had; what the workspace
\* opens on is added without asking whether it opens at all.
VersionOptionsListed == seen.versions

VersionOptionsAlways == seen.versions \cup {seen.selected}

\* The workspace's options: the listing, and what it opens on.
VersionOptions ==
  seen.versions \cup (IF seen.selected = 0 THEN {} ELSE {seen.selected})

\* Links to the project, the organisation and the settings for who has the role.
PackagePage(project) ==
  [Render(200, Target, {Target} \cup project,
          {Link("project_graph", j) : j \in project}
            \cup (IF seen.role # None THEN {Link("org_graph", OrgOf[Target])} ELSE {})
            \cup (IF seen.role = "admin" THEN {Link("package_settings", Target)} ELSE {}))
   EXCEPT !.selected = seen.selected, !.versions = VersionOptions]

\* The project of the package by its identity, for its members and those of the
\* organisation, if it is a project of that organisation.
PackageProject ==
  /\ at = "package_project"
  /\ \E outcome \in Outcomes :
       LET j == ProjectOf[Target]
           asked == (seen.role # None \/ seen.direct # None) /\ j # None
       IN  /\ IF asked THEN Note(outcome) ELSE UNCHANGED failed
           /\ Respond(PackagePage(
                IF asked /\ outcome = "ok"
                THEN {k \in {j} : OrgOf[k] = OrgOf[Target]} ELSE {}))
  /\ Handling /\ Remains

-----------------------------------------------------------------------------
(* The console.  org_scope authorizes by the listing of the session. *)

OrgAddressed == IF Target \in Orgs THEN Target ELSE OrgOf[Target]

\* The project that is addressed, or that a package is filed under.
ProjectAddressed ==
  IF Target \in Projects THEN Target
  ELSE IF Target \in Packages THEN ProjectOf[Target] ELSE None

\* Viewer::can_see_private
InScope(o) == o \in orgs /\ viewer.roles[o] # None

\* Only an owner or admin configures an organisation or a package.
MayConfigure(o) == CanAdminister(o)

AfterScope ==
  CASE at = "dashboard"        -> "dashboard_projects"
    [] at = "project_settings" -> "project_settings_project"
    [] at = "package_settings" -> "package_settings_package"

\* An organisation that cannot be read is one that does not exist.
OrgScope ==
  /\ at \in {"dashboard", "org_settings", "project_settings", "package_settings"}
  /\ \E outcome \in Outcomes :
       /\ IF db THEN Note(outcome) ELSE UNCHANGED failed
       /\ IF ~db THEN Respond(MessagePage(503))
          ELSE IF outcome = "failed" \/ ~InScope(OrgAddressed)
          THEN Respond(MessagePage(404))
          ELSE IF at \in {"org_settings", "package_settings"} /\ ~MayConfigure(OrgAddressed)
          THEN Respond(MessagePage(403))
          ELSE IF at = "org_settings"
          THEN Respond(Render(200, Target, {Target}, {}))
          ELSE Goto(AfterScope)
  /\ Handling /\ Remains

\* The listings for members include what is private.
InOrg(o, set) == {t \in set : OrgOf[t] = o}

\* projects_for_org, and packages_for_org.
DashboardProjects ==
  /\ at = "dashboard_projects"
  /\ \E outcome \in Outcomes :
       /\ Note(outcome)
       /\ \E projects \in Read(outcome = "ok", InOrg(Target, Projects), ProjectLimit) :
            seen' = [seen EXCEPT !.projects = projects]
  /\ Goto("dashboard_packages")
  /\ Handling
  /\ UNCHANGED viewer

DashboardPackages ==
  /\ at = "dashboard_packages"
  /\ \E outcome \in Outcomes :
       /\ Note(outcome)
       /\ \E packages \in Read(outcome = "ok", InOrg(Target, Present), PackageLimit) :
            Respond(Render(200, Target, {Target} \cup seen.projects \cup packages,
              {Link("org_graph", Target)}
                \cup (IF CanAdminister(Target) THEN {Link("org_settings", Target)} ELSE {})
                \cup {Link("project_settings", j) : j \in seen.projects}
                \cup {Link("package", p) : p \in packages}))
  /\ Handling /\ Remains

\* The project is looked for in the organisation's listing: one that does not fit
\* in it, or whose listing cannot be read, is one that does not exist.
ProjectSettingsProject ==
  /\ at = "project_settings_project"
  /\ \E outcome \in Outcomes :
       /\ Note(outcome)
       /\ \E projects \in Read(outcome = "ok", InOrg(OrgOf[Target], Projects), ProjectLimit) :
            IF Target \in projects THEN Goto("project_settings_packages")
            ELSE Respond(MessagePage(404))
  /\ Handling /\ Remains

ProjectSettingsPackages ==
  /\ at = "project_settings_packages"
  /\ \E outcome \in Outcomes :
       /\ Note(outcome)
       /\ \E packages \in Read(outcome = "ok", {p \in Present : ProjectOf[p] = Target},
                                PackageLimit) :
            Respond(Render(200, Target, {OrgOf[Target], Target} \cup packages,
              {Link("project_graph", Target), Link("dashboard", OrgOf[Target])}
                \cup {Link("package", p) : p \in packages}))
  /\ Handling /\ Remains

\* The package, and then the limits of its promotion, which may stay unknown.
PackageSettings ==
  /\ at = "package_settings_package"
  /\ \E outcome \in Outcomes :
       /\ Note(outcome)
       /\ Respond(IF outcome = "failed" \/ visibility[Target] = "absent" THEN MessagePage(404)
                  ELSE Render(200, Target, {OrgOf[Target], Target}, {Link("package", Target)}))
  /\ Handling /\ Remains

\* user_settings: whoever cannot be resolved is sent to sign in.
UserSettings ==
  /\ at = "settings"
  /\ Respond(IF SignedIn
             THEN Render(200, None, {}, {Link("dashboard", o) : o \in Listed})
             ELSE Message(307))
  /\ Handling /\ Remains
  /\ UNCHANGED failed

RegistryPagesNext ==
  \/ Home \/ Search
  \/ FindPackage \/ PackageOrgRole \/ PackageProjectRole \/ PackageVersions
  \/ PackageLatest \/ PackageProject
  \/ OrgScope \/ DashboardProjects \/ DashboardPackages
  \/ ProjectSettingsProject \/ ProjectSettingsPackages \/ PackageSettings
  \/ UserSettings
================================================================================
