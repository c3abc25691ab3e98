----------------------------- MODULE SiteProofs -----------------------------
(***************************************************************************)
(* What the pages of the site tell, for every environment and registry:    *)
(* nothing but what their viewer was granted, and nothing but the truth;   *)
(* what they are, and where their links lead.                              *)
(***************************************************************************)
EXTENDS SignInProofs, FiniteSetTheorems

-----------------------------------------------------------------------------
(* What the pages tell. *)

\* The things an address names, by where the handler is.
PackagePlaces == {"package", "package_org_role", "package_project_role",
                  "package_versions", "package_latest", "package_project",
                  "package_settings", "package_settings_package"}
ConsolePlaces == {"dashboard_projects", "dashboard_packages",
                  "project_settings_project", "project_settings_packages",
                  "package_settings_package"}
OrgPlaces     == {"dashboard", "dashboard_projects", "dashboard_packages",
                  "org_settings", "org_graph", "enroll", "enroll_created"} \cup Posts
ProjectPlaces == {"project_settings", "project_settings_project",
                  "project_settings_packages", "project_graph", "graph_project",
                  "graph_project_role"}
ReadPlaces    == {"graph_packages", "graph_versions", "graph_licenses"}

Fits(place, thing) ==
  /\ place \in PackagePlaces => thing \in Packages
  /\ place \in OrgPlaces => thing \in Orgs
  /\ place \in ProjectPlaces => thing \in Projects
  /\ place \in ReadPlaces \cup {"graph_org_role"} => thing \in Orgs \cup Projects

SeenFields == {"visibility", "latest", "role", "direct", "versions", "selected",
               "packages", "projects", "rows", "created", "status", "notice"}
PastFields == {"ever", "always", "yanked", "calm"}

\* The registry, and a viewer who is known by what the cookie was granted.
Known ==
  /\ role \in [Users -> [Orgs -> Roles \cup {None}]]
  /\ direct \subseteq Users \X Projects
  /\ DOMAIN seen = SeenFields /\ DOMAIN past = PastFields
  /\ req = [route |-> req.route, thing |-> req.thing, user |-> req.user]
  /\ req.user \in Users \cup {Nobody}
  /\ at = "idle" => viewer = Anonymous
  /\ at # "idle" => Grants(req.user) \subseteq past.ever
  /\ viewer.user \in {req.user, Nobody}
  /\ \A o \in Orgs : viewer.roles[o] # None => o \in past.ever

\* Where the handler is, it has read no more than its viewer was granted.
Permission ==
  /\ Fits(at, req.thing)
  /\ at \in {"resolve", "enroll", "enroll_created"} =>
       req.route \in Pages \cup Posts /\ Fits(req.route, req.thing)
  /\ at \in {"package_org_role", "package_project_role"} /\ IsPublic
       => Target \in past.ever
  /\ at \in {"package_versions", "package_latest", "package_project"} =>
       /\ Target \in Covered(past.ever)
       /\ seen.role # None => OrgOf[Target] \in past.ever
       /\ seen.direct # None => ProjectOf[Target] \in past.ever
  /\ at \in ConsolePlaces => OrgAddressed \in past.ever
  /\ at = "dashboard_packages" => seen.projects \subseteq InOrg(Target, Projects)
  /\ at \in ReadPlaces => Target \in past.ever \/ OrgAddressed \in past.ever
  /\ at \in {"graph_versions", "graph_licenses"} =>
       \A row \in seen.rows :
         row[1] \in Packages /\ (OrgOf[row[1]] = Target \/ ProjectOf[row[1]] = Target)

Disclosure == Known /\ Permission /\ ShownWasGranted

LEMMA Addressed ==
  ASSUME NEW thing \in Things
  PROVE  LET o == IF thing \in Orgs THEN thing ELSE OrgOf[thing]
         IN  /\ o \in Orgs
             /\ thing \in Orgs => o = thing
             /\ thing \in Projects \cup Packages => o = OrgOf[thing]
BY SiteAssumption DEF Things

\* A step of a handler that leaves its viewer alone.
LEMMA HandlingKeepsKnown ==
  ASSUME Disclosure, at # "idle", at' # "idle", Handling, UNCHANGED viewer,
         DOMAIN seen' = SeenFields
  PROVE  Known'
BY DEF Disclosure, Known, Handling, registry, traces, Grants, MemberOf, DirectOf,
       Roster, Published

\* An answer that tells of nothing else is an end.
LEMMA AnswerKeepsDisclosure ==
  ASSUME Known', at' = "answered", answer'.shows \subseteq Covered(past.ever)'
  PROVE  Disclosure'
BY DEF Disclosure, Permission, Fits, PackagePlaces, ConsolePlaces, OrgPlaces,
       ProjectPlaces, ReadPlaces, Posts, ShownWasGranted, Answered

LEMMA ListedIsGranted ==
  ASSUME Known
  PROVE  Listed \subseteq past.ever /\ past.ever \subseteq Covered(past.ever)
BY DEF Known, Listed, Covered

LEMMA Shows ==
  /\ \A status, context, shows, offers :
       Render(status, context, shows, offers).shows = shows \cup Listed
  /\ \A status : MessagePage(status).shows = Listed
  /\ \A status : Message(status).shows = {}
BY DEF Render, MessagePage, Message, Page

\* A refusal or a page that tells of what is covered, whichever query it follows.
LEMMA PageKeepsDisclosure ==
  ASSUME Disclosure, at # "idle", Handling, UNCHANGED viewer,
         DOMAIN seen' = SeenFields, at' = "answered",
         answer'.shows \subseteq Covered(past.ever)
  PROVE  Disclosure'
BY HandlingKeepsKnown, AnswerKeepsDisclosure DEF Handling, traces, Covered

LEMMA MessageKeepsDisclosure ==
  ASSUME Disclosure, at # "idle", Handling, UNCHANGED viewer,
         DOMAIN seen' = SeenFields,
         NEW status, Respond(MessagePage(status)) \/ Respond(Message(status))
  PROVE  Disclosure'
BY PageKeepsDisclosure, ListedIsGranted, Shows DEF Respond, Disclosure

\* A change of the registry in the middle of a request, remembered.
LEMMA RememberKeepsDisclosure ==
  ASSUME Disclosure, Remember,
         role' \in [Users -> [Orgs -> Roles \cup {None}]],
         direct' \subseteq Users \X Projects,
         UNCHANGED <<at, req, viewer, seen, answer>>
  PROVE  Disclosure'
<1>1. DOMAIN past' = PastFields /\ past.ever \subseteq past'.ever
      /\ (at # "idle" => Grants(req.user)' \subseteq past'.ever)
  BY DEF Remember, Disclosure, Known, PastFields
<1>2. Covered(past.ever) \subseteq Covered(past.ever)'
  BY <1>1 DEF Covered
<1>3. Known'
  BY <1>1 DEF Disclosure, Known
<1>4. Permission'
  BY <1>1, <1>2 DEF Disclosure, Permission, IsPublic, Target, OrgAddressed, InOrg
<1>5. ShownWasGranted'
  BY <1>2 DEF Disclosure, ShownWasGranted, Answered
<1>6. QED
  BY <1>3, <1>4, <1>5 DEF Disclosure

LEMMA ChangeKeepsDisclosure ==
  ASSUME Disclosure, RegistryChanges
  PROVE  Disclosure'
<1>1. Remember /\ UNCHANGED <<at, req, viewer, seen, answer>>
  BY DEF RegistryChanges, ChangeRole, ChangeDirect, ChangeVisibility, Release, Yank,
     Change, request
<1>2. role' \in [Users -> [Orgs -> Roles \cup {None}]]
  <2>1. CASE role' = role
    BY <2>1 DEF Disclosure, Known
  <2>2. ASSUME NEW u \in Users, NEW o \in Orgs, NEW r \in Roles \cup {None},
               role' = [role EXCEPT ![u][o] = r]
        PROVE  role' \in [Users -> [Orgs -> Roles \cup {None}]]
    BY <2>2 DEF Disclosure, Known
  <2>3. QED
    BY <2>1, <2>2 DEF RegistryChanges, ChangeRole, ChangeDirect, ChangeVisibility,
       Release, Yank
<1>3. direct' \subseteq Users \X Projects
  <2>1. CASE direct' = direct
    BY <2>1 DEF Disclosure, Known
  <2>2. ASSUME NEW u \in Users, NEW j \in Projects,
               direct' = IF <<u, j>> \in direct THEN direct \ {<<u, j>>}
                         ELSE direct \cup {<<u, j>>}
        PROVE  direct' \subseteq Users \X Projects
    <3>1. direct \subseteq Users \X Projects /\ <<u, j>> \in Users \X Projects
      BY DEF Disclosure, Known
    <3>2. QED
      BY <2>2, <3>1
  <2>3. QED
    BY <2>1, <2>2 DEF RegistryChanges, ChangeRole, ChangeDirect, ChangeVisibility,
       Release, Yank
<1>4. QED
  BY <1>1, <1>2, <1>3, RememberKeepsDisclosure

LEMMA ArriveKeepsDisclosure ==
  ASSUME Disclosure, Asking
  PROVE  Disclosure'
<1>0. PICK u \in Users \cup {Nobody}, route \in Pages \cup Posts :
        \E thing \in AskedOf(route) : Arrive(u, Ask(route, thing))
  BY DEF Asking
<1>1. PICK thing \in AskedOf(route) : Arrive(u, Ask(route, thing))
  BY <1>0
<1>2. Fits(route, thing)
  BY SiteAssumption DEF AskedOf, Fits, PackagePlaces, OrgPlaces, ProjectPlaces,
     ReadPlaces, Pages, Posts
<1>3. /\ at = "idle" /\ viewer = Anonymous
      /\ at' = IF route \in Posts THEN "enroll" ELSE "resolve"
      /\ req' = [route |-> route, thing |-> thing, user |-> u]
      /\ past' = [ever |-> Grants(u), always |-> Stands(u), yanked |-> yanked, calm |-> TRUE]
      /\ UNCHANGED <<role, direct, visibility, viewer, seen, answer>>
  BY <1>1 DEF Arrive, Ask, registry, Disclosure, Known
<1>4. Grants(req.user)' = Grants(u)
  BY <1>3 DEF Grants, MemberOf, DirectOf, Roster, Published
<1>5. Known'
  BY <1>3, <1>4 DEF Disclosure, Known, PastFields, Anonymous
<1>6. Permission'
  BY <1>2, <1>3 DEF Permission, Fits, PackagePlaces, ConsolePlaces, OrgPlaces,
     ProjectPlaces, ReadPlaces, Pages, Posts
<1>7. QED
  BY <1>3, <1>5, <1>6 DEF Disclosure, ShownWasGranted, Answered

LEMMA DeliverKeepsDisclosure ==
  ASSUME Disclosure, Deliver
  PROVE  Disclosure'
<1>1. /\ at' = "idle" /\ req' = NoAsk /\ viewer' = Anonymous /\ seen' = NotSeen
      /\ past' = NoPast /\ UNCHANGED <<role, direct>>
  BY DEF Deliver, registry
<1>2. Known'
  BY <1>1 DEF Disclosure, Known, NoAsk, Anonymous, NotSeen, NoPast, SeenFields, PastFields
<1>3. Permission'
  BY <1>1 DEF Permission, Fits, PackagePlaces, ConsolePlaces, OrgPlaces, ProjectPlaces,
     ReadPlaces, Posts
<1>4. QED
  BY <1>1, <1>2, <1>3 DEF Disclosure, ShownWasGranted, Answered

\* The listing of the session is of what its user was granted when it was read.
LEMMA ResolveKeepsDisclosure ==
  ASSUME Disclosure, Resolve
  PROVE  Disclosure'
<1>1. at = "resolve" /\ at' = req.route /\ Handling /\ UNCHANGED seen
      /\ req.route \in Pages \cup Posts /\ Fits(req.route, req.thing)
  BY DEF Resolve, Goto, Disclosure, Permission
<1>2. /\ viewer'.user \in {req.user, Nobody}
      /\ \A o \in Orgs : viewer'.roles[o] # None => o \in past.ever
  <2>1. CASE Subject = Nobody /\ UNCHANGED viewer
    BY <2>1 DEF Disclosure, Known
  <2>2. ASSUME NEW roles \in Listings(Subject), Subject # Nobody,
               viewer' = [user |-> Subject, roles |-> roles, unavailable |-> FALSE]
        PROVE  /\ viewer'.user \in {req.user, Nobody}
               /\ \A o \in Orgs : viewer'.roles[o] # None => o \in past.ever
    <3>1. Subject = req.user
      BY <2>2 DEF Subject
    <3>2. \A o \in Orgs : roles[o] # None => o \in MemberOf(Subject)
      BY <2>2 DEF Listings, MemberOf
    <3>3. MemberOf(Subject) \subseteq past.ever
      BY <1>1, <3>1 DEF Disclosure, Known, Grants
    <3>4. QED
      BY <2>2, <3>1, <3>2, <3>3
  <2>3. CASE viewer' = [Anonymous EXCEPT !.unavailable = TRUE]
    BY <2>3 DEF Anonymous
  <2>4. QED
    BY <2>1, <2>2, <2>3 DEF Resolve
<1>3. at' \in Pages \cup Posts /\ UNCHANGED <<req, past, role, direct, visibility>>
  BY <1>1 DEF Handling, registry, traces
<1>4. Known'
  BY <1>1, <1>2, <1>3 DEF Disclosure, Known, Grants, MemberOf, DirectOf, Roster,
     Published, Pages, Posts
<1>5. Permission'
  BY <1>1, <1>3 DEF Permission, Fits, ConsolePlaces, ReadPlaces, Pages, Posts
<1>6. QED
  BY <1>3, <1>4, <1>5 DEF Disclosure, ShownWasGranted, Answered, Pages, Posts

\* A handler that goes on has to have the permission of its next place.
LEMMA GoOnKeepsDisclosure ==
  ASSUME Disclosure, at # "idle", at' \notin {"idle", "answered"}, Handling,
         UNCHANGED viewer, DOMAIN seen' = SeenFields, Permission'
  PROVE  Disclosure'
BY HandlingKeepsKnown DEF Disclosure, ShownWasGranted, Answered

\* What a viewer has a role in, or all may see, is granted.
LEMMA RolesAreGranted ==
  ASSUME Disclosure, at # "idle"
  PROVE  /\ \A o \in Orgs : SignedIn /\ role[viewer.user][o] # None => o \in past.ever
         /\ \A j \in Projects :
              SignedIn /\ <<viewer.user, j>> \in direct => j \in past.ever
         /\ \A p \in Packages : visibility[p] = "public" => p \in past.ever
BY DEF Disclosure, Known, SignedIn, Grants, MemberOf, DirectOf, Roster, Published

\* A listing tells of nothing else than the rows it is of.
LEMMA ReadOfRows ==
  ASSUME NEW rows, NEW ok, NEW limit
  PROVE  /\ \A page \in Excerpts(rows, limit) : page \subseteq rows
         /\ \A page \in Read(ok, rows, limit) : page \subseteq rows
BY DEF Excerpts, Read

LEMMA HomeKeepsDisclosure ==
  ASSUME Disclosure, Home \/ Search
  PROVE  Disclosure'
<1>1. at \in {"home", "search"} /\ Handling /\ Remains /\ at' = "answered"
  BY DEF Home, Search, Respond
<1>2. answer'.shows \subseteq Covered(past.ever)
  <2>1. CASE Home
    <3>1. SignedIn => ProjectsOfViewer \subseteq Covered(past.ever)
      BY <1>1, RolesAreGranted, SiteAssumption DEF ProjectsOfViewer, Covered
    <3>2. Published \subseteq Covered(past.ever)
      BY <1>1, RolesAreGranted DEF Published, Covered
    <3>3. PICK outcome \in Outcomes :
            \/ /\ SignedIn
               /\ \E projects \in Read(db /\ outcome = "ok", ProjectsOfViewer, ProjectLimit) :
                    Respond(HomeOfViewer(projects))
            \/ /\ ~SignedIn
               /\ \E recent \in Read(db /\ outcome = "ok", Published, PackageLimit) :
                    Respond(PackageRows(recent))
      BY <2>1 DEF Home
    <3>4. \/ SignedIn /\ answer'.shows \subseteq ProjectsOfViewer \cup Listed
          \/ ~SignedIn /\ answer'.shows \subseteq Published \cup Listed
      <4>1. ASSUME SignedIn, NEW projects \in Read(db /\ outcome = "ok", ProjectsOfViewer, ProjectLimit),
                   Respond(HomeOfViewer(projects))
            PROVE  answer'.shows \subseteq ProjectsOfViewer \cup Listed
        BY <4>1, ReadOfRows, Shows DEF Respond, HomeOfViewer
      <4>2. ASSUME NEW recent \in Read(db /\ outcome = "ok", Published, PackageLimit),
                   Respond(PackageRows(recent))
            PROVE  answer'.shows \subseteq Published \cup Listed
        BY <4>2, ReadOfRows, Shows DEF Respond, PackageRows
      <4>3. QED
        BY <3>3, <4>1, <4>2
    <3>5. QED
      BY <3>1, <3>2, <3>4, ListedIsGranted DEF Disclosure
  <2>2. CASE Search
    <3> DEFINE found == Published \cup {p \in Present : OrgOf[p] \in SearchScope}
    <3>0. PICK outcome \in Outcomes :
            \E shown \in Read(db /\ outcome = "ok", found, PackageLimit) : Respond(PackageRows(shown))
      BY <2>2 DEF Search
    <3>1. answer'.shows \subseteq found \cup Listed
      <4> HIDE DEF found
      <4>1. QED
        BY <3>0, ReadOfRows, Shows DEF Respond, PackageRows
    <3>2. found \subseteq Covered(past.ever)
      BY <1>1, RolesAreGranted, ListedIsGranted
         DEF Disclosure, Published, Present, Covered, SearchScope
    <3>3. QED
      BY <3>1, <3>2, ListedIsGranted DEF Disclosure
  <2>3. QED
    BY <2>1, <2>2
<1>3. QED
  BY <1>1, <1>2, PageKeepsDisclosure DEF Remains, Disclosure, Known

\* The package page: what the handler knows of the package, and as whom.
LEMMA FindKeepsDisclosure ==
  ASSUME Disclosure, FindPackage
  PROVE  Disclosure'
<1>1. at = "package" /\ Handling /\ UNCHANGED viewer /\ DOMAIN seen = SeenFields
      /\ Target \in Packages /\ UNCHANGED <<req, past>>
  BY DEF FindPackage, Handling, traces, Disclosure, Known, Permission, Fits,
     PackagePlaces, Target
<1>2. ASSUME UNCHANGED seen, NEW status, Respond(MessagePage(status))
      PROVE  Disclosure'
  BY <1>1, <1>2, MessageKeepsDisclosure
<1>3. ASSUME seen' = [seen EXCEPT !.visibility = visibility[Target],
                                  !.latest = latest[Target]],
             Goto("package_org_role")
      PROVE  Disclosure'
  <2>1. DOMAIN seen' = SeenFields /\ seen'.visibility = visibility[Target]
        /\ at' = "package_org_role"
    BY <1>1, <1>3 DEF SeenFields, Goto
  <2>2. IsPublic' => Target \in past.ever
    BY <1>1, <2>1, RolesAreGranted DEF IsPublic
  <2>3. Permission'
    BY <1>1, <2>1, <2>2 DEF Permission, Fits, PackagePlaces, ConsolePlaces, OrgPlaces,
       ProjectPlaces, ReadPlaces, Posts, Target
  <2>4. QED
    BY <1>1, <2>1, <2>3, GoOnKeepsDisclosure
<1>4. QED
  BY <1>2, <1>3 DEF FindPackage

LEMMA AuthorizeKeepsDisclosure ==
  ASSUME Disclosure, at \in {"package_org_role", "package_project_role"}, Handling,
         UNCHANGED viewer, NEW orgRole, NEW projectRole,
         orgRole # None => OrgOf[Target] \in past.ever,
         projectRole # None => ProjectOf[Target] \in past.ever,
         Authorize(orgRole, projectRole)
  PROVE  Disclosure'
<1>1. Target \in Packages /\ DOMAIN seen = SeenFields /\ UNCHANGED <<req, past>>
  BY DEF Disclosure, Known, Permission, Fits, PackagePlaces, Target, Handling, traces
<1>2. CASE Permitted(orgRole, projectRole)
  <2>1. at' = "package_versions"
        /\ seen' = [seen EXCEPT !.role = orgRole, !.direct = projectRole]
    BY <1>2 DEF Authorize, Goto
  <2>2. DOMAIN seen' = SeenFields /\ seen'.role = orgRole /\ seen'.direct = projectRole
    BY <1>1, <2>1 DEF SeenFields
  <2>3. Target \in Covered(past.ever)
    BY <1>1, <1>2 DEF Permitted, Covered, Disclosure, Permission
  <2>4. Permission'
    BY <1>1, <2>1, <2>2, <2>3 DEF Permission, Fits, PackagePlaces, ConsolePlaces,
       OrgPlaces, ProjectPlaces, ReadPlaces, Posts, Target, Covered
  <2>5. QED
    BY <2>1, <2>2, <2>4, GoOnKeepsDisclosure
<1>3. CASE ~Permitted(orgRole, projectRole)
  BY <1>1, <1>3, MessageKeepsDisclosure DEF Authorize
<1>4. QED
  BY <1>2, <1>3

LEMMA PackageRolesKeepDisclosure ==
  ASSUME Disclosure, PackageOrgRole \/ PackageProjectRole
  PROVE  Disclosure'
<1>1. at \in {"package_org_role", "package_project_role"} /\ Handling /\ UNCHANGED viewer
      /\ Target \in Packages /\ OrgOf[Target] \in Orgs /\ DOMAIN seen = SeenFields
      /\ UNCHANGED <<req, past>>
  BY SiteAssumption DEF PackageOrgRole, PackageProjectRole, Disclosure, Known, Permission,
     Fits, PackagePlaces, Target, Handling, traces
<1>2. ASSUME UNCHANGED seen, NEW status, Respond(MessagePage(status))
      PROVE  Disclosure'
  BY <1>1, <1>2, MessageKeepsDisclosure
<1>3. ASSUME at = "package_org_role", UNCHANGED seen, Goto("package_project_role")
      PROVE  Disclosure'
  <2>1. Permission'
    BY <1>1, <1>3 DEF Goto, Disclosure, Permission, Fits, PackagePlaces, ConsolePlaces,
       OrgPlaces, ProjectPlaces, ReadPlaces, Posts, Target, IsPublic
  <2>2. QED
    BY <1>1, <1>3, <2>1, GoOnKeepsDisclosure DEF Goto
<1>4. CASE PackageOrgRole
  <2>1. PICK result \in ExactOrgRole(OrgOf[Target]) :
          LET orgRole == IF result = "failed" THEN None ELSE result
          IN  IF result = "failed" /\ ~IsPublic
              THEN Respond(MessagePage(503)) /\ UNCHANGED seen
              ELSE IF orgRole = None /\ ProjectOf[Target] # None
              THEN Goto("package_project_role") /\ UNCHANGED seen
              ELSE Authorize(orgRole, None)
    BY <1>4 DEF PackageOrgRole
  <2> DEFINE orgRole == IF result = "failed" THEN None ELSE result
  <2>2. orgRole # None => OrgOf[Target] \in past.ever
    BY <1>1, <2>1, RolesAreGranted DEF ExactOrgRole
  <2>3. CASE Authorize(orgRole, None)
    BY <1>1, <2>2, <2>3, AuthorizeKeepsDisclosure
  <2>4. at = "package_org_role"
    BY <1>4 DEF PackageOrgRole
  <2>5. QED
    BY <1>2, <1>3, <2>1, <2>3, <2>4
<1>5. CASE PackageProjectRole
  <2>1. PICK result \in ExactProjectRole(ProjectOf[Target]) :
          IF result = "failed" /\ ~IsPublic
          THEN Respond(MessagePage(503)) /\ UNCHANGED seen
          ELSE Authorize(None, IF result = "failed" THEN None ELSE result)
    BY <1>5 DEF PackageProjectRole
  <2> DEFINE projectRole == IF result = "failed" THEN None ELSE result
  <2>2. projectRole # None => ProjectOf[Target] \in past.ever
    <3>1. SUFFICES ASSUME projectRole # None PROVE ProjectOf[Target] \in past.ever
      OBVIOUS
    <3>2. SignedIn /\ <<viewer.user, ProjectOf[Target]>> \in direct
      BY <2>1, <3>1 DEF ExactProjectRole
    <3>3. ProjectOf[Target] \in Projects
      BY <3>2 DEF Disclosure, Known
    <3>4. QED
      BY <1>1, <3>2, <3>3, RolesAreGranted
  <2>3. CASE Authorize(None, projectRole)
    BY <1>1, <2>2, <2>3, AuthorizeKeepsDisclosure
  <2>4. QED
    BY <1>2, <2>1, <2>3
<1>6. QED
  BY <1>4, <1>5

LEMMA PackageReadsKeepDisclosure ==
  ASSUME Disclosure, PackageVersions \/ PackageLatest \/ PackageProject
  PROVE  Disclosure'
<1>1. at \in {"package_versions", "package_latest", "package_project"}
      /\ Handling /\ UNCHANGED viewer /\ DOMAIN seen = SeenFields
      /\ Target \in Packages /\ UNCHANGED <<req, past>>
      /\ Target \in Covered(past.ever)
      /\ (seen.role # None => OrgOf[Target] \in past.ever)
      /\ (seen.direct # None => ProjectOf[Target] \in past.ever)
  BY DEF PackageVersions, PackageLatest, PackageProject, Remains, Disclosure, Known,
     Permission, Fits, PackagePlaces, Target, Handling, traces
<1>2. ASSUME UNCHANGED seen, NEW status, Respond(MessagePage(status))
      PROVE  Disclosure'
  BY <1>1, <1>2, MessageKeepsDisclosure
<1>3. ASSUME DOMAIN seen' = SeenFields, seen'.role = seen.role, seen'.direct = seen.direct,
             at' \in {"package_latest", "package_project"}
      PROVE  Disclosure'
  <2>1. Permission'
    BY <1>1, <1>3 DEF Permission, Fits, PackagePlaces, ConsolePlaces, OrgPlaces,
       ProjectPlaces, ReadPlaces, Posts, Target
  <2>2. QED
    BY <1>1, <1>3, <2>1, GoOnKeepsDisclosure
<1>4. CASE PackageVersions
  <2>1. ASSUME NEW versions, seen' = [seen EXCEPT !.versions = versions]
        PROVE  DOMAIN seen' = SeenFields /\ seen'.role = seen.role
               /\ seen'.direct = seen.direct
    BY <1>1, <2>1 DEF SeenFields
  <2>2. QED
    BY <1>2, <1>3, <1>4, <2>1 DEF PackageVersions, Goto
<1>5. CASE PackageLatest
  <2>1. ASSUME seen' = [seen EXCEPT !.selected = Selected(Target, seen.latest)]
        PROVE  DOMAIN seen' = SeenFields /\ seen'.role = seen.role
               /\ seen'.direct = seen.direct
    BY <1>1, <2>1 DEF SeenFields
  <2>2. QED
    BY <1>2, <1>3, <1>5, <2>1 DEF PackageLatest, Goto
<1>6. CASE PackageProject
  <2> DEFINE j == ProjectOf[Target]
             asked == (seen.role # None \/ seen.direct # None) /\ j # None
  <2>1. PICK outcome \in Outcomes :
          Respond(PackagePage(IF asked /\ outcome = "ok"
                              THEN {k \in {j} : OrgOf[k] = OrgOf[Target]} ELSE {}))
    BY <1>6 DEF PackageProject
  <2> DEFINE project == IF asked /\ outcome = "ok"
                        THEN {k \in {j} : OrgOf[k] = OrgOf[Target]} ELSE {}
  <2>2. project \subseteq Covered(past.ever)
    <3>1. asked => j \in Projects
      BY <1>1, SiteAssumption
    <3>2. QED
      BY <1>1, <3>1 DEF Covered
  <2>3. PackagePage(project).shows = {Target} \cup project \cup Listed
    BY DEF PackagePage, Render, Page
  <2>4. answer'.shows \subseteq Covered(past.ever) /\ at' = "answered"
    <3> HIDE DEF project
    <3>1. answer' = PackagePage(project) /\ at' = "answered"
      BY <2>1 DEF Respond, project
    <3>2. QED
      BY <1>1, <2>2, <2>3, <3>1, ListedIsGranted DEF Disclosure
  <2>5. UNCHANGED seen
    BY <1>6 DEF PackageProject, Remains
  <2>6. QED
    BY <1>1, <2>4, <2>5, PageKeepsDisclosure
<1>7. QED
  BY <1>4, <1>5, <1>6

\* The console authorizes by the listing, which is of what was granted.
LEMMA ScopeKeepsDisclosure ==
  ASSUME Disclosure, OrgScope
  PROVE  Disclosure'
<1>1. /\ at \in {"dashboard", "org_settings", "project_settings", "package_settings"}
      /\ Handling /\ UNCHANGED <<viewer, seen, req, past>> /\ DOMAIN seen = SeenFields
      /\ Fits(at, Target)
  BY DEF OrgScope, Remains, Disclosure, Known, Permission, Target, Handling, traces
<1>2. Target \in Things
  BY <1>1 DEF Fits, PackagePlaces, OrgPlaces, ProjectPlaces, Things
<1>3. OrgAddressed \in Orgs /\ (Target \in Orgs => OrgAddressed = Target)
  BY <1>2, Addressed DEF OrgAddressed
<1>4. ASSUME NEW status, Respond(MessagePage(status)) PROVE Disclosure'
  BY <1>1, <1>4, MessageKeepsDisclosure
<1>5. InScope(OrgAddressed) => OrgAddressed \in past.ever
  BY <1>3 DEF InScope, Disclosure, Known
<1>6. ASSUME InScope(OrgAddressed), at = "org_settings",
             Respond(Render(200, Target, {Target}, {}))
      PROVE  Disclosure'
  <2>1. Target \in past.ever
    BY <1>1, <1>3, <1>5, <1>6 DEF Fits, OrgPlaces
  <2>2. answer'.shows \subseteq Covered(past.ever) /\ at' = "answered"
    BY <1>6, <2>1, ListedIsGranted, Shows DEF Respond, Disclosure
  <2>3. QED
    BY <1>1, <2>2, PageKeepsDisclosure
<1>7. ASSUME InScope(OrgAddressed), at # "org_settings", Goto(AfterScope)
      PROVE  Disclosure'
  <2>1. at' = CASE at = "dashboard"        -> "dashboard_projects"
                [] at = "project_settings" -> "project_settings_project"
                [] at = "package_settings" -> "package_settings_package"
    BY <1>7 DEF Goto, AfterScope
  <2>2. Permission'
    BY <1>1, <1>5, <1>7, <2>1 DEF Permission, Fits, PackagePlaces, ConsolePlaces,
       OrgPlaces, ProjectPlaces, ReadPlaces, Posts, Target, OrgAddressed
  <2>3. QED
    BY <1>1, <1>7, <2>1, <2>2, GoOnKeepsDisclosure
<1>8. QED
  BY <1>1, <1>4, <1>6, <1>7 DEF OrgScope

LEMMA ConsoleKeepsDisclosure ==
  ASSUME Disclosure,
         \/ DashboardProjects \/ DashboardPackages \/ ProjectSettingsProject
         \/ ProjectSettingsPackages \/ PackageSettings
  PROVE  Disclosure'
<1>1. /\ at \in ConsolePlaces /\ Handling /\ UNCHANGED <<viewer, req, past>>
      /\ DOMAIN seen = SeenFields /\ Fits(at, Target) /\ OrgAddressed \in past.ever
  BY DEF DashboardProjects, DashboardPackages, ProjectSettingsProject,
     ProjectSettingsPackages, PackageSettings, Remains, ConsolePlaces, Disclosure, Known,
     Permission, Target, Handling, traces
<1>2. Target \in Things
  BY <1>1 DEF Fits, PackagePlaces, OrgPlaces, ProjectPlaces, ConsolePlaces, Things
<1>3. \A t \in Projects \cup Packages : OrgOf[t] = OrgAddressed => t \in Covered(past.ever)
  BY <1>1 DEF Covered
<1>4. OrgAddressed \in Covered(past.ever) /\ Target \in Covered(past.ever)
  BY <1>1, <1>2, <1>3, Addressed DEF OrgAddressed, Covered, Things
<1>5. ASSUME UNCHANGED seen, at' = "answered", answer'.shows \subseteq Covered(past.ever)
      PROVE  Disclosure'
  BY <1>1, <1>5, PageKeepsDisclosure DEF ConsolePlaces
<1>6. CASE DashboardProjects
  <2>1. PICK outcome \in Outcomes :
          \E projects \in Read(outcome = "ok", InOrg(Target, Projects), ProjectLimit) :
            seen' = [seen EXCEPT !.projects = projects]
    BY <1>6 DEF DashboardProjects
  <2>2. at = "dashboard_projects" /\ at' = "dashboard_packages" /\ DOMAIN seen' = SeenFields
        /\ seen'.projects \subseteq InOrg(Target, Projects)
    BY <1>1, <1>6, <2>1, ReadOfRows DEF DashboardProjects, Goto, SeenFields
  <2>3. Permission'
    BY <1>1, <2>2 DEF Permission, Fits, PackagePlaces, ConsolePlaces, OrgPlaces,
       ProjectPlaces, ReadPlaces, Posts, Target, OrgAddressed, InOrg
  <2>4. QED
    BY <1>1, <2>2, <2>3, GoOnKeepsDisclosure
<1>7. CASE DashboardPackages
  <2>1. Target \in Orgs /\ OrgAddressed = Target /\ UNCHANGED seen
        /\ seen.projects \subseteq InOrg(Target, Projects)
    BY <1>1, <1>7 DEF DashboardPackages, Remains, Fits, OrgPlaces, OrgAddressed,
       Disclosure, Permission
  <2>2. InOrg(Target, Projects) \subseteq Covered(past.ever)
        /\ InOrg(Target, Present) \subseteq Covered(past.ever)
    BY <1>3, <2>1 DEF InOrg, Present
  <2>3. PICK outcome \in Outcomes :
          \E packages \in Read(outcome = "ok", InOrg(Target, Present), PackageLimit) :
            Respond(Render(200, Target, {Target} \cup seen.projects \cup packages,
              {Link("org_graph", Target)}
                \cup (IF CanAdminister(Target) THEN {Link("org_settings", Target)} ELSE {})
                \cup {Link("project_settings", j) : j \in seen.projects}
                \cup {Link("package", p) : p \in packages}))
    BY <1>7 DEF DashboardPackages
  <2>4. at' = "answered"
        /\ answer'.shows \subseteq {Target} \cup seen.projects \cup InOrg(Target, Present)
                                     \cup Listed
    BY <2>3, ReadOfRows, Shows DEF Respond
  <2>5. QED
    BY <1>4, <1>5, <2>1, <2>2, <2>4, ListedIsGranted DEF Disclosure
<1>8. CASE ProjectSettingsProject
  <2>1. at = "project_settings_project" /\ UNCHANGED seen
    BY <1>8 DEF ProjectSettingsProject, Remains
  <2>2. ASSUME Goto("project_settings_packages") PROVE Disclosure'
    <3>1. Permission'
      BY <1>1, <2>1, <2>2 DEF Goto, Permission, Fits, PackagePlaces, ConsolePlaces,
         OrgPlaces, ProjectPlaces, ReadPlaces, Posts, Target, OrgAddressed
    <3>2. QED
      BY <1>1, <2>1, <2>2, <3>1, GoOnKeepsDisclosure DEF Goto
  <2>3. ASSUME Respond(MessagePage(404)) PROVE Disclosure'
    BY <1>1, <2>1, <2>3, MessageKeepsDisclosure
  <2>4. QED
    BY <1>8, <2>2, <2>3 DEF ProjectSettingsProject
<1>9. CASE ProjectSettingsPackages
  <2>1. Target \in Projects /\ OrgAddressed = OrgOf[Target] /\ UNCHANGED seen
    BY <1>1, <1>2, <1>9, Addressed DEF ProjectSettingsPackages, Remains, Fits,
       ProjectPlaces, OrgAddressed
  <2> DEFINE inIt == {p \in Present : ProjectOf[p] = Target}
  <2>2. inIt \subseteq Covered(past.ever)
    BY <1>3, <2>1, SiteAssumption DEF Present, Things
  <2>3. PICK outcome \in Outcomes :
          \E packages \in Read(outcome = "ok", inIt, PackageLimit) :
            Respond(Render(200, Target, {OrgOf[Target], Target} \cup packages,
              {Link("project_graph", Target), Link("dashboard", OrgOf[Target])}
                \cup {Link("package", p) : p \in packages}))
    BY <1>9 DEF ProjectSettingsPackages
  <2>4. at' = "answered"
        /\ answer'.shows \subseteq {OrgOf[Target], Target} \cup inIt \cup Listed
    <3> HIDE DEF inIt
    <3>1. QED
      BY <2>3, ReadOfRows, Shows DEF Respond
  <2>5. QED
    BY <1>4, <1>5, <2>1, <2>2, <2>4, ListedIsGranted DEF Disclosure
<1>10. CASE PackageSettings
  <2>1. Target \in Packages /\ OrgAddressed = OrgOf[Target] /\ UNCHANGED seen
    BY <1>1, <1>2, <1>10, Addressed DEF PackageSettings, Remains, Fits,
       PackagePlaces, OrgAddressed
  <2>2. at' = "answered" /\ answer'.shows \subseteq {OrgOf[Target], Target} \cup Listed
    BY <1>10, Shows DEF PackageSettings, Respond
  <2>3. QED
    BY <1>4, <1>5, <2>1, <2>2, ListedIsGranted DEF Disclosure
<1>11. QED
  BY <1>6, <1>7, <1>8, <1>9, <1>10

LEMMA SettingsKeepDisclosure ==
  ASSUME Disclosure, UserSettings
  PROVE  Disclosure'
<1>1. at = "settings" /\ Handling /\ UNCHANGED <<viewer, seen>> /\ DOMAIN seen = SeenFields
  BY DEF UserSettings, Remains, Disclosure, Known
<1>2. at' = "answered" /\ answer'.shows \subseteq Listed
  BY Shows DEF UserSettings, Respond
<1>3. QED
  BY <1>1, <1>2, PageKeepsDisclosure, ListedIsGranted DEF Disclosure

LEMMA RegistryPagesKeepDisclosure ==
  ASSUME Disclosure, RegistryPagesNext PROVE Disclosure'
BY HomeKeepsDisclosure, FindKeepsDisclosure, PackageRolesKeepDisclosure,
   PackageReadsKeepDisclosure, ScopeKeepsDisclosure, ConsoleKeepsDisclosure,
   SettingsKeepDisclosure DEF RegistryPagesNext

\* A topology: its viewer has a role in what it is of, and its rows are of that.
LEMMA GraphScopeKeepsDisclosure ==
  ASSUME Disclosure, GraphOrg \/ GraphProject
  PROVE  Disclosure'
<1>1. /\ at \in {"org_graph", "project_graph", "graph_project"}
      /\ Handling /\ UNCHANGED <<viewer, seen, req, past>> /\ DOMAIN seen = SeenFields
      /\ Fits(at, Target)
  BY DEF GraphOrg, GraphProject, Query, Remains, Goto, Disclosure, Known, Permission,
     Target, Handling, traces
<1>2. ASSUME NEW status, Respond(MessagePage(status)) PROVE Disclosure'
  BY <1>1, <1>2, MessageKeepsDisclosure
<1>3. ASSUME \/ at = "project_graph" /\ Goto("graph_project")
             \/ at \in {"org_graph", "graph_project"} /\ Goto("graph_org_role")
      PROVE  Disclosure'
  <2>1. Permission'
    BY <1>1, <1>3 DEF Goto, Permission, Fits, PackagePlaces, ConsolePlaces, OrgPlaces,
       ProjectPlaces, ReadPlaces, Posts, Target
  <2>2. QED
    BY <1>1, <1>3, <2>1, GoOnKeepsDisclosure DEF Goto
<1>4. QED
  BY <1>1, <1>2, <1>3 DEF GraphOrg, GraphProject, Query

LEMMA GraphRolesKeepDisclosure ==
  ASSUME Disclosure, GraphOrgRole \/ GraphProjectRole
  PROVE  Disclosure'
<1>1. /\ at \in {"graph_org_role", "graph_project_role"}
      /\ Handling /\ UNCHANGED <<viewer, req, past>> /\ DOMAIN seen = SeenFields
      /\ Fits(at, Target)
  BY DEF GraphOrgRole, GraphProjectRole, Disclosure, Known, Permission, Target, Handling,
     traces
<1>2. Target \in Orgs \cup Projects /\ OrgAddressed \in Orgs
  BY <1>1, Addressed DEF Fits, ProjectPlaces, OrgAddressed, Things
<1>3. ASSUME UNCHANGED seen, NEW status, Respond(MessagePage(status)) PROVE Disclosure'
  BY <1>1, <1>3, MessageKeepsDisclosure
<1>4. ASSUME DOMAIN seen' = SeenFields, at' = "graph_packages",
             Target \in past.ever \/ OrgAddressed \in past.ever
      PROVE  Disclosure'
  <2>1. Permission'
    BY <1>1, <1>2, <1>4 DEF Permission, Fits, PackagePlaces, ConsolePlaces, OrgPlaces,
       ProjectPlaces, ReadPlaces, Posts, Target, OrgAddressed
  <2>2. QED
    BY <1>1, <1>4, <2>1, GoOnKeepsDisclosure
<1>5. ASSUME DOMAIN seen' = SeenFields, at' = "graph_project_role", Target \in Projects
      PROVE  Disclosure'
  <2>1. Permission'
    BY <1>1, <1>5 DEF Permission, Fits, PackagePlaces, ConsolePlaces, OrgPlaces,
       ProjectPlaces, ReadPlaces, Posts, Target
  <2>2. QED
    BY <1>1, <1>5, <2>1, GoOnKeepsDisclosure
<1>6. CASE GraphOrgRole
  <2>1. PICK result \in ExactOrgRole(OrgAddressed) :
          IF result = "failed" THEN Respond(MessagePage(503)) /\ UNCHANGED seen
          ELSE IF AfterOrgRole(result) = "refused"
          THEN Respond(MessagePage(404)) /\ UNCHANGED seen
          ELSE /\ Goto(AfterOrgRole(result))
               /\ seen' = [seen EXCEPT !.role = result]
    BY <1>6 DEF GraphOrgRole
  <2>2. seen' = [seen EXCEPT !.role = result] => DOMAIN seen' = SeenFields
    BY <1>1
  <2>3. result # "failed" /\ AfterOrgRole(result) = "graph_packages"
          => OrgAddressed \in past.ever
    BY <1>1, <1>2, <2>1, RolesAreGranted DEF ExactOrgRole, AfterOrgRole
  <2>4. \/ AfterOrgRole(result) \in {"graph_packages", "refused"}
        \/ AfterOrgRole(result) = "graph_project_role" /\ Target \in Projects
    BY DEF AfterOrgRole
  <2>5. QED
    BY <1>3, <1>4, <1>5, <2>1, <2>2, <2>3, <2>4 DEF Goto
<1>7. CASE GraphProjectRole
  <2>1. PICK result \in ExactProjectRole(Target) :
          IF result = "failed" THEN Respond(MessagePage(503)) /\ UNCHANGED seen
          ELSE IF result = None THEN Respond(MessagePage(404)) /\ UNCHANGED seen
          ELSE Goto("graph_packages") /\ seen' = [seen EXCEPT !.direct = result]
    BY <1>7 DEF GraphProjectRole
  <2>2. seen' = [seen EXCEPT !.direct = result] => DOMAIN seen' = SeenFields
    BY <1>1
  <2>3. result \notin {"failed", None} => Target \in past.ever
    <3>1. Target \in Projects
      BY <1>1, <1>7 DEF GraphProjectRole, Fits, ProjectPlaces
    <3>2. QED
      BY <1>1, <2>1, <3>1, RolesAreGranted DEF ExactProjectRole
  <2>4. QED
    BY <1>3, <1>4, <2>1, <2>2, <2>3 DEF Goto
<1>8. QED
  BY <1>6, <1>7

LEMMA GraphReadsKeepDisclosure ==
  ASSUME Disclosure, GraphPackages \/ GraphVersions \/ GraphLicenses
  PROVE  Disclosure'
<1>1. /\ at \in ReadPlaces /\ Handling /\ UNCHANGED <<viewer, req, past>>
      /\ DOMAIN seen = SeenFields /\ Target \in Orgs \cup Projects
      /\ (Target \in past.ever \/ OrgAddressed \in past.ever)
  BY DEF GraphPackages, GraphVersions, GraphLicenses, Query, ReadPlaces, Disclosure, Known,
     Permission, Fits, Target, Handling, traces
<1>2. ASSUME UNCHANGED seen, NEW status, Respond(MessagePage(status)) PROVE Disclosure'
  BY <1>1, <1>2, MessageKeepsDisclosure DEF ReadPlaces
<1>3. ASSUME DOMAIN seen' = SeenFields, at' \in {"graph_versions", "graph_licenses"},
             \A row \in seen'.rows :
               row[1] \in Packages /\ (OrgOf[row[1]] = Target \/ ProjectOf[row[1]] = Target)
      PROVE  Disclosure'
  <2>1. Permission'
    BY <1>1, <1>3 DEF Permission, Fits, PackagePlaces, ConsolePlaces, OrgPlaces,
       ProjectPlaces, ReadPlaces, Posts, Target, OrgAddressed
  <2>2. QED
    BY <1>1, <1>3, <2>1, GoOnKeepsDisclosure DEF ReadPlaces
<1>4. CASE GraphPackages
  <2> DEFINE rowsOf(listed) == {<<p, latest[p]>> : p \in {q \in listed : latest[q] # 0}}
  <2>1. ASSUME NEW packages \in Excerpts(InGraph, PackageLimit), NEW row \in rowsOf(packages)
        PROVE  row[1] \in Packages /\ (OrgOf[row[1]] = Target \/ ProjectOf[row[1]] = Target)
    <3>1. PICK p \in packages : row = <<p, latest[p]>>
      OBVIOUS
    <3>2. p \in InGraph /\ row[1] = p
      BY <3>1, ReadOfRows
    <3>3. QED
      BY <3>2 DEF InGraph, Present
  <2>2. ASSUME NEW packages \in Excerpts(InGraph, PackageLimit),
               seen' = [seen EXCEPT !.packages = packages, !.rows = rowsOf(packages)],
               Goto("graph_versions")
        PROVE  Disclosure'
    <3>1. DOMAIN seen' = SeenFields /\ seen'.rows = rowsOf(packages)
      BY <1>1, <2>2 DEF SeenFields
    <3>2. QED
      BY <1>3, <2>1, <2>2, <3>1 DEF Goto
  <2>3. QED
    BY <1>2, <1>4, <2>2 DEF GraphPackages, Query
<1>5. CASE GraphVersions
  <2>1. ASSUME seen' = [seen EXCEPT !.rows = Rows(seen.rows)]
        PROVE  DOMAIN seen' = SeenFields /\ seen'.rows \subseteq seen.rows
    BY <1>1, <2>1 DEF SeenFields, Rows
  <2>2. QED
    BY <1>2, <1>3, <1>5, <2>1 DEF GraphVersions, Query, Goto, Disclosure, Permission
<1>6. CASE GraphLicenses
  <2>1. ASSUME NEW sources \in SUBSET seen.rows, Respond(GraphPage(sources)), UNCHANGED seen
        PROVE  Disclosure'
    <3>1. GraphPage(sources).shows = {Target} \cup {row[1] : row \in sources} \cup Listed
      BY DEF GraphPage, Render, Page
    <3>2. \A row \in sources :
            row[1] \in Packages /\ (OrgOf[row[1]] = Target \/ ProjectOf[row[1]] = Target)
      BY <1>6 DEF GraphLicenses, Query, Disclosure, Permission
    <3>3. Target \in Covered(past.ever)
      BY <1>1, Addressed DEF OrgAddressed, Covered, Things
    <3>4. {row[1] : row \in sources} \subseteq Covered(past.ever)
      <4> SUFFICES ASSUME NEW row \in sources PROVE row[1] \in Covered(past.ever)
        OBVIOUS
      <4>1. Target \in Orgs => OrgAddressed = Target
        BY DEF OrgAddressed
      <4>2. Target \notin Orgs => Target \in Projects /\ OrgAddressed = OrgOf[Target]
        BY <1>1 DEF OrgAddressed
      <4>3. CASE OrgOf[row[1]] = Target
        <5>1. Target \in Orgs
          BY <3>2, <4>3, SiteAssumption
        <5>2. QED
          BY <1>1, <3>2, <4>1, <4>3, <5>1 DEF Covered
      <4>4. CASE ProjectOf[row[1]] = Target
        <5>1. Target \in Projects
          BY <1>1, <3>2, <4>4, SiteAssumption DEF Things
        <5>2. OrgOf[Target] = OrgOf[row[1]] /\ Target \notin Orgs
          BY <3>2, <4>4, <5>1, SiteAssumption DEF Things
        <5>3. QED
          BY <1>1, <3>2, <4>2, <4>4, <5>2 DEF Covered
      <4>5. QED
        BY <3>2, <4>3, <4>4
    <3>5. QED
      BY <1>1, <2>1, <3>1, <3>3, <3>4, PageKeepsDisclosure, ListedIsGranted
         DEF Respond, Disclosure, ReadPlaces
  <2>2. QED
    BY <1>2, <1>6, <2>1 DEF GraphLicenses, Query
<1>7. QED
  BY <1>4, <1>5, <1>6

LEMMA GraphPagesKeepDisclosure ==
  ASSUME Disclosure, GraphPagesNext PROVE Disclosure'
BY GraphScopeKeepsDisclosure, GraphRolesKeepDisclosure, GraphReadsKeepDisclosure
   DEF GraphPagesNext

\* The account pages tell of the listing alone, whatever became of the form.
LEMMA AccountKeepsDisclosure ==
  ASSUME Disclosure, Choose \/ RenderAccount \/ Entry \/ RenderFailure
  PROVE  Disclosure'
<1>1. /\ at \notin {"idle", "answered"} /\ Handling /\ UNCHANGED <<viewer, seen>>
      /\ DOMAIN seen = SeenFields
  BY DEF Choose, RenderAccount, Entry, RenderFailure, Remains, Posts, Disclosure, Known
<1>2. \A status, notice : AccountPage(status, notice).shows = Listed
  BY DEF AccountPage, Render, Page
<1>3. at' = "answered" /\ answer'.shows \subseteq Listed
  <2>1. CASE Choose
    BY <2>1, Shows DEF Choose, Respond
  <2>2. CASE RenderAccount \/ RenderFailure
    BY <1>2, <2>2 DEF RenderAccount, RenderFailure, Respond
  <2>3. CASE Entry
    BY <2>3, Shows DEF Entry, Respond
  <2>4. QED
    BY <2>1, <2>2, <2>3
<1>4. QED
  BY <1>1, <1>3, PageKeepsDisclosure, ListedIsGranted DEF Disclosure

LEMMA EntryKeepsDisclosure ==
  ASSUME Disclosure, EntryUnavailable
  PROVE  Disclosure'
<1>1. /\ at = "entry" /\ at' = "resolve" /\ viewer' = Anonymous
      /\ UNCHANGED <<role, direct, visibility, seen, past>>
      /\ req' = [route |-> "organization", thing |-> req.thing, user |-> req.user]
  BY DEF EntryUnavailable, registry, traces, Disclosure, Known
<1>2. Known'
  BY <1>1 DEF Disclosure, Known, Anonymous, Grants, MemberOf, DirectOf, Roster, Published
<1>3. Permission'
  BY <1>1 DEF Permission, Fits, PackagePlaces, ConsolePlaces, OrgPlaces, ProjectPlaces,
     ReadPlaces, Posts, Pages
<1>4. QED
  BY <1>1, <1>2, <1>3 DEF Disclosure, ShownWasGranted, Answered

LEMMA FormFailureKeepsDisclosure ==
  ASSUME Disclosure, at \in {"enroll", "enroll_created"}, Handling, UNCHANGED viewer,
         NEW status, EnrollFails(status)
  PROVE  Disclosure'
<1>1. DOMAIN seen = SeenFields /\ req' = req
      /\ req.route \in Pages \cup Posts /\ Fits(req.route, req.thing)
  BY DEF Disclosure, Known, Permission, Handling
<1>2. CASE Respond(Message(303)) /\ UNCHANGED seen
  BY <1>1, <1>2, MessageKeepsDisclosure
<1>3. CASE Goto("resolve") /\ seen' = [seen EXCEPT !.status = Failure(status)[1],
                                                   !.notice = Failure(status)[2]]
  <2>1. at' = "resolve" /\ DOMAIN seen' = SeenFields
    BY <1>1, <1>3 DEF Goto
  <2>2. Permission'
    BY <1>1, <2>1 DEF Permission, Fits, PackagePlaces, ConsolePlaces, OrgPlaces,
       ProjectPlaces, ReadPlaces, Posts
  <2>3. QED
    BY <2>1, <2>2, GoOnKeepsDisclosure
<1>4. QED
  BY <1>2, <1>3 DEF EnrollFails

\* The founder of an organisation is granted it when the registry creates it.
LEMMA CreationKeepsDisclosure ==
  ASSUME Disclosure, ApiCreates
  PROVE  Disclosure'
<1>1. /\ at = "enroll" /\ at' = "enroll_created" /\ Remember
      /\ UNCHANGED <<req, viewer, direct, visibility>>
      /\ seen' = [seen EXCEPT !.created = TRUE]
      /\ role' = [role EXCEPT ![Subject][Target] = "admin"]
  BY DEF ApiCreates, Goto
<1>2. /\ Target \in Orgs /\ DOMAIN seen = SeenFields
      /\ req.route \in Pages \cup Posts /\ Fits(req.route, req.thing)
  BY <1>1 DEF Disclosure, Known, Permission, Fits, OrgPlaces, Target
<1>3. Subject \in Users
  BY DEF ApiCreates, Subject, Disclosure, Known
<1>4. role' \in [Users -> [Orgs -> Roles \cup {None}]]
  <2>1. \A u \in Users, o \in Orgs, r \in Roles \cup {None} :
          [role EXCEPT ![u][o] = r] \in [Users -> [Orgs -> Roles \cup {None}]]
    BY DEF Disclosure, Known
  <2>2. "admin" \in Roles
    BY DEF Roles
  <2>3. QED
    BY <1>1, <1>2, <1>3, <2>1, <2>2
<1>5. DOMAIN past' = PastFields /\ past.ever \subseteq past'.ever
      /\ Grants(req.user)' \subseteq past'.ever
  BY <1>1 DEF Remember, Disclosure, Known, PastFields
<1>6. DOMAIN seen' = SeenFields
  BY <1>1, <1>2
<1>7. Known'
  BY <1>1, <1>4, <1>5, <1>6 DEF Disclosure, Known
<1>8. Permission'
  BY <1>1, <1>2 DEF Permission, Fits, PackagePlaces, ConsolePlaces, OrgPlaces,
     ProjectPlaces, ReadPlaces, Posts, Target
<1>9. QED
  BY <1>1, <1>7, <1>8 DEF Disclosure, ShownWasGranted, Answered

LEMMA EnrollmentKeepsDisclosure ==
  ASSUME Disclosure, EnrollmentNext
  PROVE  Disclosure'
<1>1. ASSUME at \in {"enroll", "enroll_created"}, Handling, UNCHANGED <<viewer, seen>>,
             at' = "answered", answer'.shows = {}
      PROVE  Disclosure'
  BY <1>1, PageKeepsDisclosure DEF Disclosure, Known
<1>2. CASE EnrollRefused
  BY <1>1, <1>2, FormFailureKeepsDisclosure, Shows DEF EnrollRefused, Respond
<1>3. CASE ApiRefuses
  BY <1>3, FormFailureKeepsDisclosure DEF ApiRefuses
<1>4. CASE EnrollAnswered
  <2>1. [Message(303) EXCEPT !.notice = "Created"].shows = {}
    BY DEF Message, Page
  <2>2. QED
    BY <1>1, <1>4, <2>1, FormFailureKeepsDisclosure DEF EnrollAnswered, Respond
<1>5. QED
  BY <1>2, <1>3, <1>4, AccountKeepsDisclosure, EntryKeepsDisclosure,
     CreationKeepsDisclosure DEF EnrollmentNext

LEMMA InitDisclosure == Init => Disclosure
<1> SUFFICES ASSUME Init PROVE Disclosure
  OBVIOUS
<1>1. PICK r \in Registries : role = r.role /\ direct = r.direct
  BY DEF Init
<1>2. role \in [Users -> [Orgs -> Roles \cup {None}]] /\ direct \subseteq Users \X Projects
  BY <1>1, RegistriesAssumption
<1>3. at = "idle" /\ req = NoAsk /\ viewer = Anonymous /\ seen = NotSeen /\ past = NoPast
  BY DEF Init
<1>4. Known
  BY <1>2, <1>3 DEF Known, NoAsk, Anonymous, NotSeen, NoPast, SeenFields, PastFields
<1>5. Permission
  BY <1>3 DEF Permission, Fits, PackagePlaces, ConsolePlaces, OrgPlaces, ProjectPlaces,
     ReadPlaces, Posts
<1>6. QED
  BY <1>3, <1>4, <1>5 DEF Disclosure, ShownWasGranted, Answered

LEMMA StepKeepsDisclosure == Disclosure /\ [Next]_vars => Disclosure'
<1> SUFFICES ASSUME Disclosure, [Next]_vars PROVE Disclosure'
  OBVIOUS
<1>1. ASSUME UNCHANGED pageVars PROVE Disclosure'
  BY <1>1 DEF pageVars, registry, request, traces, Disclosure, Known, Permission,
     ShownWasGranted, Answered, IsPublic, Target, OrgAddressed, InOrg, Grants, MemberOf,
     DirectOf, Roster, Published, Covered
<1>2. CASE Timeout
  BY <1>2, MessageKeepsDisclosure DEF Timeout, Disclosure, Known
<1>3. CASE Answering
  BY <1>2, <1>3, ResolveKeepsDisclosure, RegistryPagesKeepDisclosure,
     GraphPagesKeepDisclosure, EnrollmentKeepsDisclosure, DeliverKeepsDisclosure
     DEF Answering
<1>4. QED
  BY <1>1, <1>3, ChangeKeepsDisclosure, ArriveKeepsDisclosure
     DEF Next, Starting, Paging, SigningIn, vars

\* No page, message, breadcrumb or workspace tells its viewer of a package, a
\* project or an organisation they were granted at no time while it was made,
\* whatever changes between its queries and whichever of them fail.
THEOREM NothingIsDisclosed == Spec => []ShownWasGranted
<1>1. Disclosure => ShownWasGranted
  BY DEF Disclosure
<1>2. QED
  BY InitDisclosure, StepKeepsDisclosure, <1>1, PTL DEF Spec

-----------------------------------------------------------------------------
(* Who is refused, what a graph opens on, and what enrollment says. *)

ExactRoutes == {"package", "org_graph", "project_graph"}

\* What stood since the request came stands; what the handler has read is true.
Standing ==
  /\ \A u \in Users, o \in Orgs : role[u][o] # None => o \in orgs
  /\ \A u \in Users, j \in Projects : <<u, j>> \in direct => OrgOf[j] \in orgs
  /\ at = "idle" => seen = NotSeen
  /\ at # "idle" => /\ phase = "serving"
                    /\ past.always \subseteq Stands(req.user)
                    /\ past.yanked \subseteq yanked
                    /\ SignedIn /\ Listed = {} => past.always \cap Orgs = {}
  /\ seen.selected # 0 => <<Target, seen.selected>> \notin past.yanked
  /\ IsFiniteSet(seen.rows)
  /\ \/ seen.notice \in {"", "Unavailable"}
     \/ seen.notice \in {"Invalid", "Conflict", "Denied"} /\ ~seen.created

\* Where the handler is, why it is there.
Errand ==
  /\ at \in Pages \cup Posts => req.route = at
  /\ at \in ConsolePlaces => req.route \notin ExactRoutes
  /\ at \in {"enroll", "enroll_created"} => req.route \in Posts /\ seen.notice = ""
  /\ at = "enroll" => ~seen.created
  /\ at = "enroll_created" => seen.created
  /\ at = "package_project_role" /\ SignedIn /\ ~IsPublic => OrgAddressed \notin past.always
  /\ at = "graph_project_role" => OrgAddressed \notin past.always
  /\ at \in {"individual", "organization"} \cup Posts /\ auth # "none"
       /\ ~viewer.unavailable /\ ~SignedIn => req.user = Nobody
  /\ at = "graph_licenses" => seen.rows \cap past.yanked = {}

Verdicts == MemberIsNotRefused /\ GraphOpensOnWhatIsThere /\ EnrollmentIsTruthful

Truth == Disclosure /\ Standing /\ Errand /\ Verdicts

\* What stands is of its kind: an organisation by membership, a package by being there.
LEMMA StandsByKind ==
  ASSUME Disclosure, Standing, at # "idle"
  PROVE  /\ \A o \in Orgs : o \in past.always =>
              req.user \in Users /\ role[req.user][o] # None /\ o \in orgs
         /\ \A j \in Projects : j \in past.always =>
              <<req.user, j>> \in direct /\ OrgOf[j] \in orgs
         /\ \A p \in Packages : p \in past.always => visibility[p] # "absent"
         /\ None \notin past.always
<1>1. past.always \subseteq MemberOf(req.user) \cup DirectOf(req.user) \cup Present
  BY DEF Standing, Stands
<1>2. /\ MemberOf(req.user) \subseteq Orgs /\ DirectOf(req.user) \subseteq Projects
      /\ Present \subseteq Packages
  BY DEF MemberOf, DirectOf, Present
<1>3. ASSUME NEW o \in Orgs, o \in past.always
      PROVE  req.user \in Users /\ role[req.user][o] # None /\ o \in orgs
  BY <1>1, <1>2, <1>3, SiteAssumption DEF Disclosure, Known, Standing, MemberOf, Roster
<1>4. ASSUME NEW j \in Projects, j \in past.always
      PROVE  <<req.user, j>> \in direct /\ OrgOf[j] \in orgs
  <2>1. <<req.user, j>> \in direct
    BY <1>1, <1>2, <1>4, SiteAssumption DEF DirectOf
  <2>2. req.user \in Users
    BY <2>1 DEF Disclosure, Known
  <2>3. QED
    BY <2>1, <2>2 DEF Standing
<1>5. ASSUME NEW p \in Packages, p \in past.always PROVE visibility[p] # "absent"
  BY <1>1, <1>2, <1>5, SiteAssumption DEF Present
<1>6. None \notin past.always
  BY <1>1, <1>2, SiteAssumption DEF Things
<1>7. QED
  BY <1>3, <1>4, <1>5, <1>6

LEMMA HandlingKeepsStanding ==
  ASSUME Truth, at # "idle", at' # "idle", Handling, UNCHANGED viewer,
         seen'.selected # 0 => <<Target, seen'.selected>> \notin past.yanked,
         IsFiniteSet(seen'.rows),
         \/ seen'.notice \in {"", "Unavailable"}
         \/ seen'.notice \in {"Invalid", "Conflict", "Denied"} /\ ~seen'.created
  PROVE  Standing'
BY DEF Truth, Standing, Handling, startupVars, registry, traces, Stands, MemberOf,
       DirectOf, Roster, Present, Target, SignedIn, Listed

LEMMA GoOnKeepsTruth ==
  ASSUME Truth, Disclosure', at # "idle", at' \notin {"idle", "answered"}, Handling,
         UNCHANGED viewer,
         seen'.selected # 0 => <<Target, seen'.selected>> \notin past.yanked,
         IsFiniteSet(seen'.rows),
         \/ seen'.notice \in {"", "Unavailable"}
         \/ seen'.notice \in {"Invalid", "Conflict", "Denied"} /\ ~seen'.created,
         Errand'
  PROVE  Truth'
BY HandlingKeepsStanding DEF Truth, Verdicts, MemberIsNotRefused,
   GraphOpensOnWhatIsThere, EnrollmentIsTruthful, Answered

\* A page without a workspace, a stage or a notice.
Plain(page) ==
  page.selected = 0 /\ page.sources = {} /\ page.stage = "" /\ page.notice = ""

\* Who may be refused: whoever belongs neither to the organisation nor to the
\* project all along.
Belongs   == {OrgAddressed, ProjectAddressed} \cap past.always # {}
Refusable == ~ (/\ SignedIn /\ req.route \in ExactRoutes
                /\ Belongs /\ Target \in past.always \cup Projects)

LEMMA AnswerKeepsStanding ==
  ASSUME Truth, at # "idle", Handling, UNCHANGED <<viewer, seen>>, at' = "answered"
  PROVE  Standing' /\ Errand'
<1>1. Standing'
  BY HandlingKeepsStanding DEF Truth, Standing
<1>2. Errand'
  BY DEF Errand, Pages, Posts, ConsolePlaces
<1>3. QED
  BY <1>1, <1>2

LEMMA PlainKeepsTruth ==
  ASSUME Truth, Disclosure', at # "idle", Handling, UNCHANGED <<viewer, seen>>,
         at' = "answered", Plain(answer'), answer'.status # 404 \/ Refusable
  PROVE  Truth'
<1>1. MemberIsNotRefused'
  BY DEF MemberIsNotRefused, Refusable, Belongs, SignedIn, OrgAddressed, ProjectAddressed,
     Target, Handling, traces, ExactRoutes
<1>2. GraphOpensOnWhatIsThere' /\ EnrollmentIsTruthful'
  BY DEF GraphOpensOnWhatIsThere, EnrollmentIsTruthful, Plain
<1>3. QED
  BY <1>1, <1>2, AnswerKeepsStanding DEF Truth, Verdicts

LEMMA PlainPages ==
  /\ \A status, context, shows, offers :
       Plain(Render(status, context, shows, offers))
       /\ Render(status, context, shows, offers).status = status
  /\ \A status : Plain(MessagePage(status)) /\ MessagePage(status).status = status
  /\ \A status : Plain(Message(status)) /\ Message(status).status = status
BY DEF Plain, Render, MessagePage, Message, Page

LEMMA MessageKeepsTruth ==
  ASSUME Truth, Disclosure', at # "idle", Handling, UNCHANGED <<viewer, seen>>,
         NEW status, Respond(MessagePage(status)) \/ Respond(Message(status)),
         status # 404 \/ Refusable
  PROVE  Truth'
BY PlainKeepsTruth, PlainPages DEF Respond

\* What a change of the registry takes away no longer stands.
LEMMA RememberKeepsTruth ==
  ASSUME Truth, Disclosure', Remember, phase = "serving",
         UNCHANGED <<startupVars, at, req, viewer, seen, answer>>,
         yanked \subseteq yanked',
         \A u \in Users, o \in Orgs : role'[u][o] # None => o \in orgs',
         \A u \in Users, j \in Projects : <<u, j>> \in direct' => OrgOf[j] \in orgs'
  PROVE  Truth'
<1>1. /\ past'.yanked = past.yanked
      /\ past'.always \subseteq past.always
      /\ at # "idle" => past'.always \subseteq Stands(req.user)'
  BY DEF Remember, Truth, Disclosure, Known, PastFields
<1>2. Standing'
  BY <1>1 DEF Truth, Standing, startupVars, Target, SignedIn, Listed
<1>3. Errand'
  BY <1>1 DEF Truth, Errand, startupVars, Target, OrgAddressed, SignedIn, IsPublic
<1>4. Verdicts'
  BY <1>1 DEF Truth, Verdicts, MemberIsNotRefused, GraphOpensOnWhatIsThere,
     EnrollmentIsTruthful, Answered, OrgAddressed, ProjectAddressed, Target
<1>5. QED
  BY <1>2, <1>3, <1>4 DEF Truth

LEMMA ChangeKeepsTruth ==
  ASSUME Truth, Disclosure', RegistryChanges
  PROVE  Truth'
<1>1. /\ Remember /\ phase = "serving"
      /\ UNCHANGED <<startupVars, at, req, viewer, seen, answer>>
      /\ yanked \subseteq yanked' /\ orgs' = orgs
  BY DEF RegistryChanges, ChangeRole, ChangeDirect, ChangeVisibility, Release, Yank,
     Change, request
<1>2. \A u \in Users, o \in Orgs : role'[u][o] # None => o \in orgs'
  <2>1. CASE role' = role
    BY <1>1, <2>1 DEF Truth, Standing
  <2>2. ASSUME NEW u \in Users, NEW o \in Orgs, NEW r, o \in orgs,
               role' = [role EXCEPT ![u][o] = r]
        PROVE  \A v \in Users, p \in Orgs : role'[v][p] # None => p \in orgs'
    BY <1>1, <2>2 DEF Truth, Standing, Disclosure, Known
  <2>3. QED
    BY <2>1, <2>2 DEF RegistryChanges, ChangeRole, ChangeDirect, ChangeVisibility,
       Release, Yank
<1>3. \A u \in Users, j \in Projects : <<u, j>> \in direct' => OrgOf[j] \in orgs'
  <2>1. CASE direct' = direct
    BY <1>1, <2>1 DEF Truth, Standing
  <2>2. ASSUME NEW u \in Users, NEW j \in Projects, OrgOf[j] \in orgs,
               direct' \subseteq direct \cup {<<u, j>>}
        PROVE  \A v \in Users, k \in Projects : <<v, k>> \in direct' => OrgOf[k] \in orgs'
    BY <1>1, <2>2 DEF Truth, Standing
  <2>3. QED
    BY <2>1, <2>2 DEF RegistryChanges, ChangeRole, ChangeDirect, ChangeVisibility,
       Release, Yank
<1>4. QED
  BY <1>1, <1>2, <1>3, RememberKeepsTruth

LEMMA ArriveKeepsTruth ==
  ASSUME Truth, Disclosure', NEW u \in Users \cup {Nobody},
         NEW route \in Pages \cup Posts, NEW thing \in AskedOf(route),
         Arrive(u, Ask(route, thing))
  PROVE  Truth'
<1>1. /\ at = "idle" /\ phase = "serving" /\ viewer = Anonymous /\ seen = NotSeen
      /\ at' = IF route \in Posts THEN "enroll" ELSE "resolve"
      /\ req' = [route |-> route, thing |-> thing, user |-> u]
      /\ past'.always = Stands(u) /\ past'.yanked = yanked
      /\ UNCHANGED <<startupVars, registry, viewer, seen, answer>>
  BY DEF Arrive, Ask, Truth, Standing, Disclosure, Known
<1>2. Stands(u)' = Stands(u)
  BY <1>1 DEF registry, Stands, MemberOf, DirectOf, Roster, Present
<1>3. Standing'
  BY <1>1, <1>2, FS_EmptySet DEF Truth, Standing, startupVars, registry, NotSeen,
     Anonymous, SignedIn
<1>4. Errand'
  BY <1>1 DEF Errand, Pages, Posts, ConsolePlaces, NotSeen
<1>5. Verdicts'
  BY <1>1 DEF Verdicts, MemberIsNotRefused, GraphOpensOnWhatIsThere,
     EnrollmentIsTruthful, Answered
<1>6. QED
  BY <1>3, <1>4, <1>5 DEF Truth

LEMMA DeliverKeepsTruth ==
  ASSUME Truth, Disclosure', Deliver
  PROVE  Truth'
<1>1. /\ at' = "idle" /\ seen' = NotSeen
      /\ UNCHANGED <<startupVars, registry>>
  BY DEF Deliver
<1>2. Standing'
  BY <1>1, FS_EmptySet DEF Truth, Standing, registry, NotSeen
<1>3. Errand'
  BY <1>1 DEF Errand, Pages, Posts, ConsolePlaces
<1>4. Verdicts'
  BY <1>1 DEF Verdicts, MemberIsNotRefused, GraphOpensOnWhatIsThere,
     EnrollmentIsTruthful, Answered
<1>5. QED
  BY <1>2, <1>3, <1>4 DEF Truth

\* A listing is empty only for a viewer without a membership.
LEMMA EmptyListing ==
  ASSUME NEW u, NEW roles \in Listings(u), {o \in Orgs : roles[o] # None} = {}
  PROVE  MemberOf(u) = {}
<1>1. Cardinality({}) = 0 /\ PageLimit # 0
  BY FS_EmptySet, SiteAssumption
<1>2. QED
  BY <1>1 DEF Listings

LEMMA ResolveKeepsTruth ==
  ASSUME Truth, Disclosure', Resolve
  PROVE  Truth'
<1>1. /\ at = "resolve" /\ at' = req.route /\ req.route \in Pages \cup Posts
      /\ Handling /\ UNCHANGED seen
  BY DEF Resolve, Goto, Truth, Disclosure, Permission
<1>2. at' \notin {"idle", "answered", "enroll", "enroll_created", "package_project_role",
                  "graph_project_role", "graph_licenses"} \cup ConsolePlaces
  BY <1>1 DEF Pages, Posts, ConsolePlaces
<1>3. SignedIn' /\ Listed' = {} => past.always \cap Orgs = {}
  <2>1. CASE UNCHANGED viewer
    BY <1>1, <2>1 DEF Truth, Standing, SignedIn, Listed
  <2>2. CASE viewer' = [Anonymous EXCEPT !.unavailable = TRUE]
    BY <2>2 DEF Anonymous, SignedIn
  <2>3. ASSUME NEW roles \in Listings(Subject), Subject # Nobody,
               viewer' = [user |-> Subject, roles |-> roles, unavailable |-> FALSE],
               Listed' = {}
        PROVE  past.always \cap Orgs = {}
    <3>1. MemberOf(Subject) = {} /\ Subject = req.user
      BY <2>3, EmptyListing DEF Listed, Subject
    <3>2. QED
      BY <1>1, <2>3, <3>1, StandsByKind DEF Truth, MemberOf, Roster
  <2>4. QED
    BY <2>1, <2>2, <2>3 DEF Resolve
<1>4. Standing'
  BY <1>1, <1>2, <1>3 DEF Truth, Standing, Handling, startupVars, registry, traces,
     Stands, MemberOf, DirectOf, Roster, Present, Target
<1>5. auth # "none" /\ ~viewer'.unavailable /\ ~SignedIn' => req.user = Nobody
  BY DEF Resolve, Subject, SignedIn, Anonymous
<1>6. Errand'
  BY <1>1, <1>2, <1>5 DEF Errand, Handling, startupVars
<1>7. Verdicts'
  BY <1>2 DEF Verdicts, MemberIsNotRefused, GraphOpensOnWhatIsThere,
     EnrollmentIsTruthful, Answered
<1>8. QED
  BY <1>4, <1>6, <1>7 DEF Truth

\* A step that reads something else than what the verdicts are about.
LEMMA ReadOnKeepsTruth ==
  ASSUME Truth, Disclosure', at # "idle", at' \notin {"idle", "answered"}, Handling,
         UNCHANGED viewer, Errand',
         seen'.selected = seen.selected, seen'.rows = seen.rows,
         seen'.notice = seen.notice, seen'.created = seen.created
  PROVE  Truth'
BY GoOnKeepsTruth DEF Truth, Standing

LEMMA ListingPagesKeepTruth ==
  ASSUME Truth, Disclosure', Home \/ Search \/ UserSettings
  PROVE  Truth'
<1>1. at # "idle" /\ at' = "answered" /\ Handling /\ UNCHANGED <<viewer, seen>>
  BY DEF Home, Search, UserSettings, Remains, Respond
<1>2. Plain(answer') /\ answer'.status # 404
  <2>1. CASE Home
    <3>1. \/ \E projects : answer' = HomeOfViewer(projects)
          \/ \E recent : answer' = PackageRows(recent)
      BY <2>1 DEF Home, Respond
    <3>2. /\ \A projects : Plain(HomeOfViewer(projects)) /\ HomeOfViewer(projects).status = 200
          /\ \A recent : Plain(PackageRows(recent)) /\ PackageRows(recent).status = 200
      BY PlainPages DEF HomeOfViewer, PackageRows
    <3>3. QED
      BY <3>1, <3>2
  <2>2. CASE Search
    BY <2>2, PlainPages DEF Search, Respond, PackageRows
  <2>3. CASE UserSettings
    BY <2>3, PlainPages DEF UserSettings, Respond
  <2>4. QED
    BY <2>1, <2>2, <2>3
<1>3. QED
  BY <1>1, <1>2, PlainKeepsTruth

LEMMA ConsoleKeepsTruth ==
  ASSUME Truth, Disclosure',
         \/ OrgScope \/ DashboardProjects \/ DashboardPackages
         \/ ProjectSettingsProject \/ ProjectSettingsPackages \/ PackageSettings
  PROVE  Truth'
<1>1. /\ at \in {"dashboard", "org_settings", "project_settings", "package_settings"}
              \cup ConsolePlaces
      /\ at # "idle" /\ Handling /\ UNCHANGED viewer
  BY DEF OrgScope, DashboardProjects, DashboardPackages, ProjectSettingsProject,
     ProjectSettingsPackages, PackageSettings, Remains, ConsolePlaces
<1>2. req.route \notin ExactRoutes /\ Refusable
  BY <1>1 DEF Truth, Errand, ExactRoutes, Pages, Refusable
<1>3. ASSUME UNCHANGED seen, at' = "answered", Plain(answer') PROVE Truth'
  BY <1>1, <1>2, <1>3, PlainKeepsTruth
<1>4. ASSUME at' \in ConsolePlaces, seen'.selected = seen.selected,
             seen'.rows = seen.rows, seen'.notice = seen.notice,
             seen'.created = seen.created
      PROVE  Truth'
  <2>1. Errand'
    BY <1>1, <1>2, <1>4 DEF Errand, Pages, Posts, ConsolePlaces, Handling
  <2>2. QED
    BY <1>1, <1>4, <2>1, ReadOnKeepsTruth DEF ConsolePlaces
<1>5. CASE OrgScope
  <2>1. UNCHANGED seen
    BY <1>5 DEF OrgScope, Remains
  <2>2. \/ at' = "answered" /\ Plain(answer')
        \/ at' = AfterScope /\ at # "org_settings"
    BY <1>5, PlainPages DEF OrgScope, Respond, Goto
  <2>3. at # "org_settings" => AfterScope \in ConsolePlaces
    BY <1>5 DEF OrgScope, AfterScope, ConsolePlaces
  <2>4. QED
    BY <1>3, <1>4, <2>1, <2>2, <2>3
<1>6. CASE DashboardProjects
  <2>1. PICK projects : seen' = [seen EXCEPT !.projects = projects]
    BY <1>6 DEF DashboardProjects
  <2>2. DOMAIN seen = SeenFields
    BY DEF Truth, Disclosure, Known
  <2>3. seen'.selected = seen.selected /\ seen'.rows = seen.rows
        /\ seen'.notice = seen.notice /\ seen'.created = seen.created
    BY <2>1, <2>2 DEF SeenFields
  <2>4. QED
    BY <1>4, <1>6, <2>3 DEF DashboardProjects, Goto, ConsolePlaces
<1>7. CASE DashboardPackages
  BY <1>3, <1>7, PlainPages DEF DashboardPackages, Respond, Remains
<1>8. CASE ProjectSettingsProject
  <2>1. \/ Goto("project_settings_packages") \/ Respond(MessagePage(404))
    BY <1>8 DEF ProjectSettingsProject
  <2>2. UNCHANGED seen
    BY <1>8 DEF ProjectSettingsProject, Remains
  <2>3. QED
    BY <1>3, <1>4, <2>1, <2>2, PlainPages DEF Respond, Goto, ConsolePlaces
<1>9. CASE ProjectSettingsPackages
  BY <1>3, <1>9, PlainPages DEF ProjectSettingsPackages, Respond, Remains
<1>10. CASE PackageSettings
  BY <1>3, <1>10, PlainPages DEF PackageSettings, Respond, Remains
<1>11. QED
  BY <1>5, <1>6, <1>7, <1>8, <1>9, <1>10

\* Whose membership the page looks up in vain was not a member all along.
LEMMA NoRoleNoStanding ==
  ASSUME Truth, at # "idle", SignedIn
  PROVE  /\ OrgAddressed \in Orgs /\ role[viewer.user][OrgAddressed] = None
              => OrgAddressed \notin past.always
         /\ ProjectAddressed \in Projects /\ <<viewer.user, ProjectAddressed>> \notin direct
              => ProjectAddressed \notin past.always
         /\ ProjectAddressed = None => ProjectAddressed \notin past.always
<1>1. viewer.user = req.user
  BY DEF Truth, Disclosure, Known, SignedIn
<1>2. QED
  BY <1>1, StandsByKind DEF Truth

LEMMA FindPackageKeepsTruth ==
  ASSUME Truth, Disclosure', FindPackage
  PROVE  Truth'
<1>1. /\ at = "package" /\ Handling /\ UNCHANGED viewer /\ Target \in Packages
      /\ DOMAIN seen = SeenFields
  BY DEF FindPackage, Truth, Disclosure, Known, Permission, Fits, PackagePlaces, Target
<1>2. ASSUME NEW status, Respond(MessagePage(status)), UNCHANGED seen,
             status # 404 \/ Refusable
      PROVE  Truth'
  BY <1>1, <1>2, MessageKeepsTruth
<1>3. visibility[Target] = "absent" => Refusable
  BY <1>1, StandsByKind, SiteAssumption DEF Refusable, Truth
<1>4. ASSUME Goto("package_org_role"),
             seen' = [seen EXCEPT !.visibility = visibility[Target],
                                  !.latest = latest[Target]]
      PROVE  Truth'
  <2>1. seen'.selected = seen.selected /\ seen'.rows = seen.rows
        /\ seen'.notice = seen.notice /\ seen'.created = seen.created
    BY <1>1, <1>4 DEF SeenFields
  <2>2. Errand'
    BY <1>4 DEF Errand, Goto, Pages, Posts, ConsolePlaces
  <2>3. QED
    BY <1>1, <1>4, <2>1, <2>2, ReadOnKeepsTruth DEF Goto
<1>5. QED
  BY <1>2, <1>3, <1>4 DEF FindPackage

LEMMA PackageRolesKeepTruth ==
  ASSUME Truth, Disclosure', PackageOrgRole \/ PackageProjectRole
  PROVE  Truth'
<1>1. /\ at \in {"package_org_role", "package_project_role"} /\ at # "idle"
      /\ Handling /\ UNCHANGED viewer /\ Target \in Packages
      /\ DOMAIN seen = SeenFields
  BY DEF PackageOrgRole, PackageProjectRole, Truth, Disclosure, Known, Permission, Fits,
     PackagePlaces, Target
<1>2. /\ OrgAddressed = OrgOf[Target] /\ OrgAddressed \in Orgs
      /\ ProjectAddressed = ProjectOf[Target] /\ ProjectAddressed \in Projects \cup {None}
  BY <1>1, SiteAssumption DEF OrgAddressed, ProjectAddressed
<1>3. ASSUME NEW status, Respond(MessagePage(status)), UNCHANGED seen,
             status # 404 \/ Refusable
      PROVE  Truth'
  BY <1>1, <1>3, MessageKeepsTruth
<1>4. ASSUME NEW orgRole, NEW projectRole, Authorize(orgRole, projectRole),
              Permitted(orgRole, projectRole)
       PROVE  Truth'
  <2>1. /\ at' = "package_versions"
        /\ seen' = [seen EXCEPT !.role = orgRole, !.direct = projectRole]
    BY <1>4 DEF Authorize, Goto
  <2>2. seen'.selected = seen.selected /\ seen'.rows = seen.rows
        /\ seen'.notice = seen.notice /\ seen'.created = seen.created
    BY <1>1, <2>1 DEF SeenFields
  <2>3. Errand'
    BY <2>1 DEF Errand, Pages, Posts, ConsolePlaces
  <2>4. QED
    BY <1>1, <2>1, <2>2, <2>3, ReadOnKeepsTruth
<1>5. ASSUME NEW orgRole, NEW projectRole, Authorize(orgRole, projectRole),
             SignedIn /\ ~IsPublic /\ orgRole = None => OrgAddressed \notin past.always,
             SignedIn /\ ~IsPublic /\ projectRole = None => ProjectAddressed \notin past.always
      PROVE  Truth'
  <2>1. CASE ~Permitted(orgRole, projectRole)
    <3>1. SignedIn => ~Belongs
      BY <1>5, <2>1 DEF Permitted, Belongs
    <3>2. QED
      BY <1>3, <1>5, <2>1, <3>1 DEF Authorize, Refusable
  <2>2. QED
    BY <1>5, <1>4, <2>1
<1>6. ASSUME NEW result \in ExactOrgRole(OrgOf[Target]), result = None,
             result # "failed"
      PROVE  SignedIn => OrgAddressed \notin past.always
  BY <1>1, <1>2, <1>6, NoRoleNoStanding, SiteAssumption DEF ExactOrgRole
<1>7. CASE PackageOrgRole
  <2> PICK result \in ExactOrgRole(OrgOf[Target]) :
         LET orgRole == IF result = "failed" THEN None ELSE result
         IN  IF result = "failed" /\ ~IsPublic
             THEN Respond(MessagePage(503)) /\ UNCHANGED seen
             ELSE IF orgRole = None /\ ProjectOf[Target] # None
             THEN Goto("package_project_role") /\ UNCHANGED seen
             ELSE Authorize(orgRole, None)
    BY <1>7 DEF PackageOrgRole
  <2> DEFINE orgRole == IF result = "failed" THEN None ELSE result
  <2>1. ~IsPublic /\ result # "failed" /\ orgRole = None /\ SignedIn
          => OrgAddressed \notin past.always
    BY <1>6
  <2>2. CASE result = "failed" /\ ~IsPublic
    BY <1>3, <2>2
  <2>3. CASE ~(result = "failed" /\ ~IsPublic) /\ orgRole = None
               /\ ProjectOf[Target] # None
    <3>1. at' = "package_project_role" /\ UNCHANGED seen
      BY <2>3 DEF Goto
    <3>2. Errand'
      BY <1>1, <2>1, <2>3, <3>1 DEF Errand, Pages, Posts, ConsolePlaces, IsPublic,
         SignedIn, Handling, traces, OrgAddressed, Target
    <3>3. QED
      BY <1>1, <3>1, <3>2, ReadOnKeepsTruth
  <2>4. CASE ~(result = "failed" /\ ~IsPublic)
               /\ ~(orgRole = None /\ ProjectOf[Target] # None)
    <3>1. Authorize(orgRole, None)
      BY <2>4
    <3>2. SignedIn /\ ~IsPublic /\ orgRole = None => ProjectAddressed \notin past.always
      BY <1>1, <1>2, <2>4, NoRoleNoStanding
    <3>3. CASE orgRole = None
      BY <1>5, <2>1, <2>4, <3>1, <3>2, <3>3
    <3>4. CASE orgRole # None
      <4>1. Permitted(orgRole, None)
        BY <3>4 DEF Permitted
      <4>2. QED
        BY <1>4, <3>1, <4>1
    <3>5. QED
      BY <3>3, <3>4
  <2>5. QED
    BY <2>2, <2>3, <2>4
<1>8. CASE PackageProjectRole
  <2> PICK result \in ExactProjectRole(ProjectOf[Target]) :
         IF result = "failed" /\ ~IsPublic
         THEN Respond(MessagePage(503)) /\ UNCHANGED seen
         ELSE Authorize(None, IF result = "failed" THEN None ELSE result)
    BY <1>8 DEF PackageProjectRole
  <2> DEFINE projectRole == IF result = "failed" THEN None ELSE result
  <2>1. SignedIn /\ ~IsPublic => OrgAddressed \notin past.always
    BY <1>8 DEF PackageProjectRole, Truth, Errand
  <2>2. SignedIn /\ result # "failed" /\ result = None => ProjectAddressed \notin past.always
    <3>1. None # "member"
      BY SiteAssumption DEF Roles
    <3>2. QED
      BY <1>1, <1>2, <3>1, NoRoleNoStanding DEF ExactProjectRole
  <2>3. CASE result = "failed" /\ ~IsPublic
    BY <1>3, <2>3
  <2>4. CASE ~(result = "failed" /\ ~IsPublic)
    <3>1. Authorize(None, projectRole)
      BY <2>4
    <3>2. SignedIn /\ ~IsPublic /\ projectRole = None => ProjectAddressed \notin past.always
      BY <2>2, <2>4
    <3>3. QED
      BY <1>5, <2>1, <3>1, <3>2
  <2>5. QED
    BY <2>3, <2>4
<1>9. QED
  BY <1>7, <1>8

LEMMA PackageReadsKeepTruth ==
  ASSUME Truth, Disclosure', PackageVersions \/ PackageLatest \/ PackageProject
  PROVE  Truth'
<1>1. /\ at \in {"package_versions", "package_latest", "package_project"} /\ at # "idle"
      /\ Handling /\ UNCHANGED viewer /\ DOMAIN seen = SeenFields
      /\ past.yanked \subseteq yanked
  BY DEF PackageVersions, PackageLatest, PackageProject, Remains, Truth, Disclosure,
     Known, Standing
<1>2. ASSUME Respond(MessagePage(503)), UNCHANGED seen PROVE Truth'
  BY <1>1, <1>2, MessageKeepsTruth
<1>3. at' \in {"package_latest", "package_project"} => Errand'
  BY DEF Errand, Pages, Posts, ConsolePlaces
<1>4. CASE PackageVersions
  <2>1. ASSUME NEW versions, seen' = [seen EXCEPT !.versions = versions],
               Goto(IF seen.latest = 0 THEN "package_project" ELSE "package_latest")
        PROVE  Truth'
    <3>1. at' \in {"package_latest", "package_project"}
      BY <2>1 DEF Goto
    <3>2. seen'.selected = seen.selected /\ seen'.rows = seen.rows
          /\ seen'.notice = seen.notice /\ seen'.created = seen.created
      BY <1>1, <2>1 DEF SeenFields
    <3>3. QED
      BY <1>1, <1>3, <3>1, <3>2, ReadOnKeepsTruth
  <2>2. QED
    BY <1>2, <1>4, <2>1 DEF PackageVersions
<1>5. CASE PackageLatest
  <2>1. ASSUME seen' = [seen EXCEPT !.selected = Selected(Target, seen.latest)],
               Goto("package_project")
        PROVE  Truth'
    <3>1. at' = "package_project"
      BY <2>1 DEF Goto
    <3>2. seen'.selected = Selected(Target, seen.latest) /\ seen'.rows = seen.rows
          /\ seen'.notice = seen.notice /\ seen'.created = seen.created
      BY <1>1, <2>1 DEF SeenFields
    <3>3. seen'.selected # 0 => <<Target, seen'.selected>> \notin past.yanked
      BY <1>1, <3>2 DEF Selected
    <3>4. QED
      BY <1>1, <1>3, <3>1, <3>2, <3>3, GoOnKeepsTruth DEF Truth, Standing
  <2>2. QED
    BY <1>2, <1>5, <2>1 DEF PackageLatest
<1>6. CASE PackageProject
  <2>1. PICK project : Respond(PackagePage(project))
    BY <1>6 DEF PackageProject
  <2>2. at' = "answered" /\ answer' = PackagePage(project) /\ UNCHANGED <<viewer, seen>>
    BY <1>6, <2>1 DEF PackageProject, Respond, Remains
  <2>3. /\ answer'.status = 200 /\ answer'.selected = seen.selected
        /\ answer'.versions = VersionOptions /\ answer'.sources = {}
        /\ answer'.stage = "" /\ answer'.notice = ""
    BY <2>2 DEF PackagePage, Render, Page
  <2>4. seen.selected # 0 => /\ seen.selected \in VersionOptions
                             /\ <<Target, seen.selected>> \notin past.yanked
    BY DEF VersionOptions, Truth, Standing
  <2>5. Verdicts'
    <3>1. MemberIsNotRefused' /\ EnrollmentIsTruthful'
      <4>1. answer'.status = 200
        BY <2>3, Zenon
      <4>2. MemberIsNotRefused'
        BY <4>1 DEF MemberIsNotRefused, Answered, OrgAddressed, ProjectAddressed, Target
      <4>3. EnrollmentIsTruthful'
        BY <2>3 DEF EnrollmentIsTruthful
      <4>4. QED
        BY <4>2, <4>3
    <3>2. UNCHANGED <<req, past>>
      BY <1>1 DEF Handling, traces
    <3>3. GraphOpensOnWhatIsThere'
      BY <2>3, <2>4, <3>2 DEF GraphOpensOnWhatIsThere, Target
    <3>4. QED
      BY <3>1, <3>3 DEF Verdicts
  <2>6. QED
    BY <1>1, <2>2, <2>5, AnswerKeepsStanding DEF Truth
<1>7. QED
  BY <1>4, <1>5, <1>6

LEMMA RegistryPagesKeepTruth ==
  ASSUME Truth, Disclosure', RegistryPagesNext
  PROVE  Truth'
BY ListingPagesKeepTruth, ConsoleKeepsTruth, FindPackageKeepsTruth,
   PackageRolesKeepTruth, PackageReadsKeepTruth DEF RegistryPagesNext

LEMMA GraphScopeKeepsTruth ==
  ASSUME Truth, Disclosure', GraphOrg \/ GraphProject
  PROVE  Truth'
<1>1. /\ at \in {"org_graph", "project_graph", "graph_project"} /\ at # "idle"
      /\ Handling /\ UNCHANGED viewer /\ OrgAddressed \in Orgs
      /\ Target \in Orgs \cup Projects
  BY SiteAssumption DEF GraphOrg, GraphProject, Query, Remains, Truth, Disclosure,
     Permission, Fits, OrgPlaces, ProjectPlaces, OrgAddressed, Target
<1>2. ASSUME NEW status, Respond(MessagePage(status)), UNCHANGED seen,
             status # 404 \/ Refusable
      PROVE  Truth'
  BY <1>1, <1>2, MessageKeepsTruth
<1>3. ASSUME at' \in {"graph_org_role", "graph_project"}, UNCHANGED seen PROVE Truth'
  <2>1. Errand'
    BY <1>3 DEF Errand, Pages, Posts, ConsolePlaces
  <2>2. QED
    BY <1>1, <1>3, <2>1, ReadOnKeepsTruth
<1>4. OrgAddressed \notin orgs => Refusable
  <2>1. ASSUME OrgAddressed \notin orgs PROVE ~Belongs
    <3>1. \/ ProjectAddressed = None
          \/ ProjectAddressed \in Projects /\ OrgOf[ProjectAddressed] = OrgAddressed
      <4>1. CASE Target \in Orgs
        <5>1. Target \notin Projects /\ Target \notin Packages
          BY <4>1, SiteAssumption
        <5>2. QED
          BY <5>1 DEF ProjectAddressed
      <4>2. CASE Target \in Projects
        <5>1. Target \notin Orgs
          BY <4>2, SiteAssumption
        <5>2. QED
          BY <4>2, <5>1 DEF ProjectAddressed, OrgAddressed
      <4>3. QED
        BY <1>1, <4>1, <4>2
    <3>2. QED
      BY <1>1, <2>1, <3>1, StandsByKind DEF Belongs, Truth
  <2>2. QED
    BY <2>1 DEF Refusable
<1>5. CASE GraphOrg
  <2>1. UNCHANGED seen
    BY <1>5 DEF GraphOrg, Remains
  <2>2. \/ Respond(MessagePage(503))
        \/ OrgAddressed \notin orgs /\ Respond(MessagePage(404))
        \/ at' \in {"graph_org_role", "graph_project"}
    BY <1>5 DEF GraphOrg, Goto
  <2>3. QED
    BY <1>2, <1>3, <1>4, <2>1, <2>2
<1>6. CASE GraphProject
  BY <1>2, <1>3, <1>6 DEF GraphProject, Query, Goto
<1>7. QED
  BY <1>5, <1>6

LEMMA GraphRolesKeepTruth ==
  ASSUME Truth, Disclosure', GraphOrgRole \/ GraphProjectRole
  PROVE  Truth'
<1>1. /\ at \in {"graph_org_role", "graph_project_role"} /\ at # "idle"
      /\ Handling /\ UNCHANGED viewer /\ OrgAddressed \in Orgs
      /\ Target \in Orgs \cup Projects /\ DOMAIN seen = SeenFields
  BY SiteAssumption DEF GraphOrgRole, GraphProjectRole, Truth, Disclosure, Known,
     Permission, Fits, ProjectPlaces, OrgAddressed, Target
<1>2. ASSUME NEW status, Respond(MessagePage(status)), UNCHANGED seen,
             status # 404 \/ Refusable
      PROVE  Truth'
  BY <1>1, <1>2, MessageKeepsTruth
<1>3. ASSUME at' \in {"graph_packages", "graph_project_role"}, Errand',
             seen'.selected = seen.selected, seen'.rows = seen.rows,
             seen'.notice = seen.notice, seen'.created = seen.created
      PROVE  Truth'
  BY <1>1, <1>3, ReadOnKeepsTruth
<1>4. CASE GraphOrgRole
  <2> PICK result \in ExactOrgRole(OrgAddressed) :
         IF result = "failed" THEN Respond(MessagePage(503)) /\ UNCHANGED seen
         ELSE IF AfterOrgRole(result) = "refused"
         THEN Respond(MessagePage(404)) /\ UNCHANGED seen
         ELSE /\ Goto(AfterOrgRole(result))
              /\ seen' = [seen EXCEPT !.role = result]
    BY <1>4 DEF GraphOrgRole
  <2>1. result # "failed" /\ result = None /\ SignedIn => OrgAddressed \notin past.always
    BY <1>1, NoRoleNoStanding DEF ExactOrgRole
  <2>2. CASE result = "failed"
    BY <1>2, <2>2
  <2>3. CASE result # "failed" /\ AfterOrgRole(result) = "refused"
    <3>1. ASSUME SignedIn PROVE ~Belongs
      <4>1. result = None /\ Target \notin Projects
        BY <2>3, <3>1 DEF AfterOrgRole
      <4>2. ProjectAddressed = None
        BY <1>1, <4>1, SiteAssumption DEF ProjectAddressed
      <4>3. QED
        BY <1>1, <2>1, <2>3, <3>1, <4>1, <4>2, NoRoleNoStanding DEF Belongs
    <3>2. Refusable
      BY <3>1 DEF Refusable
    <3>3. QED
      BY <1>2, <2>3, <3>2
  <2>4. CASE result # "failed" /\ AfterOrgRole(result) # "refused"
    <3>1. at' = AfterOrgRole(result) /\ seen' = [seen EXCEPT !.role = result]
      BY <2>4 DEF Goto
    <3>2. seen'.selected = seen.selected /\ seen'.rows = seen.rows
          /\ seen'.notice = seen.notice /\ seen'.created = seen.created
      BY <1>1, <3>1 DEF SeenFields
    <3>3. at' \in {"graph_packages", "graph_project_role"}
          /\ (at' = "graph_project_role" => OrgAddressed \notin past.always)
      BY <2>1, <2>4, <3>1 DEF AfterOrgRole
    <3>4. Errand'
      BY <1>1, <3>3 DEF Errand, Pages, Posts, ConsolePlaces, Handling, traces,
         OrgAddressed, Target
    <3>5. QED
      BY <1>3, <3>2, <3>3, <3>4
  <2>5. QED
    BY <2>2, <2>3, <2>4
<1>5. CASE GraphProjectRole
  <2>1. ASSUME NEW result \in ExactProjectRole(Target), result # "failed", result = None
        PROVE  Refusable
    <3>1. Target \in Projects /\ ProjectAddressed = Target
      BY <1>5 DEF GraphProjectRole, Truth, Disclosure, Permission, Fits, ProjectPlaces,
         ProjectAddressed, Target
    <3>2. None # "member"
      BY SiteAssumption DEF Roles
    <3>3. SignedIn => ProjectAddressed \notin past.always
      BY <1>1, <2>1, <3>1, <3>2, NoRoleNoStanding DEF ExactProjectRole
    <3>4. QED
      BY <1>5, <3>3 DEF GraphProjectRole, Truth, Errand, Refusable, Belongs
  <2>2. ASSUME NEW result, Goto("graph_packages"), seen' = [seen EXCEPT !.direct = result]
        PROVE  Truth'
    <3>1. seen'.selected = seen.selected /\ seen'.rows = seen.rows
          /\ seen'.notice = seen.notice /\ seen'.created = seen.created
      BY <1>1, <2>2 DEF SeenFields
    <3>2. Errand'
      BY <2>2 DEF Errand, Goto, Pages, Posts, ConsolePlaces
    <3>3. QED
      BY <1>3, <2>2, <3>1, <3>2 DEF Goto
  <2>3. QED
    BY <1>2, <1>5, <2>1, <2>2 DEF GraphProjectRole
<1>6. QED
  BY <1>4, <1>5

\* A topology shows the rows that fit, and counts the others.
LEMMA CutsAreCounted ==
  ASSUME NEW rows, IsFiniteSet(rows), NEW sources \in SUBSET rows,
         \/ sources = rows /\ Cardinality(sources) <= ScopeLimit
         \/ Cardinality(sources) = ScopeLimit
  PROVE  Cardinality(sources) + Omitted(rows) = Cardinality(rows)
<1>1. /\ IsFiniteSet(sources) /\ Cardinality(sources) <= Cardinality(rows)
      /\ Cardinality(sources) \in Nat /\ Cardinality(rows) \in Nat
  BY FS_Subset, FS_CardinalityType
<1>2. QED
  BY <1>1, ScopeAssumption DEF Omitted

LEMMA GraphReadsKeepTruth ==
  ASSUME Truth, Disclosure', GraphPackages \/ GraphVersions \/ GraphLicenses
  PROVE  Truth'
<1>1. /\ at \in {"graph_packages", "graph_versions", "graph_licenses"} /\ at # "idle"
      /\ Handling /\ UNCHANGED viewer /\ DOMAIN seen = SeenFields
      /\ IsFiniteSet(seen.rows) /\ past.yanked \subseteq yanked
  BY DEF GraphPackages, GraphVersions, GraphLicenses, Query, Truth, Disclosure, Known,
     Standing
<1>2. ASSUME Respond(MessagePage(503)), UNCHANGED seen PROVE Truth'
  BY <1>1, <1>2, MessageKeepsTruth
<1>3. ASSUME at' = "graph_versions" \/ (at' = "graph_licenses" /\ seen'.rows \cap past.yanked = {}),
             IsFiniteSet(seen'.rows), seen'.selected = seen.selected,
             seen'.notice = seen.notice, seen'.created = seen.created
      PROVE  Truth'
  <2>1. Errand'
    BY <1>1, <1>3 DEF Errand, Pages, Posts, ConsolePlaces, Handling, traces
  <2>2. QED
    BY <1>1, <1>3, <2>1, GoOnKeepsTruth DEF Truth, Standing
<1>4. CASE GraphPackages
  <2> DEFINE rowsOf(listed) == {<<p, latest[p]>> : p \in {q \in listed : latest[q] # 0}}
  <2>1. ASSUME NEW packages \in Excerpts(InGraph, PackageLimit) PROVE IsFiniteSet(rowsOf(packages))
    <3>0. packages \subseteq Packages
      BY ReadOfRows DEF InGraph, Present
    <3>1. IsFiniteSet({q \in packages : latest[q] # 0})
      BY <3>0, FS_Subset, SiteAssumption
    <3> DEFINE versionOf == [p \in {q \in packages : latest[q] # 0} |-> <<p, latest[p]>>]
    <3>2. versionOf \in Surjection({q \in packages : latest[q] # 0}, rowsOf(packages))
      BY DEF Surjection
    <3>3. QED
      BY <3>1, <3>2, FS_Surjection
  <2>2. ASSUME NEW packages \in Excerpts(InGraph, PackageLimit), Goto("graph_versions"),
               seen' = [seen EXCEPT !.packages = packages, !.rows = rowsOf(packages)]
        PROVE  Truth'
    <3>1. seen'.rows = rowsOf(packages) /\ seen'.selected = seen.selected
          /\ seen'.notice = seen.notice /\ seen'.created = seen.created
      BY <1>1, <2>2 DEF SeenFields
    <3>2. QED
      BY <1>3, <2>1, <2>2, <3>1 DEF Goto
  <2>3. QED
    BY <1>2, <1>4, <2>2 DEF GraphPackages, Query
<1>5. CASE GraphVersions
  <2>1. ASSUME Goto("graph_licenses"), seen' = [seen EXCEPT !.rows = Rows(seen.rows)]
        PROVE  Truth'
    <3>1. seen'.rows = seen.rows \ yanked /\ seen'.selected = seen.selected
          /\ seen'.notice = seen.notice /\ seen'.created = seen.created
      BY <1>1, <2>1 DEF SeenFields, Rows
    <3>2. IsFiniteSet(seen'.rows)
      BY <1>1, <3>1, FS_Subset
    <3>3. QED
      BY <1>1, <1>3, <2>1, <3>1, <3>2 DEF Goto
  <2>2. QED
    BY <1>2, <1>5, <2>1 DEF GraphVersions, Query
<1>6. CASE GraphLicenses
  <2>1. ASSUME NEW sources \in SUBSET seen.rows, Respond(GraphPage(sources)),
               UNCHANGED seen,
               \/ sources = seen.rows /\ Cardinality(sources) <= ScopeLimit
               \/ Cardinality(sources) = ScopeLimit
        PROVE  Truth'
    <3>1. at' = "answered" /\ answer' = GraphPage(sources)
      BY <2>1 DEF Respond
    <3>2. answer'.status = 200 /\ answer'.selected = 0 /\ answer'.sources = sources
          /\ answer'.omitted = Omitted(seen.rows)
          /\ answer'.stage = "" /\ answer'.notice = ""
      BY <3>1 DEF GraphPage, Render, Page
    <3>3. sources \cap past.yanked = {}
      BY <1>6, <2>1 DEF GraphLicenses, Query, Truth, Errand
    <3>4. Cardinality(sources) + Omitted(seen.rows) = Cardinality(seen.rows)
      BY <1>1, <2>1, CutsAreCounted
    <3>5. MemberIsNotRefused'
      <4>1. answer'.status = 200
        BY <3>2, Zenon
      <4>2. QED
        BY <4>1 DEF MemberIsNotRefused, Answered, OrgAddressed, ProjectAddressed, Target
    <3>6. EnrollmentIsTruthful'
      BY <3>2 DEF EnrollmentIsTruthful
    <3>7. past' = past
      BY <1>1 DEF Handling, traces
    <3>8. GraphOpensOnWhatIsThere'
      BY <2>1, <3>2, <3>3, <3>4, <3>7 DEF GraphOpensOnWhatIsThere
    <3>9. QED
      BY <1>1, <2>1, <3>1, <3>5, <3>6, <3>8, AnswerKeepsStanding DEF Truth, Verdicts
  <2>2. QED
    BY <1>2, <1>6, <2>1 DEF GraphLicenses, Query
<1>7. QED
  BY <1>4, <1>5, <1>6

LEMMA GraphPagesKeepTruth ==
  ASSUME Truth, Disclosure', GraphPagesNext
  PROVE  Truth'
BY GraphScopeKeepsTruth, GraphRolesKeepTruth, GraphReadsKeepTruth DEF GraphPagesNext

LEMMA AccountKeepsTruth ==
  ASSUME Truth, Disclosure', Choose \/ RenderAccount \/ Entry \/ RenderFailure
  PROVE  Truth'
<1>1. /\ at # "idle" /\ at' = "answered" /\ Handling /\ UNCHANGED <<viewer, seen>>
  BY DEF Choose, RenderAccount, Entry, RenderFailure, Remains, Posts, Respond
<1>2. CASE Choose
  BY <1>1, <1>2, PlainKeepsTruth, PlainPages DEF Choose, Respond
<1>3. CASE Entry
  BY <1>1, <1>3, PlainKeepsTruth, PlainPages DEF Entry, Respond
<1>4. CASE RenderAccount \/ RenderFailure
  <2>1. PICK status, notice :
          /\ answer' = AccountPage(status, notice)
          /\ notice \in {"", seen.notice}
    BY <1>4 DEF RenderAccount, RenderFailure, Respond
  <2>2. /\ answer'.selected = 0 /\ answer'.sources = {}
        /\ answer'.stage = Stage /\ answer'.notice = notice /\ answer'.shows = Listed
    BY <2>1 DEF AccountPage, Render, Page
  <2>3. at \in {"individual", "organization"} \cup Posts /\ req.route = at
    BY <1>4 DEF RenderAccount, RenderFailure, Truth, Errand, Pages
  <2>4. Stage = "sign_in" => req.user = Nobody
    BY <2>3 DEF Stage, AccountUnavailable, Truth, Errand
  <2>5. Stage = "active" /\ Listed = {} => past.always \cap Orgs = {}
    BY <1>1 DEF Stage, AccountUnavailable, Truth, Standing
  <2>6. /\ notice # "Created"
        /\ notice \in {"Invalid", "Conflict", "Denied"} => ~seen.created
    BY <2>1 DEF Truth, Standing
  <2>7. UNCHANGED <<req, past>>
    BY <1>1 DEF Handling, traces
  <2>8. EnrollmentIsTruthful'
    BY <1>1, <2>2, <2>4, <2>5, <2>6, <2>7 DEF EnrollmentIsTruthful
  <2>9. GraphOpensOnWhatIsThere'
    BY <2>2 DEF GraphOpensOnWhatIsThere
  <2>10. MemberIsNotRefused'
    BY <2>3, <2>7 DEF MemberIsNotRefused, Posts
  <2>11. QED
    BY <1>1, <2>8, <2>9, <2>10, AnswerKeepsStanding DEF Truth, Verdicts
<1>5. QED
  BY <1>2, <1>3, <1>4

LEMMA EntryKeepsTruth ==
  ASSUME Truth, Disclosure', EntryUnavailable
  PROVE  Truth'
<1>1. /\ at = "entry" /\ at' = "resolve" /\ viewer' = Anonymous
      /\ req'.thing = req.thing /\ req'.user = req.user
      /\ UNCHANGED <<startupVars, registry, seen, past>>
  BY DEF EntryUnavailable, traces, Truth, Disclosure, Known
<1>2. Standing'
  BY <1>1 DEF Truth, Standing, startupVars, registry, Stands, MemberOf, DirectOf,
     Roster, Present, Target, SignedIn, Anonymous
<1>3. Errand'
  BY <1>1 DEF Errand, Pages, Posts, ConsolePlaces
<1>4. Verdicts'
  BY <1>1 DEF Verdicts, MemberIsNotRefused, GraphOpensOnWhatIsThere,
     EnrollmentIsTruthful, Answered
<1>5. QED
  BY <1>2, <1>3, <1>4 DEF Truth

\* What is refused by name was not created.
LEMMA FormFailureKeepsTruth ==
  ASSUME Truth, Disclosure', at \in {"enroll", "enroll_created"}, Handling,
         UNCHANGED viewer, NEW status \in Statuses, EnrollFails(status),
         at = "enroll" \/ status \in {500, 502, 503}
  PROVE  Truth'
<1>1. DOMAIN seen = SeenFields /\ at # "idle"
  BY DEF Truth, Disclosure, Known
<1>2. CASE status = 401
  BY <1>1, <1>2, MessageKeepsTruth DEF EnrollFails
<1>3. CASE status # 401
  <2>1. at' = "resolve" /\ seen' = [seen EXCEPT !.status = Failure(status)[1],
                                                !.notice = Failure(status)[2]]
    BY <1>3 DEF EnrollFails, Goto
  <2>2. /\ seen'.notice = Failure(status)[2] /\ seen'.created = seen.created
        /\ seen'.selected = seen.selected /\ seen'.rows = seen.rows
    BY <1>1, <2>1 DEF SeenFields
  <2>3. /\ Failure(status)[2] \in {"Unavailable", "Invalid", "Conflict", "Denied"}
        /\ status \in {500, 502, 503} => Failure(status)[2] = "Unavailable"
    <3>1. CASE status \in {400, 422}
      BY <3>1 DEF Failure
    <3>2. CASE status = 409
      BY <3>2 DEF Failure
    <3>3. CASE status = 403
      BY <3>3 DEF Failure
    <3>4. CASE status \in {429, 500, 502, 503}
      BY <3>4 DEF Failure
    <3>5. CASE status \notin {400, 422, 409, 403, 429, 500, 502, 503}
      BY <3>5 DEF Failure
    <3>6. QED
      BY <3>1, <3>2, <3>3, <3>4, <3>5
  <2>4. at = "enroll" => ~seen.created
    BY DEF Truth, Errand
  <2>5. Errand'
    BY <2>1 DEF Errand, Pages, Posts, ConsolePlaces
  <2>6. \/ seen'.notice \in {"", "Unavailable"}
        \/ seen'.notice \in {"Invalid", "Conflict", "Denied"} /\ ~seen'.created
    <3>1. CASE at = "enroll"
      <4>1. ~seen'.created
        BY <2>2, <2>4, <3>1, Zenon
      <4>2. seen'.notice \in {"Unavailable", "Invalid", "Conflict", "Denied"}
        BY <2>2, <2>3
      <4>3. QED
        BY <4>1, <4>2
    <3>2. CASE status \in {500, 502, 503}
      BY <2>2, <2>3, <3>2
    <3>3. QED
      BY <3>1, <3>2
  <2>7. /\ seen'.selected # 0 => <<Target, seen'.selected>> \notin past.yanked
        /\ IsFiniteSet(seen'.rows)
    BY <2>2 DEF Truth, Standing
  <2>8. QED
    BY <1>1, <2>1, <2>5, <2>6, <2>7, GoOnKeepsTruth
<1>4. QED
  BY <1>2, <1>3

LEMMA CreationKeepsTruth ==
  ASSUME Truth, Disclosure', ApiCreates
  PROVE  Truth'
<1>1. /\ at = "enroll" /\ at' = "enroll_created" /\ Remember
      /\ seen' = [seen EXCEPT !.created = TRUE]
      /\ orgs' = orgs \cup {Target}
      /\ role' = [role EXCEPT ![Subject][Target] = "admin"]
      /\ UNCHANGED <<startupVars, req, viewer, direct, yanked>>
  BY DEF ApiCreates, Goto
<1>2. /\ seen'.notice = "" /\ seen'.created = TRUE
      /\ seen'.selected = seen.selected /\ seen'.rows = seen.rows
  BY <1>1 DEF SeenFields, Truth, Disclosure, Known, Errand
<1>3. /\ past'.yanked = past.yanked
      /\ past'.always \subseteq past.always
      /\ past'.always \subseteq Stands(req.user)'
  BY <1>1 DEF Remember, Truth, Disclosure, Known, PastFields
<1>4. \A u \in Users, o \in Orgs : role'[u][o] # None => o \in orgs'
  BY <1>1 DEF Truth, Standing, Disclosure, Known
<1>5. Standing'
  BY <1>1, <1>2, <1>3, <1>4 DEF Truth, Standing, startupVars, Target, SignedIn, Listed
<1>6. Errand'
  BY <1>1, <1>2 DEF Truth, Errand, Pages, Posts, ConsolePlaces
<1>7. Verdicts'
  BY <1>1 DEF Verdicts, MemberIsNotRefused, GraphOpensOnWhatIsThere,
     EnrollmentIsTruthful, Answered
<1>8. QED
  BY <1>5, <1>6, <1>7 DEF Truth

LEMMA EnrollmentKeepsTruth ==
  ASSUME Truth, Disclosure', EnrollmentNext
  PROVE  Truth'
<1>1. CASE EnrollRefused
  <2>1. at = "enroll" /\ at # "idle" /\ Handling /\ UNCHANGED viewer
    BY <1>1 DEF EnrollRefused
  <2>2. \/ \E status \in {401, 403, 502, 503} : EnrollFails(status)
        \/ Respond(Message(303)) /\ UNCHANGED seen
    BY <1>1 DEF EnrollRefused
  <2>3. QED
    BY <2>1, <2>2, FormFailureKeepsTruth, MessageKeepsTruth DEF Statuses
<1>2. CASE ApiRefuses
  <2>1. at = "enroll" /\ Handling /\ UNCHANGED viewer
        /\ \E status \in Statuses : EnrollFails(status)
    BY <1>2 DEF ApiRefuses, Statuses
  <2>2. QED
    BY <2>1, FormFailureKeepsTruth
<1>3. CASE EnrollAnswered
  <2>1. at = "enroll_created" /\ at # "idle" /\ Handling /\ UNCHANGED viewer
    BY <1>3 DEF EnrollAnswered
  <2>2. ASSUME NEW status \in {500, 502, 503}, EnrollFails(status) PROVE Truth'
    BY <2>1, <2>2, FormFailureKeepsTruth DEF Statuses
  <2>3. ASSUME Respond([Message(303) EXCEPT !.notice = "Created"]), UNCHANGED seen
        PROVE  Truth'
    <3>1. at' = "answered" /\ answer' = [Message(303) EXCEPT !.notice = "Created"]
      BY <2>3 DEF Respond
    <3>2. answer'.status = 303 /\ answer'.selected = 0 /\ answer'.sources = {}
          /\ answer'.stage = "" /\ answer'.notice = "Created"
      BY <3>1 DEF Message, Page
    <3>3. seen.created
      BY <2>1 DEF Truth, Errand
    <3>4. MemberIsNotRefused'
      <4>1. answer'.status = 303
        BY <3>2, Zenon
      <4>2. QED
        BY <4>1 DEF MemberIsNotRefused, Answered, OrgAddressed, ProjectAddressed, Target
    <3>5. GraphOpensOnWhatIsThere' /\ EnrollmentIsTruthful'
      BY <2>3, <3>2, <3>3 DEF GraphOpensOnWhatIsThere, EnrollmentIsTruthful
    <3>6. QED
      BY <2>1, <2>3, <3>1, <3>4, <3>5, AnswerKeepsStanding DEF Truth, Verdicts
  <2>4. QED
    BY <1>3, <2>2, <2>3 DEF EnrollAnswered
<1>4. QED
  BY <1>1, <1>2, <1>3, AccountKeepsTruth, EntryKeepsTruth, CreationKeepsTruth
     DEF EnrollmentNext

LEMMA InitTruth == Init => Truth
<1> SUFFICES ASSUME Init PROVE Truth
  OBVIOUS
<1>1. PICK r \in Registries : orgs = r.orgs /\ role = r.role /\ direct = r.direct
  BY DEF Init
<1>2. /\ \A u \in Users, o \in Orgs : role[u][o] # None => o \in orgs
      /\ \A u \in Users, j \in Projects : <<u, j>> \in direct => OrgOf[j] \in orgs
  BY <1>1, RegistriesAssumption
<1>3. at = "idle" /\ seen = NotSeen
  BY DEF Init
<1>4. Standing
  BY <1>2, <1>3, FS_EmptySet DEF Standing, NotSeen
<1>5. Errand
  BY <1>3 DEF Errand, Pages, Posts, ConsolePlaces
<1>6. Verdicts
  BY <1>3 DEF Verdicts, MemberIsNotRefused, GraphOpensOnWhatIsThere,
     EnrollmentIsTruthful, Answered
<1>7. QED
  BY <1>4, <1>5, <1>6, InitDisclosure DEF Truth

LEMMA StepKeepsTruth == Truth /\ [Next]_vars => Truth'
<1> SUFFICES ASSUME Truth, [Next]_vars PROVE Truth'
  OBVIOUS
<1>1. Disclosure'
  BY StepKeepsDisclosure DEF Truth
<1>2. ASSUME UNCHANGED pageVars, UNCHANGED startupVars \/ phase # "serving"
      PROVE  Truth'
  <2>1. Standing'
    BY <1>2 DEF pageVars, startupVars, registry, request, traces, Truth, Standing,
       Stands, MemberOf, DirectOf, Roster, Present, Target, SignedIn, Listed
  <2>2. Errand'
    BY <1>2 DEF pageVars, startupVars, registry, request, traces, Truth, Standing,
       Errand, Target, OrgAddressed, SignedIn, IsPublic, Pages, Posts, ConsolePlaces
  <2>3. Verdicts'
    BY <1>2 DEF pageVars, request, traces, Truth, Verdicts, MemberIsNotRefused,
       GraphOpensOnWhatIsThere, EnrollmentIsTruthful, Answered, OrgAddressed,
       ProjectAddressed, Target
  <2>4. QED
    BY <1>1, <2>1, <2>2, <2>3 DEF Truth
<1>3. StartupNext => phase # "serving"
  BY DEF StartupNext, Connect, ConnectFails, Pause, Configure
<1>4. CASE Timeout
  BY <1>1, <1>4, MessageKeepsTruth DEF Timeout
<1>5. CASE Asking
  BY <1>1, <1>5, ArriveKeepsTruth DEF Asking
<1>6. CASE Answering
  BY <1>1, <1>4, <1>6, ResolveKeepsTruth, RegistryPagesKeepTruth, GraphPagesKeepTruth,
     EnrollmentKeepsTruth, DeliverKeepsTruth DEF Answering
<1>7. QED
  BY <1>1, <1>2, <1>3, <1>5, <1>6, ChangeKeepsTruth
     DEF Next, Starting, Paging, SigningIn, vars

\* A member of an organisation, or of the project itself, is told by none of the
\* exact pages that what is there is not, whatever changes meanwhile and whichever
\* other query fails.
THEOREM MembersAreNotRefused == Spec => []MemberIsNotRefused
<1>1. Truth => MemberIsNotRefused
  BY DEF Truth, Verdicts
<1>2. QED
  BY InitTruth, StepKeepsTruth, <1>1, PTL DEF Spec

\* A workspace opens on an option of its own that was not yanked when it was
\* asked for, and what a topology leaves out is counted, for any limit.
THEOREM GraphsOpenOnWhatIsThere == Spec => []GraphOpensOnWhatIsThere
<1>1. Truth => GraphOpensOnWhatIsThere
  BY DEF Truth, Verdicts
<1>2. QED
  BY InitTruth, StepKeepsTruth, <1>1, PTL DEF Spec

\* Enrollment asks only strangers to sign in and reports an organisation created
\* or refused only if it was, although the API's answers are lost.
THEOREM EnrollmentTellsTheTruth == Spec => []EnrollmentIsTruthful
<1>1. Truth => EnrollmentIsTruthful
  BY DEF Truth, Verdicts
<1>2. QED
  BY InitTruth, StepKeepsTruth, <1>1, PTL DEF Spec

-----------------------------------------------------------------------------
(* The types of the pages. *)

SeenTyped(s) ==
  /\ s.versions \subseteq Version /\ s.latest \in Nat /\ s.selected \in Nat
  /\ s.status \in Statuses \cup {0}

PageTyped(page) ==
  /\ page.status \in Statuses \cup {0}
  /\ page.offers \subseteq Asks
  /\ page.versions \subseteq Version

RegistryTyped ==
  /\ orgs \subseteq Orgs
  /\ visibility \in [Packages -> {"absent", "private", "public"}]
  /\ latest \in [Packages -> Nat]
  /\ yanked \subseteq Packages \X Nat
  /\ changes \in 0 .. MaxChanges
  /\ past.ever \subseteq Things /\ past.always \subseteq Things

PagesTyped ==
  /\ RegistryTyped
  /\ viewer.roles \in [Orgs -> Roles \cup {None}]
  /\ SeenTyped(seen) /\ PageTyped(answer)

\* What Disclosure says of the kinds of things, with the types.
SiteTyped == Disclosure /\ PagesTyped

LEMMA HandlingKeepsTypes ==
  ASSUME SiteTyped, Handling, viewer'.roles \in [Orgs -> Roles \cup {None}],
         SeenTyped(seen'), PageTyped(answer')
  PROVE  PagesTyped'
BY DEF SiteTyped, PagesTyped, RegistryTyped, Handling, registry, traces, SeenTyped, PageTyped

LEMMA LinkTyped ==
  ASSUME NEW route \in Pages, NEW thing \in Things \cup {None}
  PROVE  Link(route, thing) \in Asks
BY DEF Link, Asks

LEMMA KindsOfThings ==
  /\ Orgs \subseteq Things /\ Projects \subseteq Things /\ Packages \subseteq Things
  /\ \A t \in Projects \cup Packages : OrgOf[t] \in Orgs
  /\ {"dashboard", "project_settings", "package", "org_settings", "settings", "choose",
      "individual", "organization", "project_graph", "org_graph", "package_settings"}
       \subseteq Pages
BY SiteAssumption DEF Things, Pages

LEMMA LayoutTyped ==
  ASSUME NEW context \in Things \cup {None}
  PROVE  Layout(context) \subseteq Asks
<1>1. Breadcrumb(context) \subseteq Asks
  <2>1. CASE context = None
    BY <2>1, SiteAssumption DEF Breadcrumb, Things
  <2>2. CASE context \in Orgs
    BY <2>2, LinkTyped, KindsOfThings, SiteAssumption DEF Breadcrumb, Things
  <2>3. CASE context \in Projects
    BY <2>3, LinkTyped, KindsOfThings, SiteAssumption DEF Breadcrumb, Things
  <2>4. CASE context \in Packages
    BY <2>4, LinkTyped, KindsOfThings, SiteAssumption DEF Breadcrumb, Things
  <2>5. QED
    BY <2>1, <2>2, <2>3, <2>4 DEF Things
<1>2. CreateMenu(context) \subseteq Asks
  BY LinkTyped, KindsOfThings DEF CreateMenu
<1>3. AccountMenu \subseteq Asks
  BY LinkTyped, KindsOfThings DEF AccountMenu, Listed
<1>4. {Link("individual", None), Link("organization", None)} \subseteq Asks
  BY LinkTyped, KindsOfThings
<1>5. QED
  BY <1>1, <1>2, <1>3, <1>4 DEF Layout

LEMMA RenderTyped ==
  ASSUME NEW status \in Statuses, NEW context \in Things \cup {None}, NEW shows,
         NEW offers \in SUBSET Asks
  PROVE  PageTyped(Render(status, context, shows, offers))
BY LayoutTyped DEF PageTyped, Render, Page

LEMMA MessageTyped ==
  ASSUME NEW status \in Statuses
  PROVE  PageTyped(MessagePage(status)) /\ PageTyped(Message(status))
<1>1. PageTyped(MessagePage(status))
  BY RenderTyped DEF MessagePage
<1>2. PageTyped(Message(status))
  BY DEF PageTyped, Message, Page
<1>3. QED
  BY <1>1, <1>2

\* The links of a list lead to pages.
LEMMA LinksTyped ==
  ASSUME NEW route \in Pages, NEW set \in SUBSET Things
  PROVE  {Link(route, thing) : thing \in set} \subseteq Asks
BY LinkTyped

LEMMA LiteralStatuses ==
  {200, 303, 307, 400, 403, 404, 408, 409, 502, 503} \subseteq Statuses
BY DEF Statuses

\* A handler's step that answers with a page of the shell, or reads on.
LEMMA StepsKeepTypes ==
  ASSUME SiteTyped, Handling, UNCHANGED viewer
  PROVE  /\ UNCHANGED answer /\ SeenTyped(seen') => PagesTyped'
         /\ UNCHANGED seen /\ PageTyped(answer') => PagesTyped'
         /\ UNCHANGED seen => \A status \in Statuses :
              Respond(MessagePage(status)) \/ Respond(Message(status)) => PagesTyped'
         /\ UNCHANGED seen =>
              \A status \in Statuses, context \in Things \cup {None}, offers \in SUBSET Asks :
              \A shows : Respond(Render(status, context, shows, offers)) => PagesTyped'
<1>1. viewer'.roles \in [Orgs -> Roles \cup {None}] /\ SeenTyped(seen) /\ PageTyped(answer)
  BY DEF SiteTyped, PagesTyped
<1>2. UNCHANGED answer /\ SeenTyped(seen') => PagesTyped'
  BY <1>1, HandlingKeepsTypes
<1>3. UNCHANGED seen /\ PageTyped(answer') => PagesTyped'
  BY <1>1, HandlingKeepsTypes
<1>4. ASSUME UNCHANGED seen, NEW status \in Statuses,
             Respond(MessagePage(status)) \/ Respond(Message(status))
      PROVE  PagesTyped'
  BY <1>3, <1>4, MessageTyped DEF Respond
<1>5. ASSUME UNCHANGED seen, NEW status \in Statuses,
             NEW context \in Things \cup {None}, NEW shows, NEW offers \in SUBSET Asks,
             Respond(Render(status, context, shows, offers))
      PROVE  PagesTyped'
  BY <1>3, <1>5, RenderTyped DEF Respond
<1>6. QED
  BY <1>2, <1>3, <1>4, <1>5

LEMMA ListingPagesKeepTypes ==
  ASSUME SiteTyped, Home \/ Search \/ UserSettings
  PROVE  PagesTyped'
<1>1. Handling /\ UNCHANGED <<viewer, seen>> /\ 200 \in Statuses /\ 307 \in Statuses
  BY LiteralStatuses DEF Home, Search, UserSettings, Remains
<1>2. ASSUME NEW packages \in SUBSET Packages, Respond(PackageRows(packages))
      PROVE  PagesTyped'
  <2> DEFINE links == {Link("package", p) : p \in packages}
  <2>1. links \in SUBSET Asks
    BY LinkTyped, KindsOfThings
  <2>2. Respond(Render(200, None, packages, links))
    BY <1>2 DEF PackageRows
  <2> HIDE DEF links
  <2>3. QED
    BY <1>1, <2>1, <2>2, StepsKeepTypes
<1>3. CASE Home
  <2>1. ASSUME NEW projects \in SUBSET ProjectsOfViewer, Respond(HomeOfViewer(projects))
        PROVE  PagesTyped'
    <3> DEFINE links == {Link("project_settings", j) : j \in projects}
                          \cup (IF Listed = {} THEN {Link("choose", None)} ELSE {})
    <3>1. projects \subseteq Projects
      BY DEF ProjectsOfViewer
    <3>2. links \in SUBSET Asks
      BY <3>1, LinkTyped, KindsOfThings
    <3>3. Respond(Render(200, None, projects, links))
      BY <2>1 DEF HomeOfViewer
    <3> HIDE DEF links
    <3>4. QED
      BY <1>1, <3>2, <3>3, StepsKeepTypes
  <2>2. PICK outcome \in Outcomes :
          \/ \E projects \in Read(db /\ outcome = "ok", ProjectsOfViewer, ProjectLimit) :
               Respond(HomeOfViewer(projects))
          \/ \E recent \in Read(db /\ outcome = "ok", Published, PackageLimit) :
               Respond(PackageRows(recent))
    BY <1>3 DEF Home
  <2>3. Published \subseteq Packages
    BY DEF Published
  <2>4. QED
    BY <1>2, <2>1, <2>2, <2>3, ReadOfRows
<1>4. CASE Search
  <2> DEFINE found == Published \cup {p \in Present : OrgOf[p] \in SearchScope}
  <2>1. PICK outcome \in Outcomes :
          \E shown \in Read(db /\ outcome = "ok", found, PackageLimit) : Respond(PackageRows(shown))
    BY <1>4 DEF Search
  <2>2. found \subseteq Packages
    BY DEF Published, Present
  <2>3. QED
    <3> HIDE DEF found
    <3>1. QED
      BY <1>2, <2>1, <2>2, ReadOfRows
<1>5. CASE UserSettings
  <2> DEFINE links == {Link("dashboard", o) : o \in Listed}
  <2>1. links \in SUBSET Asks
    BY LinkTyped, KindsOfThings DEF Listed
  <2>2. Respond(Render(200, None, {}, links)) \/ Respond(Message(307))
    BY <1>5 DEF UserSettings
  <2>3. QED
    <3> HIDE DEF links
    <3>1. QED
      BY <1>1, <2>1, <2>2, StepsKeepTypes
<1>6. QED
  BY <1>3, <1>4, <1>5

LEMMA PackageKeepsTypes ==
  ASSUME SiteTyped,
         \/ FindPackage \/ PackageOrgRole \/ PackageProjectRole
         \/ PackageVersions \/ PackageLatest
  PROVE  PagesTyped'
<1>1. /\ Handling /\ UNCHANGED viewer /\ DOMAIN seen = SeenFields /\ SeenTyped(seen)
      /\ Target \in Packages
      /\ latest[Target] \in Nat
  BY DEF FindPackage, PackageOrgRole, PackageProjectRole, PackageVersions, PackageLatest,
     SiteTyped, PagesTyped, RegistryTyped, Disclosure, Known, Permission, Fits,
     PackagePlaces, Target
<1>2. ASSUME UNCHANGED seen, NEW status \in {404, 503}, Respond(MessagePage(status))
      PROVE  PagesTyped'
  BY <1>1, <1>2, StepsKeepTypes, LiteralStatuses
<1>3. ASSUME UNCHANGED answer, SeenTyped(seen') PROVE PagesTyped'
  BY <1>1, <1>3, StepsKeepTypes
<1>4. CASE FindPackage
  <2>1. ASSUME seen' = [seen EXCEPT !.visibility = visibility[Target],
                                    !.latest = latest[Target]]
        PROVE  SeenTyped(seen')
    BY <1>1, <2>1 DEF SeenTyped, SeenFields
  <2>2. QED
    BY <1>2, <1>3, <1>4, <2>1 DEF FindPackage, Goto
<1>5. ASSUME NEW orgRole, NEW projectRole, Authorize(orgRole, projectRole)
      PROVE  PagesTyped'
  <2>1. ASSUME seen' = [seen EXCEPT !.role = orgRole, !.direct = projectRole]
        PROVE  SeenTyped(seen')
    BY <1>1, <2>1 DEF SeenTyped, SeenFields
  <2>2. QED
    BY <1>2, <1>3, <1>5, <2>1 DEF Authorize, Goto
<1>6. CASE PackageOrgRole
  BY <1>1, <1>2, <1>3, <1>5, <1>6 DEF PackageOrgRole, Goto
<1>7. CASE PackageProjectRole
  BY <1>2, <1>5, <1>7 DEF PackageProjectRole
<1>8. CASE PackageVersions
  <2>1. ASSUME NEW versions \in SUBSET (1 .. latest[Target]),
               seen' = [seen EXCEPT !.versions = versions]
        PROVE  SeenTyped(seen')
    <3>1. versions \subseteq Version
      BY <1>1 DEF Version
    <3>2. QED
      BY <1>1, <2>1, <3>1 DEF SeenTyped, SeenFields
  <2>2. QED
    BY <1>2, <1>3, <1>8, <2>1 DEF PackageVersions, Goto
<1>9. CASE PackageLatest
  <2>1. ASSUME seen' = [seen EXCEPT !.selected = Selected(Target, seen.latest)]
        PROVE  SeenTyped(seen')
    BY <1>1, <2>1 DEF SeenTyped, SeenFields, Selected
  <2>2. QED
    BY <1>2, <1>3, <1>9, <2>1 DEF PackageLatest, Goto
<1>10. QED
  BY <1>4, <1>6, <1>7, <1>8, <1>9

LEMMA PackagePageTyped ==
  ASSUME SiteTyped, Target \in Packages, NEW project \in SUBSET Projects
  PROVE  PageTyped(PackagePage(project))
<1> DEFINE links == {Link("project_graph", j) : j \in project}
             \cup (IF seen.role # None THEN {Link("org_graph", OrgOf[Target])} ELSE {})
             \cup (IF seen.role = "admin" THEN {Link("package_settings", Target)} ELSE {})
           shell == Render(200, Target, {Target} \cup project, links)
<1>1. links \in SUBSET Asks
  BY LinkTyped, KindsOfThings
<1>2. PageTyped(shell)
  <2> HIDE DEF links
  <2>1. QED
    BY <1>1, RenderTyped, LiteralStatuses, KindsOfThings
<1>3. VersionOptions \subseteq Version
  BY DEF VersionOptions, SiteTyped, PagesTyped, SeenTyped, Version
<1>4. shell.status = shell.status /\ PackagePage(project)
        = [shell EXCEPT !.selected = seen.selected, !.versions = VersionOptions]
  BY DEF PackagePage
<1>5. DOMAIN shell = {"status", "shows", "offers", "selected", "versions", "sources",
                      "omitted", "stage", "notice"}
  BY DEF Render, Page
<1>6. QED
  <2> HIDE DEF shell
  <2>1. QED
    BY <1>2, <1>3, <1>4, <1>5 DEF PageTyped

LEMMA PackageProjectKeepsTypes ==
  ASSUME SiteTyped, PackageProject
  PROVE  PagesTyped'
<1>1. /\ Handling /\ UNCHANGED <<viewer, seen>> /\ Target \in Packages
  BY DEF PackageProject, Remains, SiteTyped, Disclosure, Permission, Fits, PackagePlaces,
     Target
<1> DEFINE j == ProjectOf[Target]
           asked == (seen.role # None \/ seen.direct # None) /\ j # None
<1>2. PICK outcome \in Outcomes :
        Respond(PackagePage(IF asked /\ outcome = "ok"
                            THEN {k \in {j} : OrgOf[k] = OrgOf[Target]} ELSE {}))
  BY DEF PackageProject
<1> DEFINE project == IF asked /\ outcome = "ok"
                      THEN {k \in {j} : OrgOf[k] = OrgOf[Target]} ELSE {}
<1>3. project \in SUBSET Projects
  <2>1. asked => j \in Projects
    BY <1>1, SiteAssumption
  <2>2. QED
    BY <2>1
<1>4. Respond(PackagePage(project))
  BY <1>2
<1>5. QED
  <2> HIDE DEF project
  <2>1. QED
    BY <1>1, <1>3, <1>4, PackagePageTyped, StepsKeepTypes DEF Respond

LEMMA ConsoleKeepsTypes ==
  ASSUME SiteTyped,
         \/ OrgScope \/ DashboardProjects \/ DashboardPackages
         \/ ProjectSettingsProject \/ ProjectSettingsPackages \/ PackageSettings
  PROVE  PagesTyped'
<1>1. /\ Handling /\ UNCHANGED viewer /\ DOMAIN seen = SeenFields /\ SeenTyped(seen)
      /\ at \in {"dashboard", "org_settings", "project_settings", "package_settings"}
              \cup ConsolePlaces
      /\ Fits(at, Target) /\ Target \in Things
  BY DEF OrgScope, DashboardProjects, DashboardPackages, ProjectSettingsProject,
     ProjectSettingsPackages, PackageSettings, Remains, SiteTyped, PagesTyped,
     Disclosure, Known, Permission, Target, Fits, PackagePlaces, ConsolePlaces, OrgPlaces,
     ProjectPlaces, Things
<1>2. 200 \in Statuses /\ 403 \in Statuses /\ 404 \in Statuses /\ 503 \in Statuses
  BY LiteralStatuses
<1>3. ASSUME UNCHANGED answer, SeenTyped(seen') PROVE PagesTyped'
  BY <1>1, <1>3, StepsKeepTypes
<1>4. ASSUME UNCHANGED seen, NEW status \in Statuses, Respond(MessagePage(status))
      PROVE  PagesTyped'
  BY <1>1, <1>4, StepsKeepTypes
<1>5. ASSUME UNCHANGED seen, NEW shows, NEW offers \in SUBSET Asks,
             Respond(Render(200, Target, shows, offers))
      PROVE  PagesTyped'
  BY <1>1, <1>2, <1>5, StepsKeepTypes
<1>6. CASE OrgScope
  <2>1. UNCHANGED seen
    BY <1>6 DEF OrgScope, Remains
  <2>2. \/ \E status \in {403, 404, 503} : Respond(MessagePage(status))
        \/ UNCHANGED answer
        \/ Respond(Render(200, Target, {Target}, {}))
    BY <1>6 DEF OrgScope, Goto
  <2>3. QED
    BY <1>1, <1>2, <1>3, <1>4, <1>5, <2>1, <2>2
<1>7. CASE DashboardProjects
  <2>1. \E projects : seen' = [seen EXCEPT !.projects = projects]
    BY <1>7 DEF DashboardProjects
  <2>2. SeenTyped(seen') /\ UNCHANGED answer
    BY <1>1, <1>7, <2>1 DEF SeenTyped, SeenFields, DashboardProjects, Goto
  <2>3. QED
    BY <1>3, <2>2
<1>8. CASE DashboardPackages
  <2>1. PICK outcome \in Outcomes :
          \E packages \in Read(outcome = "ok", InOrg(Target, Present), PackageLimit) :
            Respond(Render(200, Target, {Target} \cup seen.projects \cup packages,
              {Link("org_graph", Target)}
                \cup (IF CanAdminister(Target) THEN {Link("org_settings", Target)} ELSE {})
                \cup {Link("project_settings", j) : j \in seen.projects}
                \cup {Link("package", p) : p \in packages}))
    BY <1>8 DEF DashboardPackages
  <2>0. PICK packages \in Read(outcome = "ok", InOrg(Target, Present), PackageLimit) :
          Respond(Render(200, Target, {Target} \cup seen.projects \cup packages,
            {Link("org_graph", Target)}
              \cup (IF CanAdminister(Target) THEN {Link("org_settings", Target)} ELSE {})
              \cup {Link("project_settings", j) : j \in seen.projects}
              \cup {Link("package", p) : p \in packages}))
    BY <2>1
  <2> DEFINE links == {Link("org_graph", Target)}
                  \cup (IF CanAdminister(Target) THEN {Link("org_settings", Target)} ELSE {})
                  \cup {Link("project_settings", j) : j \in seen.projects}
                  \cup {Link("package", p) : p \in packages}
  <2>2. seen.projects \subseteq Projects /\ UNCHANGED seen
    BY <1>8 DEF DashboardPackages, Remains, SiteTyped, Disclosure, Permission, InOrg
  <2>3. packages \subseteq Packages
    BY ReadOfRows DEF InOrg, Present
  <2>4. links \in SUBSET Asks
    BY <1>1, <2>2, <2>3, LinkTyped, KindsOfThings
  <2>5. Respond(Render(200, Target, {Target} \cup seen.projects \cup packages, links))
    BY <2>0
  <2>6. QED
    <3> HIDE DEF links
    <3>1. QED
      BY <1>5, <2>2, <2>4, <2>5
<1>9. CASE ProjectSettingsProject
  <2>1. UNCHANGED seen /\ (UNCHANGED answer \/ Respond(MessagePage(404)))
    BY <1>9 DEF ProjectSettingsProject, Remains, Goto
  <2>2. QED
    BY <1>1, <1>2, <1>3, <1>4, <2>1
<1>10. CASE ProjectSettingsPackages
  <2>1. PICK outcome \in Outcomes :
          \E packages \in Read(outcome = "ok", {p \in Present : ProjectOf[p] = Target}, PackageLimit) :
            Respond(Render(200, Target, {OrgOf[Target], Target} \cup packages,
              {Link("project_graph", Target), Link("dashboard", OrgOf[Target])}
                \cup {Link("package", p) : p \in packages}))
    BY <1>10 DEF ProjectSettingsPackages
  <2>0. PICK packages \in Read(outcome = "ok", {p \in Present : ProjectOf[p] = Target}, PackageLimit) :
          Respond(Render(200, Target, {OrgOf[Target], Target} \cup packages,
            {Link("project_graph", Target), Link("dashboard", OrgOf[Target])}
              \cup {Link("package", p) : p \in packages}))
    BY <2>1
  <2> DEFINE links == {Link("project_graph", Target), Link("dashboard", OrgOf[Target])}
                  \cup {Link("package", p) : p \in packages}
  <2>2. packages \subseteq Packages
    BY ReadOfRows DEF Present
  <2>3. Target \in Projects
    BY <1>1, <1>10 DEF ProjectSettingsPackages, Fits, ProjectPlaces
  <2>4. links \in SUBSET Asks
    BY <2>2, <2>3, LinkTyped, KindsOfThings
  <2>5. Respond(Render(200, Target, {OrgOf[Target], Target} \cup packages, links))
    BY <2>0
  <2>6. QED
    <3> HIDE DEF links
    <3>1. QED
      BY <1>5, <1>10, <2>4, <2>5 DEF ProjectSettingsPackages, Remains
<1>11. CASE PackageSettings
  <2> DEFINE links == {Link("package", Target)}
  <2>1. links \in SUBSET Asks
    BY <1>1, LinkTyped, KindsOfThings
  <2>2. \/ Respond(MessagePage(404))
        \/ Respond(Render(200, Target, {OrgOf[Target], Target}, links))
    BY <1>11 DEF PackageSettings
  <2>3. QED
    <3> HIDE DEF links
    <3>1. QED
      BY <1>2, <1>4, <1>5, <1>11, <2>1, <2>2 DEF PackageSettings, Remains
<1>12. QED
  BY <1>6, <1>7, <1>8, <1>9, <1>10, <1>11

LEMMA GraphPageTyped ==
  ASSUME SiteTyped, Target \in Orgs \cup Projects, NEW sources
  PROVE  PageTyped(GraphPage(sources))
<1> DEFINE links == {IF Target \in Orgs THEN Link("dashboard", Target)
                     ELSE Link("project_settings", Target)}
           shell == Render(200, Target, {Target} \cup {row[1] : row \in sources}, links)
<1>1. links \in SUBSET Asks
  BY LinkTyped, KindsOfThings
<1>2. PageTyped(shell)
  <2> HIDE DEF links
  <2>1. QED
    BY <1>1, RenderTyped, LiteralStatuses, KindsOfThings
<1>3. GraphPage(sources) = [shell EXCEPT !.sources = sources, !.omitted = Omitted(seen.rows)]
  BY DEF GraphPage
<1>4. DOMAIN shell = {"status", "shows", "offers", "selected", "versions", "sources",
                      "omitted", "stage", "notice"}
  BY DEF Render, Page
<1>5. QED
  <2> HIDE DEF shell
  <2>1. QED
    BY <1>2, <1>3, <1>4 DEF PageTyped

LEMMA GraphPagesKeepTypes ==
  ASSUME SiteTyped, GraphPagesNext
  PROVE  PagesTyped'
<1>1. /\ Handling /\ UNCHANGED viewer /\ DOMAIN seen = SeenFields /\ SeenTyped(seen)
  BY DEF GraphPagesNext, GraphOrg, GraphProject, GraphOrgRole, GraphProjectRole,
     GraphPackages, GraphVersions, GraphLicenses, Query, Remains, SiteTyped, PagesTyped,
     Disclosure, Known
<1>2. ASSUME UNCHANGED seen, NEW status \in {404, 503}, Respond(MessagePage(status))
      PROVE  PagesTyped'
  BY <1>1, <1>2, StepsKeepTypes, LiteralStatuses
<1>3. ASSUME UNCHANGED answer, UNCHANGED seen PROVE PagesTyped'
  BY <1>1, <1>3, StepsKeepTypes
<1>4. ASSUME UNCHANGED answer, SeenTyped(seen') PROVE PagesTyped'
  BY <1>1, <1>4, StepsKeepTypes
<1>5. CASE GraphOrg
  BY <1>2, <1>3, <1>5 DEF GraphOrg, Remains, Goto
<1>6. CASE GraphProject
  BY <1>2, <1>3, <1>6 DEF GraphProject, Query, Goto
<1>7. CASE GraphOrgRole
  <2>1. ASSUME NEW result, seen' = [seen EXCEPT !.role = result]
        PROVE  SeenTyped(seen')
    BY <1>1, <2>1 DEF SeenTyped, SeenFields
  <2>2. QED
    BY <1>2, <1>4, <1>7, <2>1 DEF GraphOrgRole, Goto
<1>8. CASE GraphProjectRole
  <2>1. ASSUME NEW result, seen' = [seen EXCEPT !.direct = result]
        PROVE  SeenTyped(seen')
    BY <1>1, <2>1 DEF SeenTyped, SeenFields
  <2>2. QED
    BY <1>2, <1>4, <1>8, <2>1 DEF GraphProjectRole, Goto
<1>9. CASE GraphPackages
  <2>1. ASSUME NEW packages, NEW rows,
               seen' = [seen EXCEPT !.packages = packages, !.rows = rows]
        PROVE  SeenTyped(seen')
    BY <1>1, <2>1 DEF SeenTyped, SeenFields
  <2>2. QED
    BY <1>2, <1>4, <1>9, <2>1 DEF GraphPackages, Query, Goto
<1>10. CASE GraphVersions
  <2>1. ASSUME NEW rows, seen' = [seen EXCEPT !.rows = rows]
        PROVE  SeenTyped(seen')
    BY <1>1, <2>1 DEF SeenTyped, SeenFields
  <2>2. QED
    BY <1>2, <1>4, <1>10, <2>1 DEF GraphVersions, Query, Goto
<1>11. CASE GraphLicenses
  <2>1. Target \in Orgs \cup Projects
    BY <1>11 DEF GraphLicenses, Query, SiteTyped, Disclosure, Permission, Fits,
       ReadPlaces, Target
  <2>2. ASSUME NEW sources, Respond(GraphPage(sources)), UNCHANGED seen
        PROVE  PagesTyped'
    BY <1>1, <2>1, <2>2, GraphPageTyped, StepsKeepTypes DEF Respond
  <2>3. QED
    BY <1>2, <1>11, <2>2 DEF GraphLicenses, Query
<1>12. QED
  BY <1>5, <1>6, <1>7, <1>8, <1>9, <1>10, <1>11 DEF GraphPagesNext

LEMMA AccountPageTyped ==
  ASSUME SiteTyped, NEW status \in Statuses \cup {0}, NEW notice
  PROVE  PageTyped(AccountPage(status, notice))
<1> DEFINE shown == IF notice # "" THEN status ELSE IF Stage = "unavailable" THEN 503 ELSE 200
           links == Workspaces \cup {Link("choose", None)}
           shell == Render(shown, None, {}, links)
<1>1. links \in SUBSET Asks
  BY LinkTyped, KindsOfThings DEF Workspaces, Listed
<1>2. shown \in Statuses \cup {0}
  <2>1. 503 \in Statuses \cup {0} /\ 200 \in Statuses \cup {0}
    BY LiteralStatuses
  <2>2. QED
    BY <2>1, Zenon
<1>3. PageTyped(shell)
  <2> HIDE DEF links, shown
  <2>1. QED
    BY <1>1, <1>2, LayoutTyped DEF PageTyped, Render, Page
<1>4. AccountPage(status, notice) = [shell EXCEPT !.stage = Stage, !.notice = notice]
  BY DEF AccountPage
<1>5. DOMAIN shell = {"status", "shows", "offers", "selected", "versions", "sources",
                      "omitted", "stage", "notice"}
  BY DEF Render, Page
<1>6. QED
  <2> HIDE DEF shell
  <2>1. QED
    BY <1>3, <1>4, <1>5 DEF PageTyped

LEMMA FailureTyped ==
  ASSUME NEW status \in Statuses
  PROVE  Failure(status)[1] \in Statuses
BY DEF Failure, Statuses

LEMMA FormFailureKeepsTypes ==
  ASSUME SiteTyped, Handling, UNCHANGED viewer, NEW status \in Statuses, EnrollFails(status)
  PROVE  PagesTyped'
<1>1. DOMAIN seen = SeenFields /\ SeenTyped(seen)
  BY DEF SiteTyped, Disclosure, Known, PagesTyped
<1>2. CASE Respond(Message(303)) /\ UNCHANGED seen
  BY <1>2, StepsKeepTypes, LiteralStatuses
<1>3. CASE Goto("resolve") /\ seen' = [seen EXCEPT !.status = Failure(status)[1],
                                                   !.notice = Failure(status)[2]]
  <2>1. SeenTyped(seen') /\ UNCHANGED answer
    BY <1>1, <1>3, FailureTyped DEF SeenTyped, SeenFields, Goto
  <2>2. QED
    BY <2>1, StepsKeepTypes
<1>4. QED
  BY <1>2, <1>3 DEF EnrollFails

LEMMA EnrollmentKeepsTypes ==
  ASSUME SiteTyped, EnrollmentNext
  PROVE  PagesTyped'
<1>1. /\ DOMAIN seen = SeenFields /\ SeenTyped(seen) /\ PageTyped(answer)
      /\ Anonymous.roles \in [Orgs -> Roles \cup {None}]
  BY DEF SiteTyped, Disclosure, Known, PagesTyped, Anonymous
<1>2. {303, 307, 200, 401, 403, 400, 404, 409, 422, 429, 500, 502, 503} \subseteq Statuses
  BY DEF Statuses
<1>3. ASSUME Handling, UNCHANGED <<viewer, seen>>, PageTyped(answer') PROVE PagesTyped'
  BY <1>3, StepsKeepTypes
<1>4. CASE Choose
  <2> DEFINE links == {Link("individual", None), Link("organization", None)}
  <2>1. links \in SUBSET Asks
    BY LinkTyped, KindsOfThings
  <2>2. Respond(Render(200, None, {}, links))
    BY <1>4 DEF Choose
  <2>3. QED
    <3> HIDE DEF links
    <3>1. QED
      BY <1>2, <1>4, <2>1, <2>2, StepsKeepTypes DEF Choose, Remains
<1>5. CASE RenderAccount
  <2>1. PageTyped(AccountPage(200, ""))
    <3>1. 200 \in Statuses \cup {0}
      BY <1>2
    <3>2. QED
      BY <3>1, AccountPageTyped, Zenon
  <2>2. QED
    BY <1>3, <1>5, <2>1 DEF RenderAccount, Remains, Respond
<1>6. CASE RenderFailure
  BY <1>1, <1>3, <1>6, AccountPageTyped DEF RenderFailure, Remains, Respond, SeenTyped
<1>7. CASE Entry
  BY <1>2, <1>3, <1>7, MessageTyped DEF Entry, Remains, Respond
<1>8. CASE EntryUnavailable
  BY <1>1, <1>8 DEF EntryUnavailable, SiteTyped, PagesTyped, RegistryTyped, registry,
     traces, SeenTyped, PageTyped
<1>9. CASE EnrollRefused
  BY <1>2, <1>3, <1>9, FormFailureKeepsTypes, MessageTyped DEF EnrollRefused, Respond
<1>10. CASE ApiRefuses
  BY <1>2, <1>10, FormFailureKeepsTypes DEF ApiRefuses
<1>11. CASE EnrollAnswered
  <2>1. PageTyped([Message(303) EXCEPT !.notice = "Created"])
    BY <1>2 DEF PageTyped, Message, Page
  <2>2. QED
    BY <1>2, <1>3, <1>11, <2>1, FormFailureKeepsTypes DEF EnrollAnswered, Respond
<1>12. CASE ApiCreates
  <2>1. /\ Target \in Orgs
        /\ seen' = [seen EXCEPT !.created = TRUE] /\ UNCHANGED <<viewer, answer>>
        /\ orgs' = orgs \cup {Target} /\ UNCHANGED <<visibility, latest, yanked>>
        /\ changes' = changes + 1 /\ changes < MaxChanges
        /\ Remember /\ at # "idle"
    BY <1>12 DEF ApiCreates, Goto, SiteTyped, Disclosure, Permission, Fits, OrgPlaces, Target
  <2>2. SeenTyped(seen')
    BY <1>1, <2>1 DEF SeenTyped, SeenFields
  <2>3. past'.ever \subseteq past.ever \cup Grants(req.user)'
        /\ past'.always \subseteq past.always
    BY <2>1 DEF Remember, SiteTyped, Disclosure, Known, PastFields
  <2>4. Grants(req.user)' \subseteq Things
    BY KindsOfThings DEF Grants, MemberOf, DirectOf, Published
  <2>5. changes' \in 0 .. MaxChanges /\ orgs' \subseteq Orgs
    BY <2>1, SiteAssumption DEF SiteTyped, PagesTyped, RegistryTyped
  <2>6. QED
    BY <2>1, <2>2, <2>3, <2>4, <2>5 DEF SiteTyped, PagesTyped, RegistryTyped, PageTyped
<1>13. QED
  BY <1>4, <1>5, <1>6, <1>7, <1>8, <1>9, <1>10, <1>11, <1>12 DEF EnrollmentNext

LEMMA ChangeKeepsTypes ==
  ASSUME SiteTyped, RegistryChanges
  PROVE  PagesTyped'
<1>1. /\ Remember /\ changes' = changes + 1 /\ changes < MaxChanges
      /\ UNCHANGED <<at, req, viewer, seen, answer, orgs>>
  BY DEF RegistryChanges, ChangeRole, ChangeDirect, ChangeVisibility, Release, Yank,
     Change, request
<1>2. changes' \in 0 .. MaxChanges
  BY <1>1, SiteAssumption DEF SiteTyped, PagesTyped, RegistryTyped
<1>3. past'.ever \subseteq past.ever \cup Grants(req.user)'
      /\ past'.always \subseteq past.always
  BY <1>1 DEF Remember, SiteTyped, Disclosure, Known, PastFields
<1>4. Grants(req.user)' \subseteq Things
  BY KindsOfThings DEF Grants, MemberOf, DirectOf, Published
<1>5. visibility' \in [Packages -> {"absent", "private", "public"}]
  <2>1. ASSUME NEW p \in Packages, NEW v \in {"absent", "private", "public"},
               visibility' = [visibility EXCEPT ![p] = v]
        PROVE  visibility' \in [Packages -> {"absent", "private", "public"}]
    BY <2>1 DEF SiteTyped, PagesTyped, RegistryTyped
  <2>2. CASE visibility' = visibility
    BY <2>2 DEF SiteTyped, PagesTyped, RegistryTyped
  <2>3. QED
    BY <2>1, <2>2 DEF RegistryChanges, ChangeRole, ChangeDirect, ChangeVisibility,
       Release, Yank
<1>6. latest' \in [Packages -> Nat]
  <2>1. ASSUME NEW p \in Packages, latest' = [latest EXCEPT ![p] = @ + 1]
        PROVE  latest' \in [Packages -> Nat]
    BY <2>1 DEF SiteTyped, PagesTyped, RegistryTyped
  <2>2. CASE latest' = latest
    BY <2>2 DEF SiteTyped, PagesTyped, RegistryTyped
  <2>3. QED
    BY <2>1, <2>2 DEF RegistryChanges, ChangeRole, ChangeDirect, ChangeVisibility,
       Release, Yank
<1>7. yanked' \subseteq Packages \X Nat
  <2>1. ASSUME NEW p \in Packages, yanked' = yanked \cup {<<p, latest[p]>>}
        PROVE  yanked' \subseteq Packages \X Nat
    BY <2>1 DEF SiteTyped, PagesTyped, RegistryTyped
  <2>2. CASE yanked' = yanked
    BY <2>2 DEF SiteTyped, PagesTyped, RegistryTyped
  <2>3. QED
    BY <2>1, <2>2 DEF RegistryChanges, ChangeRole, ChangeDirect, ChangeVisibility,
       Release, Yank
<1>8. QED
  BY <1>1, <1>2, <1>3, <1>4, <1>5, <1>6, <1>7 DEF SiteTyped, PagesTyped, RegistryTyped,
     SeenTyped, PageTyped

LEMMA ArriveKeepsTypes ==
  ASSUME SiteTyped, NEW u \in Users \cup {Nobody}, NEW ask, Arrive(u, ask)
  PROVE  PagesTyped'
<1>1. Grants(u) \subseteq Things /\ Stands(u) \subseteq Things
  BY KindsOfThings DEF Grants, Stands, MemberOf, DirectOf, Published, Present
<1>2. /\ past'.ever = Grants(u) /\ past'.always = Stands(u)
      /\ UNCHANGED <<registry, changes, viewer, seen, answer>>
  BY DEF Arrive
<1>3. QED
  BY <1>1, <1>2 DEF SiteTyped, PagesTyped, RegistryTyped, registry, SeenTyped, PageTyped

\* What the process starts a request with.
LEMMA BlankTyped ==
  /\ Anonymous.roles \in [Orgs -> Roles \cup {None}]
  /\ SeenTyped(NotSeen) /\ PageTyped(NoAnswer)
  /\ NoPast.ever = {} /\ NoPast.always = {}
BY DEF Anonymous, SeenTyped, NotSeen, PageTyped, NoAnswer, Message, Page, NoPast

LEMMA DeliverKeepsTypes ==
  ASSUME SiteTyped, Deliver
  PROVE  PagesTyped'
<1>1. /\ viewer' = Anonymous /\ seen' = NotSeen /\ answer' = NoAnswer /\ past' = NoPast
      /\ UNCHANGED <<registry, changes>>
  BY DEF Deliver
<1>2. QED
  BY <1>1, BlankTyped DEF SiteTyped, PagesTyped, RegistryTyped, registry

LEMMA ResolveKeepsTypes ==
  ASSUME SiteTyped, Resolve
  PROVE  PagesTyped'
<1>1. Handling /\ UNCHANGED <<seen, answer>>
  BY DEF Resolve, Goto
<1>2. viewer'.roles \in [Orgs -> Roles \cup {None}]
  <2>1. CASE UNCHANGED viewer
    BY <2>1 DEF SiteTyped, PagesTyped
  <2>2. CASE viewer' = [Anonymous EXCEPT !.unavailable = TRUE]
    BY <2>2 DEF Anonymous
  <2>3. ASSUME NEW roles \in Listings(Subject),
               viewer' = [user |-> Subject, roles |-> roles, unavailable |-> FALSE]
        PROVE  viewer'.roles \in [Orgs -> Roles \cup {None}]
    BY <2>3 DEF Listings
  <2>4. QED
    BY <2>1, <2>2, <2>3 DEF Resolve
<1>3. QED
  BY <1>1, <1>2, HandlingKeepsTypes DEF SiteTyped, PagesTyped

LEMMA StepKeepsTypes == SiteTyped /\ [Next]_vars => PagesTyped'
<1> SUFFICES ASSUME SiteTyped, [Next]_vars PROVE PagesTyped'
  OBVIOUS
<1>1. ASSUME UNCHANGED pageVars PROVE PagesTyped'
  BY <1>1 DEF pageVars, registry, request, traces, SiteTyped, PagesTyped, RegistryTyped,
     SeenTyped, PageTyped
<1>2. CASE Timeout
  BY <1>2, StepsKeepTypes DEF Timeout, Statuses
<1>3. CASE Answering
  BY <1>2, <1>3, ResolveKeepsTypes, ListingPagesKeepTypes, PackageKeepsTypes,
     PackageProjectKeepsTypes, ConsoleKeepsTypes, GraphPagesKeepTypes,
     EnrollmentKeepsTypes, DeliverKeepsTypes DEF Answering, RegistryPagesNext
<1>4. CASE Asking
  BY <1>4, ArriveKeepsTypes DEF Asking
<1>5. QED
  BY <1>1, <1>3, <1>4, ChangeKeepsTypes DEF Next, Starting, Paging, SigningIn, vars

LEMMA StartupKeepsTypes == WaitInv /\ auth \in {"none", "host_cookies", "plain_cookies"}
                           /\ [Next]_vars
                             => auth' \in {"none", "host_cookies", "plain_cookies"}
<1> SUFFICES ASSUME WaitInv, auth \in {"none", "host_cookies", "plain_cookies"}, [Next]_vars
             PROVE  auth' \in {"none", "host_cookies", "plain_cookies"}
  OBVIOUS
<1>1. CASE StartupNext
  BY <1>1, StartupAssumption DEF StartupNext, Connect, ConnectFails, Pause, Configure,
     BrowserAuth, WaitInv, Environment
<1>2. CASE UNCHANGED startupVars
  BY <1>2 DEF startupVars
<1>3. StartupNext \/ UNCHANGED startupVars
  BY StepsOfTheStart
<1>4. QED
  BY <1>1, <1>2, <1>3

AllTyped ==
  /\ WaitInv /\ auth \in {"none", "host_cookies", "plain_cookies"}
  /\ SiteTyped /\ SignInTyped

LEMMA InitTypes == Init => AllTyped
<1> SUFFICES ASSUME Init PROVE AllTyped
  OBVIOUS
<1>1. PICK r \in Registries :
        orgs = r.orgs /\ visibility = r.visibility /\ latest = r.latest /\ yanked = {}
  BY DEF Init
<1>2. RegistryTyped
  <2>1. /\ orgs \subseteq Orgs /\ visibility \in [Packages -> {"absent", "private", "public"}]
        /\ latest \in [Packages -> Nat]
    BY <1>1, RegistriesAssumption
  <2>2. changes \in 0 .. MaxChanges
    BY SiteAssumption DEF Init
  <2>3. QED
    BY <1>1, <2>1, <2>2, BlankTyped DEF RegistryTyped, Init
<1>3. PagesTyped
  BY <1>2, BlankTyped DEF PagesTyped, Init
<1>4. SignInTyped
  BY PkceAssumption DEF Init, SignInInit, SignInTyped, SignInTypeOK, Places
<1>5. auth = "none"
  BY DEF Init, StartupInit
<1>6. QED
  BY <1>3, <1>4, <1>5, InitWait, InitDisclosure DEF AllTyped, SiteTyped

LEMMA StepKeepsAllTypes == AllTyped /\ [Next]_vars => AllTyped'
<1> SUFFICES ASSUME AllTyped, [Next]_vars PROVE AllTyped'
  OBVIOUS
<1>1. SignInTyped'
  <2>1. SignInNext \/ UNCHANGED signInVars
    BY DEF Next, Starting, Paging, SigningIn, vars
  <2>2. CASE UNCHANGED signInVars
    BY <2>2 DEF AllTyped, SignInTyped, SignInTypeOK, signInVars
  <2>3. QED
    BY <2>1, <2>2, SignInKeepsTypes DEF AllTyped
<1>2. SiteTyped'
  BY StepKeepsTypes, StepKeepsDisclosure DEF AllTyped, SiteTyped
<1>3. WaitInv' /\ auth' \in {"none", "host_cookies", "plain_cookies"}
  BY StepKeepsWait, StartupKeepsTypes DEF AllTyped
<1>4. QED
  BY <1>1, <1>2, <1>3 DEF AllTyped

\* Every reachable state of the process, its pages and its sign-ins is well typed:
\* statuses it may answer, links to pages there are, versions that exist.
THEOREM TypesAreKept == Spec => []TypeOK
<1>1. AllTyped => TypeOK
  <2> SUFFICES ASSUME AllTyped PROVE TypeOK
    OBVIOUS
  <2>1. StartupTypeOK
    BY DEF AllTyped, WaitInv, StartupTypeOK
  <2>2. QED
    BY <2>1 DEF AllTyped, SiteTyped, Disclosure, Known, PagesTyped, RegistryTyped,
       PageTyped, SignInTyped, TypeOK
<1>2. QED
  BY InitTypes, StepKeepsAllTypes, <1>1, PTL DEF Spec

-----------------------------------------------------------------------------
(* Where the links of a page lead. *)

\* A link that leads its visitor to a page: the package it names is there, and the
\* settings it names are theirs to change.
Leads(u, ask) ==
  /\ ask.route \in Pages
  /\ ask.route \in {"package", "package_settings"} => visibility[ask.thing] # "absent"
  /\ ask.route = "org_settings" => Roster(u)[ask.thing] = "admin"
  /\ ask.route = "package_settings" => Roster(u)[OrgOf[ask.thing]] = "admin"

ReadsOfPackage == {"package_org_role", "package_project_role", "package_versions",
                   "package_latest", "package_project"}
ReadsOfGraph   == {"graph_org_role", "graph_project", "graph_project_role"} \cup ReadPlaces
NotYetResolved == {"idle", "resolve", "enroll", "enroll_created"}

\* The page a handler is on the way to.
Way ==
  /\ at \in ReadsOfPackage => req.route = "package"
  /\ at \in ReadsOfGraph =>
       req.route \in {"org_graph", "project_graph"} /\ Fits(req.route, Target)
  /\ at \in {"dashboard_projects", "dashboard_packages"} => req.route = "dashboard"
  /\ at \in {"project_settings_project", "project_settings_packages"}
       => req.route = "project_settings"
  /\ at = "package_settings_package" => req.route = "package_settings"

\* What a viewer's listing has is so, and all there is if all of it fits.
Abridged(roles, u) ==
  /\ \A o \in Orgs : roles[o] \in {None, Roster(u)[o]}
  /\ Cardinality(MemberOf(u)) <= PageLimit => roles = Roster(u)

\* While nothing has changed since the request came in, what its handler has read
\* is how things are.
Undisturbed ==
  /\ past.always = Stands(req.user)
  /\ SignedIn => Abridged(viewer.roles, req.user)
  /\ at \in ReadsOfPackage => visibility[Target] # "absent"
  /\ at \in {"package_versions", "package_latest", "package_project"} =>
       seen.role \in {None, Roster(req.user)[OrgOf[Target]]}
  /\ Answered => \A ask \in answer.offers : Leads(req.user, ask)

Trail ==
  /\ ~SignedIn => Listed = {}
  /\ at \notin NotYetResolved \cup {"answered"} /\ ~failed /\ auth # "none"
       => viewer.user = req.user
  /\ Way
  /\ at # "idle" /\ past.calm => Undisturbed
  /\ followed => at # "idle" /\ past.calm /\ Leads(req.user, Ask(req.route, req.thing))
  /\ \A link \in offered : Leads(link[1], link[2])

\* A page of a set that would fit it is the set.
LEMMA PageIsWhole ==
  ASSUME NEW set, IsFiniteSet(set), NEW page \in SUBSET set, NEW limit \in Nat,
         Cardinality(page) = limit, Cardinality(set) <= limit
  PROVE  page = set
<1>1. IsFiniteSet(page) /\ Cardinality(page) <= Cardinality(set)
      /\ (Cardinality(page) = Cardinality(set) => page = set)
  BY FS_Subset
<1>2. Cardinality(page) \in Nat /\ Cardinality(set) \in Nat
  BY <1>1, FS_CardinalityType
<1>3. Cardinality(page) = Cardinality(set)
  BY <1>1, <1>2
<1>4. QED
  BY <1>1, <1>3, Zenon

LEMMA ListingIsAbridged ==
  ASSUME Disclosure, NEW u \in Users, NEW roles \in Listings(u)
  PROVE  Abridged(roles, u)
<1> DEFINE listed == {o \in Orgs : roles[o] # None}
<1>1. /\ roles \in [Orgs -> Roles \cup {None}] /\ Roster(u) = role[u]
      /\ role[u] \in [Orgs -> Roles \cup {None}]
      /\ \A o \in Orgs : roles[o] \in {Roster(u)[o], None}
      /\ Cardinality(listed) = PageLimit \/ listed = MemberOf(u)
  BY SiteAssumption DEF Listings, Roster, Disclosure, Known
<1>2. listed \subseteq MemberOf(u)
  BY <1>1 DEF MemberOf
<1>3. ASSUME Cardinality(MemberOf(u)) <= PageLimit PROVE listed = MemberOf(u)
  <2>1. IsFiniteSet(MemberOf(u)) /\ PageLimit \in Nat
    BY FS_Subset, SiteAssumption DEF MemberOf
  <2> HIDE DEF listed
  <2>2. QED
    BY <1>1, <1>2, <1>3, <2>1, PageIsWhole
<1>4. ASSUME Cardinality(MemberOf(u)) <= PageLimit PROVE roles = Roster(u)
  <2>1. ASSUME NEW o \in Orgs PROVE roles[o] = Roster(u)[o]
    BY <1>1, <1>3, <1>4 DEF MemberOf
  <2>2. QED
    BY <1>1, <2>1
<1>5. QED
  BY <1>1, <1>4 DEF Abridged

\* A project is in the listing of an organisation whose projects fit in it.
LEMMA ListingHasProject ==
  ASSUME NEW j \in Projects, Cardinality(InOrg(OrgOf[j], Projects)) <= ProjectLimit,
         NEW page \in Excerpts(InOrg(OrgOf[j], Projects), ProjectLimit)
  PROVE  j \in page
<1> DEFINE mates == InOrg(OrgOf[j], Projects)
<1>1. IsFiniteSet(mates) /\ ProjectLimit \in Nat /\ j \in mates
  BY FS_Subset, SiteAssumption DEF InOrg
<1>2. page \subseteq mates /\ (page = mates \/ Cardinality(page) = ProjectLimit)
  BY DEF Excerpts
<1>3. Cardinality(mates) <= ProjectLimit
  OBVIOUS
<1> HIDE DEF mates
<1>4. page = mates
  BY <1>1, <1>2, <1>3, PageIsWhole
<1>5. QED
  BY <1>1, <1>4

LEMMA LeadsStay ==
  ASSUME UNCHANGED registry
  PROVE  \A u, ask : Leads(u, ask)' <=> Leads(u, ask)
BY DEF registry, Leads, Roster

LEMMA GoOnKeepsTrail ==
  ASSUME Truth, Trail, Handling, UNCHANGED viewer, ~failed' => ~failed,
         at \notin NotYetResolved \cup {"answered"},
         at' \notin NotYetResolved \cup {"answered"}, Way',
         past.calm => /\ at' \in ReadsOfPackage => visibility[Target] # "absent"
                      /\ at' \in {"package_versions", "package_latest", "package_project"}
                           => seen'.role \in {None, Roster(req.user)[OrgOf[Target]]}
  PROVE  Trail' /\ OfferedLinksLead'
<1>1. UNCHANGED <<startupVars, registry, req, past, offered, followed, viewer>> /\ at # "idle"
  BY DEF Handling, traces, NotYetResolved
<1>2. ~SignedIn' => Listed' = {}
  BY <1>1 DEF Trail, SignedIn, Listed
<1>3. ~failed' /\ auth' # "none" => viewer'.user = req'.user
  BY <1>1 DEF Trail, startupVars
<1>4. past'.calm => Undisturbed'
  BY <1>1 DEF Trail, Undisturbed, Abridged, NotYetResolved, Answered, registry, Stands, MemberOf,
     DirectOf, Present, Roster, SignedIn, Target
<1>5. \A u, ask : Leads(u, ask)' <=> Leads(u, ask)
  BY <1>1, LeadsStay
<1>6. followed' => at' # "idle" /\ past'.calm /\ Leads(req.user, Ask(req.route, req.thing))'
  BY <1>1, <1>5 DEF Trail, NotYetResolved
<1>7. \A link \in offered' : Leads(link[1], link[2])'
  BY <1>1, <1>5 DEF Trail
<1>8. Trail'
  BY <1>1, <1>2, <1>3, <1>4, <1>6, <1>7 DEF Trail
<1>9. QED
  BY <1>8 DEF OfferedLinksLead, Answered

\* What a handler answers, when its links lead.
LEMMA AnswerKeepsTrail ==
  ASSUME Truth, Trail, Handling, UNCHANGED viewer, at # "idle", at' = "answered",
         past.calm => \A ask \in answer'.offers : Leads(req.user, ask)
  PROVE  Trail'
<1>1. UNCHANGED <<startupVars, registry, req, past, offered, followed, viewer>>
  BY DEF Handling, traces
<1>2. ~SignedIn' => Listed' = {}
  BY <1>1 DEF Trail, SignedIn, Listed
<1>3. Way'
  BY DEF Way, ReadsOfPackage, ReadsOfGraph, ReadPlaces
<1>5. \A u, ask : Leads(u, ask)' <=> Leads(u, ask)
  BY <1>1, LeadsStay
<1>4. past'.calm => Undisturbed'
  <2>1. SUFFICES ASSUME past.calm PROVE Undisturbed'
    BY <1>1
  <2>2. \A ask \in answer'.offers : Leads(req.user, ask)'
    BY <1>1, <1>5, <2>1
  <2>3. QED
    BY <1>1, <2>1, <2>2 DEF Trail, Undisturbed, Abridged, registry, Stands, MemberOf,
       DirectOf, Present, Roster, SignedIn, ReadsOfPackage, Answered
<1>6. followed' => at' # "idle" /\ past'.calm /\ Leads(req.user, Ask(req.route, req.thing))'
  BY <1>1, <1>5 DEF Trail
<1>7. \A link \in offered' : Leads(link[1], link[2])'
  BY <1>1, <1>5 DEF Trail
<1>8. QED
  BY <1>1, <1>2, <1>3, <1>4, <1>6, <1>7 DEF Trail

\* A followed link brings a member to where they are one.
LEMMA FollowedByMember ==
  ASSUME Truth, Trail, at \notin NotYetResolved \cup {"answered"}, ~failed, followed,
         Target \in Things, auth # "none", OrgAddressed \in past.always
  PROVE  /\ SignedIn /\ viewer.user = req.user /\ req.user \in Users
         /\ Cardinality(MemberOf(req.user)) <= PageLimit => viewer.roles = role[req.user]
         /\ OrgAddressed \in Orgs \cap orgs
         /\ role[req.user][OrgAddressed] # None
         /\ past.always = Stands(req.user)
         /\ Leads(req.user, Ask(req.route, Target))
<1>1. OrgAddressed \in Orgs
  BY Addressed DEF OrgAddressed
<1>2. /\ past.calm /\ Undisturbed /\ viewer.user = req.user
      /\ Leads(req.user, Ask(req.route, Target)) /\ at # "idle"
  BY DEF Trail, Target, NotYetResolved
<1>3. req.user \in Users /\ role[req.user][OrgAddressed] # None /\ OrgAddressed \in orgs
  BY <1>1, <1>2, StandsByKind DEF Truth
<1>4. SignedIn
  BY <1>2, <1>3, SiteAssumption DEF SignedIn
<1>5. Cardinality(MemberOf(req.user)) <= PageLimit => viewer.roles = role[req.user]
  BY <1>2, <1>3, <1>4, SiteAssumption DEF Undisturbed, Abridged, Roster
<1>6. QED
  BY <1>1, <1>2, <1>3, <1>4, <1>5 DEF Undisturbed

\* The links of the shell lead, on a page about what is there.
LEMMA AdministersForReal ==
  ASSUME Disclosure, Trail, at # "idle", past.calm, NEW o \in Orgs, CanAdminister(o)
  PROVE  Roster(req.user)[o] = "admin"
<1>1. "admin" # None
  BY SiteAssumption DEF Roles
<1>2. SignedIn
  BY <1>1 DEF CanAdminister, Trail, Listed
<1>3. QED
  BY <1>1, <1>2 DEF Trail, Undisturbed, Abridged, CanAdminister

LEMMA LinkLeads ==
  ASSUME NEW u, NEW route \in Pages \ {"package", "package_settings", "org_settings"},
         NEW thing
  PROVE  Leads(u, Link(route, thing))
BY DEF Leads, Link

LEMMA PackageLinkLeads ==
  ASSUME NEW u, NEW p, visibility[p] # "absent"
  PROVE  Leads(u, Link("package", p))
BY DEF Leads, Link, Pages

LEMMA SettingsLinkLeads ==
  ASSUME NEW u, NEW o, Roster(u)[o] = "admin"
  PROVE  Leads(u, Link("org_settings", o))
BY DEF Leads, Link, Pages

LEMMA PlainRoutes ==
  {"dashboard", "project_settings", "settings", "choose", "individual", "organization",
   "project_graph", "org_graph"} \subseteq Pages \ {"package", "package_settings", "org_settings"}
BY DEF Pages

LEMMA LayoutLeads ==
  ASSUME Disclosure, Trail, at # "idle", past.calm, NEW context \in Things \cup {None},
         context \in Packages => visibility[context] # "absent"
  PROVE  \A ask \in Layout(context) : Leads(req.user, ask)
<1>1. \A ask \in Breadcrumb(context) : Leads(req.user, ask)
  <2>1. CASE context = None
    BY <2>1, SiteAssumption DEF Breadcrumb, Things
  <2>2. CASE context \in Orgs
    BY <2>2, LinkLeads, PlainRoutes, SiteAssumption DEF Breadcrumb, Things
  <2>3. CASE context \in Projects
    BY <2>3, LinkLeads, PlainRoutes, SiteAssumption DEF Breadcrumb, Things
  <2>4. CASE context \in Packages
    BY <2>4, LinkLeads, PackageLinkLeads, PlainRoutes, SiteAssumption DEF Breadcrumb, Things
  <2>5. QED
    BY <2>1, <2>2, <2>3, <2>4 DEF Things
<1>2. \A ask \in CreateMenu(context) : Leads(req.user, ask)
  BY AdministersForReal, SettingsLinkLeads DEF CreateMenu
<1>3. \A ask \in AccountMenu : Leads(req.user, ask)
  BY LinkLeads, PlainRoutes DEF AccountMenu
<1>4. \A ask \in {Link("individual", None), Link("organization", None)} : Leads(req.user, ask)
  BY LinkLeads, PlainRoutes
<1>5. QED
  BY <1>1, <1>2, <1>3, <1>4 DEF Layout

LEMMA RenderLeads ==
  ASSUME Disclosure, Trail, at # "idle", past.calm, NEW context \in Things \cup {None},
         context \in Packages => visibility[context] # "absent",
         NEW status, NEW shows, NEW offers, \A ask \in offers : Leads(req.user, ask)
  PROVE  \A ask \in Render(status, context, shows, offers).offers : Leads(req.user, ask)
<1>1. Render(status, context, shows, offers).offers = offers \cup Layout(context)
  BY DEF Render, Page
<1>2. QED
  BY <1>1, LayoutLeads

\* A page of the shell, and a message.
LEMMA ShellKeepsTrail ==
  ASSUME Truth, Trail, Handling, UNCHANGED viewer, at # "idle",
         NEW context \in Things \cup {None},
         past.calm /\ context \in Packages => visibility[context] # "absent",
         NEW status, NEW shows, NEW offers,
         past.calm => \A ask \in offers : Leads(req.user, ask),
         Respond(Render(status, context, shows, offers))
  PROVE  Trail' /\ answer'.status = status
<1>1. past.calm => \A ask \in answer'.offers : Leads(req.user, ask)
  BY RenderLeads DEF Respond, Truth
<1>2. QED
  BY <1>1, AnswerKeepsTrail, PlainPages DEF Respond

LEMMA MessageKeepsTrail ==
  ASSUME Truth, Trail, Handling, UNCHANGED viewer, at # "idle",
         NEW status, Respond(MessagePage(status)) \/ Respond(Message(status))
  PROVE  Trail' /\ answer'.status = status
<1>1. CASE Respond(MessagePage(status))
  BY <1>1, ShellKeepsTrail, SiteAssumption DEF MessagePage, Things
<1>2. CASE Respond(Message(status))
  <2>1. answer'.offers = {} /\ answer'.status = status
    BY <1>2 DEF Respond, Message, Page
  <2>2. QED
    BY <1>2, <2>1, AnswerKeepsTrail DEF Respond
<1>3. QED
  BY <1>1, <1>2

\* An answer that is no refusal refuses nobody.
LEMMA StatusLeads ==
  ASSUME at' = "answered" => answer'.status \notin {403, 404}
  PROVE  OfferedLinksLead'
BY DEF OfferedLinksLead, Answered

LEMMA ListingPagesKeepTrail ==
  ASSUME Truth, Trail, Home \/ Search \/ UserSettings
  PROVE  Trail' /\ OfferedLinksLead'
<1>1. /\ Handling /\ UNCHANGED viewer /\ at # "idle"
      /\ None \in Things \cup {None} /\ None \notin Packages
  BY SiteAssumption DEF Home, Search, UserSettings, Remains, Things
<1>2. ASSUME NEW shows, NEW offers, Respond(Render(200, None, shows, offers)),
             \A ask \in offers : Leads(req.user, ask)
      PROVE  Trail' /\ OfferedLinksLead'
  <2>1. Trail' /\ answer'.status = 200
    BY <1>1, <1>2, ShellKeepsTrail
  <2>2. QED
    BY <2>1, StatusLeads
<1>3. ASSUME NEW packages \in SUBSET Present, Respond(PackageRows(packages))
      PROVE  Trail' /\ OfferedLinksLead'
  <2> DEFINE links == {Link("package", p) : p \in packages}
  <2>1. \A ask \in links : Leads(req.user, ask)
    BY PackageLinkLeads DEF Present
  <2>2. Respond(Render(200, None, packages, links))
    BY <1>3 DEF PackageRows
  <2> HIDE DEF links
  <2>3. QED
    BY <1>2, <2>1, <2>2
<1>4. Published \subseteq Present
  BY DEF Published, Present
<1>5. CASE Home
  <2>1. ASSUME NEW projects, Respond(HomeOfViewer(projects))
        PROVE  Trail' /\ OfferedLinksLead'
    <3> DEFINE links == {Link("project_settings", j) : j \in projects}
                          \cup (IF Listed = {} THEN {Link("choose", None)} ELSE {})
    <3>1. \A ask \in links : Leads(req.user, ask)
      BY LinkLeads, PlainRoutes
    <3>2. Respond(Render(200, None, projects, links))
      BY <2>1 DEF HomeOfViewer
    <3> HIDE DEF links
    <3>3. QED
      BY <1>2, <3>1, <3>2
  <2>2. PICK outcome \in Outcomes :
          \/ \E projects : Respond(HomeOfViewer(projects))
          \/ \E recent \in Read(db /\ outcome = "ok", Published, PackageLimit) :
               Respond(PackageRows(recent))
    BY <1>5 DEF Home
  <2>3. QED
    BY <1>3, <1>4, <2>1, <2>2, ReadOfRows
<1>6. CASE Search
  <2> DEFINE found == Published \cup {p \in Present : OrgOf[p] \in SearchScope}
  <2>1. PICK outcome \in Outcomes :
          \E shown \in Read(db /\ outcome = "ok", found, PackageLimit) : Respond(PackageRows(shown))
    BY <1>6 DEF Search
  <2>2. found \subseteq Present
    BY <1>4
  <2> HIDE DEF found
  <2>3. QED
    BY <1>3, <2>1, <2>2, ReadOfRows
<1>7. CASE UserSettings
  <2> DEFINE links == {Link("dashboard", o) : o \in Listed}
  <2>1. \A ask \in links : Leads(req.user, ask)
    BY LinkLeads, PlainRoutes
  <2>2. Respond(Render(200, None, {}, links)) \/ Respond(Message(307))
    BY <1>7 DEF UserSettings
  <2>3. CASE Respond(Message(307))
    <3>1. Trail' /\ answer'.status = 307
      BY <1>1, <2>3, MessageKeepsTrail
    <3>2. QED
      BY <3>1, StatusLeads
  <2>4. QED
    <3> HIDE DEF links
    <3>1. QED
      BY <1>2, <2>1, <2>2, <2>3
<1>8. QED
  BY <1>5, <1>6, <1>7

\* The pages that recheck exact membership do not refuse a member, and nobody
\* follows a link to what is not there.
LEMMA ExactPagesLead ==
  ASSUME Truth, Trail, Truth', Handling, UNCHANGED viewer, ~failed' => ~failed,
         at \notin NotYetResolved \cup {"answered"}, req.route \in ExactRoutes,
         Fits(req.route, Target), answer'.status # 403
  PROVE  OfferedLinksLead'
<1> SUFFICES ASSUME at' = "answered", followed, ~failed,
                    auth # "none" /\ OrgAddressed \in past.always, answer'.status = 404
             PROVE  FALSE
  <2>1. UNCHANGED <<startupVars, req, followed, past>>
    BY DEF Handling, traces
  <2>2. req.thing # None
    BY SiteAssumption DEF Fits, ExactRoutes, PackagePlaces, OrgPlaces, ProjectPlaces, Things,
       Target
  <2>3. QED
    BY <2>1, <2>2 DEF OfferedLinksLead, Answered, OrgAddressed, Target, startupVars
<1>1. Target \in Things
  BY DEF Fits, ExactRoutes, PackagePlaces, OrgPlaces, ProjectPlaces, Things
<1>2. /\ SignedIn /\ past.always = Stands(req.user)
      /\ Leads(req.user, Ask(req.route, Target)) /\ OrgAddressed \in past.always
  BY <1>1, FollowedByMember
<1>3. Target \in past.always \cup Projects
  <2>1. CASE req.route = "package"
    BY <1>2, <2>1 DEF Fits, PackagePlaces, Leads, Ask, Stands, Present
  <2>2. CASE req.route = "org_graph"
    BY <1>2, <2>2 DEF Fits, OrgPlaces, OrgAddressed
  <2>3. CASE req.route = "project_graph"
    BY <2>3 DEF Fits, ProjectPlaces
  <2>4. QED
    BY <2>1, <2>2, <2>3 DEF ExactRoutes
<1>4. Answered' /\ UNCHANGED <<req, viewer, past>>
  BY DEF Answered, Handling, traces
<1>5. QED
  BY <1>2, <1>3, <1>4 DEF Truth, Verdicts, MemberIsNotRefused, SignedIn, Target,
     OrgAddressed, ExactRoutes

\* Where the package page is.
LEMMA OnPackagePage ==
  ASSUME Truth, Trail, at \in {"package"} \cup ReadsOfPackage
  PROVE  /\ req.route = "package" /\ Target \in Packages /\ Fits(req.route, Target)
         /\ OrgOf[Target] \in Orgs
         /\ at \notin NotYetResolved \cup {"answered"} /\ DOMAIN seen = SeenFields
BY SiteAssumption DEF Truth, Errand, Trail, Way, Disclosure, Known, Permission, Fits,
   PackagePlaces, OrgPlaces, ProjectPlaces, ReadPlaces, Pages, Posts, Target,
   ReadsOfPackage, NotYetResolved

LEMMA FindKeepsTrail ==
  ASSUME Truth, Trail, Truth', FindPackage
  PROVE  Trail' /\ OfferedLinksLead'
<1>1. /\ Handling /\ UNCHANGED viewer /\ at = "package" /\ req.route = "package"
      /\ Target \in Packages /\ Fits(req.route, Target)
      /\ at \notin NotYetResolved \cup {"answered"} /\ (~failed' => ~failed)
  BY OnPackagePage DEF FindPackage
<1>2. ASSUME NEW status \in {404, 503}, Respond(MessagePage(status))
      PROVE  Trail' /\ OfferedLinksLead'
  <2>1. Trail' /\ answer'.status = status
    BY <1>1, <1>2, MessageKeepsTrail
  <2>2. QED
    BY <1>1, <2>1, ExactPagesLead DEF ExactRoutes
<1>3. ASSUME visibility[Target] # "absent", Goto("package_org_role")
      PROVE  Trail' /\ OfferedLinksLead'
  <2>1. at' = "package_org_role" /\ UNCHANGED req
    BY <1>1, <1>3 DEF Goto, Handling
  <2>2. Way' /\ at' \notin NotYetResolved \cup {"answered"}
    BY <1>1, <2>1 DEF Way, ReadsOfGraph, ReadPlaces, NotYetResolved
  <2>3. QED
    BY <1>1, <1>3, <2>1, <2>2, GoOnKeepsTrail
<1>4. QED
  BY <1>2, <1>3 DEF FindPackage

LEMMA AuthorizeKeepsTrail ==
  ASSUME Truth, Trail, Truth', at \in {"package_org_role", "package_project_role"},
         Handling, UNCHANGED viewer, ~failed' => ~failed, NEW orgRole, NEW projectRole,
         past.calm => orgRole \in {None, Roster(req.user)[OrgOf[Target]]},
         Authorize(orgRole, projectRole)
  PROVE  Trail' /\ OfferedLinksLead'
<1>1. /\ req.route = "package" /\ Target \in Packages /\ Fits(req.route, Target)
      /\ at \notin NotYetResolved \cup {"answered"} /\ DOMAIN seen = SeenFields
      /\ at \in ReadsOfPackage /\ at # "idle"
  BY OnPackagePage DEF ReadsOfPackage
<1>2. CASE Respond(MessagePage(404))
  <2>1. Trail' /\ answer'.status = 404
    BY <1>1, <1>2, MessageKeepsTrail
  <2>2. QED
    BY <1>1, <2>1, ExactPagesLead DEF ExactRoutes
<1>3. CASE Goto("package_versions")
           /\ seen' = [seen EXCEPT !.role = orgRole, !.direct = projectRole]
  <2>1. at' = "package_versions" /\ UNCHANGED req /\ seen'.role = orgRole
    BY <1>1, <1>3 DEF Goto, Handling, SeenFields
  <2>2. Way' /\ at' \notin NotYetResolved \cup {"answered"}
    BY <1>1, <2>1 DEF Way, ReadsOfGraph, ReadPlaces, NotYetResolved
  <2>3. past.calm => visibility[Target] # "absent"
    BY <1>1 DEF Trail, Undisturbed
  <2>4. QED
    BY <1>1, <2>1, <2>2, <2>3, GoOnKeepsTrail
<1>4. QED
  BY <1>2, <1>3 DEF Authorize

LEMMA PackageRolesKeepTrail ==
  ASSUME Truth, Trail, Truth', PackageOrgRole \/ PackageProjectRole
  PROVE  Trail' /\ OfferedLinksLead'
<1>1. /\ Handling /\ UNCHANGED viewer /\ (~failed' => ~failed)
      /\ at \in {"package_org_role", "package_project_role"}
  BY DEF PackageOrgRole, PackageProjectRole, Note
<1>2. /\ req.route = "package" /\ Target \in Packages /\ Fits(req.route, Target)
      /\ at \notin NotYetResolved \cup {"answered"}
      /\ at \in ReadsOfPackage /\ at # "idle"
  BY <1>1, OnPackagePage DEF ReadsOfPackage
<1>3. CASE Respond(MessagePage(503))
  <2>1. Trail' /\ answer'.status = 503
    BY <1>1, <1>2, <1>3, MessageKeepsTrail
  <2>2. QED
    BY <2>1, StatusLeads
<1>4. CASE Goto("package_project_role")
  <2>1. at' = "package_project_role" /\ UNCHANGED req
    BY <1>1, <1>4 DEF Goto, Handling
  <2>2. Way' /\ at' \notin NotYetResolved \cup {"answered"}
    BY <1>2, <2>1 DEF Way, ReadsOfGraph, ReadPlaces, NotYetResolved
  <2>3. past.calm => visibility[Target] # "absent"
    BY <1>2 DEF Trail, Undisturbed
  <2>4. QED
    BY <1>1, <1>2, <2>1, <2>2, <2>3, GoOnKeepsTrail
<1>5. CASE PackageOrgRole
  <2>1. PICK result \in ExactOrgRole(OrgOf[Target]) :
          LET orgRole == IF result = "failed" THEN None ELSE result
          IN  IF result = "failed" /\ ~IsPublic
              THEN Respond(MessagePage(503)) /\ UNCHANGED seen
              ELSE IF orgRole = None /\ ProjectOf[Target] # None
              THEN Goto("package_project_role") /\ UNCHANGED seen
              ELSE Authorize(orgRole, None)
    BY <1>5 DEF PackageOrgRole
  <2> DEFINE orgRole == IF result = "failed" THEN None ELSE result
  <2>2. orgRole \in {None, Roster(req.user)[OrgOf[Target]]}
    <3>1. SignedIn => viewer.user = req.user /\ req.user # Nobody
      BY DEF SignedIn, Truth, Disclosure, Known
    <3>2. QED
      BY <2>1, <3>1 DEF ExactOrgRole, Roster
  <2>3. CASE Authorize(orgRole, None)
    BY <1>1, <2>2, <2>3, AuthorizeKeepsTrail
  <2>4. QED
    BY <1>3, <1>4, <2>1, <2>3
<1>6. CASE PackageProjectRole
  BY <1>1, <1>3, <1>6, AuthorizeKeepsTrail DEF PackageProjectRole
<1>7. QED
  BY <1>5, <1>6

LEMMA PackageReadsKeepTrail ==
  ASSUME Truth, Trail, Truth', PackageVersions \/ PackageLatest
  PROVE  Trail' /\ OfferedLinksLead'
<1>1. /\ Handling /\ UNCHANGED viewer /\ (~failed' => ~failed)
      /\ at \in {"package_versions", "package_latest"}
  BY DEF PackageVersions, PackageLatest
<1>2. /\ req.route = "package" /\ Target \in Packages /\ DOMAIN seen = SeenFields
      /\ at \notin NotYetResolved \cup {"answered"} /\ at # "idle"
      /\ past.calm => /\ visibility[Target] # "absent"
                      /\ seen.role \in {None, Roster(req.user)[OrgOf[Target]]}
  BY <1>1, OnPackagePage DEF ReadsOfPackage, Trail, Undisturbed
<1>3. CASE Respond(MessagePage(503))
  <2>1. Trail' /\ answer'.status = 503
    BY <1>1, <1>2, <1>3, MessageKeepsTrail
  <2>2. QED
    BY <2>1, StatusLeads
<1>4. ASSUME at' \in {"package_latest", "package_project"}, seen'.role = seen.role
      PROVE  Trail' /\ OfferedLinksLead'
  <2>1. UNCHANGED req
    BY <1>1 DEF Handling
  <2>2. Way' /\ at' \notin NotYetResolved \cup {"answered"}
    BY <1>2, <1>4, <2>1 DEF Way, ReadsOfGraph, ReadPlaces, NotYetResolved
  <2>3. QED
    BY <1>1, <1>2, <1>4, <2>2, GoOnKeepsTrail
<1>5. CASE PackageVersions
  <2>1. ASSUME NEW versions, seen' = [seen EXCEPT !.versions = versions]
        PROVE  seen'.role = seen.role
    BY <1>2, <2>1 DEF SeenFields
  <2>2. QED
    BY <1>3, <1>4, <1>5, <2>1 DEF PackageVersions, Goto
<1>6. CASE PackageLatest
  <2>1. ASSUME seen' = [seen EXCEPT !.selected = Selected(Target, seen.latest)]
        PROVE  seen'.role = seen.role
    BY <1>2, <2>1 DEF SeenFields
  <2>2. QED
    BY <1>3, <1>4, <1>6, <2>1 DEF PackageLatest, Goto
<1>7. QED
  BY <1>5, <1>6

LEMMA PackageProjectKeepsTrail ==
  ASSUME Truth, Trail, PackageProject
  PROVE  Trail' /\ OfferedLinksLead'
<1>1. Handling /\ UNCHANGED viewer /\ at = "package_project" /\ at # "idle"
  BY DEF PackageProject, Remains
<1>2. /\ Target \in Packages
      /\ past.calm => /\ visibility[Target] # "absent"
                      /\ seen.role \in {None, Roster(req.user)[OrgOf[Target]]}
  BY <1>1, OnPackagePage DEF ReadsOfPackage, Trail, Undisturbed
<1>3. PICK project : Respond(PackagePage(project))
  BY DEF PackageProject
<1> DEFINE links == {Link("project_graph", j) : j \in project}
             \cup (IF seen.role # None THEN {Link("org_graph", OrgOf[Target])} ELSE {})
             \cup (IF seen.role = "admin" THEN {Link("package_settings", Target)} ELSE {})
           shell == Render(200, Target, {Target} \cup project, links)
<1>4. ASSUME past.calm PROVE \A ask \in links : Leads(req.user, ask)
  <2>1. seen.role = "admin" => Leads(req.user, Link("package_settings", Target))
    BY <1>2, <1>4, SiteAssumption DEF Leads, Link, Pages, Roles
  <2>2. QED
    BY <2>1, LinkLeads, PlainRoutes
<1>5. answer'.offers = shell.offers /\ answer'.status = 200 /\ at' = "answered"
  BY <1>3 DEF Respond, PackagePage, Render, Page
<1>6. past.calm => \A ask \in shell.offers : Leads(req.user, ask)
  <2> HIDE DEF links
  <2>1. QED
    BY <1>1, <1>2, <1>4, RenderLeads DEF Truth, Things
<1>7. QED
  <2> HIDE DEF shell
  <2>1. QED
    BY <1>1, <1>5, <1>6, AnswerKeepsTrail, StatusLeads

\* Where the console is.
LEMMA InConsole ==
  ASSUME Truth, Trail,
         at \in {"dashboard", "org_settings", "project_settings", "package_settings"}
                  \cup ConsolePlaces
  PROVE  /\ Target \in Things /\ Fits(at, Target)
         /\ at \notin NotYetResolved \cup {"answered"} /\ DOMAIN seen = SeenFields
BY DEF Truth, Disclosure, Known, Permission, Fits, PackagePlaces, ConsolePlaces, OrgPlaces,
   ProjectPlaces, Things, Target, NotYetResolved

LEMMA ScopeKeepsTrail ==
  ASSUME Truth, Trail, OrgScope
  PROVE  Trail' /\ OfferedLinksLead'
<1>1. /\ Handling /\ UNCHANGED <<viewer, seen>> /\ (~failed' => ~failed) /\ at # "idle"
      /\ at \in {"dashboard", "org_settings", "project_settings", "package_settings"}
      /\ at \notin NotYetResolved \cup {"answered"}
      /\ Target \in Things /\ Fits(at, Target) /\ req.route = at
      /\ UNCHANGED <<startupVars, req, past, followed>>
  BY InConsole DEF OrgScope, Remains, Note, Truth, Errand, Pages, Handling, traces
<1>2. PICK outcome \in Outcomes :
        /\ IF db THEN Note(outcome) ELSE UNCHANGED failed
        /\ IF ~db THEN Respond(MessagePage(503))
           ELSE IF outcome = "failed" \/ ~InScope(OrgAddressed)
           THEN Respond(MessagePage(404))
           ELSE IF at \in {"org_settings", "package_settings"} /\ ~MayConfigure(OrgAddressed)
           THEN Respond(MessagePage(403))
           ELSE IF at = "org_settings"
           THEN Respond(Render(200, Target, {Target}, {}))
           ELSE Goto(AfterScope)
  BY DEF OrgScope
<1>3. CASE Respond(MessagePage(503))
  <2>1. Trail' /\ answer'.status = 503
    BY <1>1, <1>3, MessageKeepsTrail
  <2>2. QED
    BY <2>1, StatusLeads
<1>4. ASSUME NEW status \in {403, 404}, Respond(MessagePage(status)),
             followed /\ ~failed' /\ auth # "none" /\ OrgAddressed \in past.always
               /\ Cardinality(MemberOf(req.user)) <= PageLimit => FALSE
      PROVE  Trail' /\ OfferedLinksLead'
  <2>1. Trail'
    BY <1>1, <1>4, MessageKeepsTrail
  <2>2. req.thing # None
    BY <1>1, SiteAssumption DEF Target
  <2>3. FitsTheListing' => Cardinality(MemberOf(req.user)) <= PageLimit
    BY <1>1 DEF FitsTheListing, ConsoleRoutes, Handling, registry, MemberOf, Roster
  <2>4. OfferedLinksLead'
    BY <1>1, <1>4, <2>2, <2>3 DEF OfferedLinksLead, startupVars, OrgAddressed, Target
  <2>5. QED
    BY <2>1, <2>4
<1>5. ASSUME followed, ~failed', auth # "none", OrgAddressed \in past.always,
             Cardinality(MemberOf(req.user)) <= PageLimit
      PROVE  /\ InScope(OrgAddressed)
             /\ at \in {"org_settings", "package_settings"} => MayConfigure(OrgAddressed)
  <2>1. /\ viewer.user = req.user /\ viewer.roles = role[req.user]
        /\ OrgAddressed \in Orgs \cap orgs /\ role[req.user][OrgAddressed] # None
        /\ req.user \in Users
        /\ Leads(req.user, Ask(req.route, Target))
    BY <1>1, <1>5, FollowedByMember
  <2>2. InScope(OrgAddressed)
    BY <2>1 DEF InScope
  <2>3. at = "org_settings" => role[req.user][OrgAddressed] = "admin"
    BY <1>1, <2>1, SiteAssumption DEF Leads, Ask, Roster, Fits, OrgPlaces, OrgAddressed
  <2>4. at = "package_settings" => role[req.user][OrgAddressed] = "admin"
    <3>1. at = "package_settings" => Target \in Packages /\ Target \notin Orgs
      BY <1>1, SiteAssumption DEF Fits, PackagePlaces
    <3>2. QED
      BY <1>1, <2>1, <3>1, SiteAssumption DEF Leads, Ask, Roster, OrgAddressed
  <2>5. QED
    BY <2>1, <2>2, <2>3, <2>4 DEF MayConfigure, CanAdminister
<1>6. outcome = "failed" /\ db => failed'
  BY <1>2 DEF Note
<1>7. CASE Respond(Render(200, Target, {Target}, {})) /\ at = "org_settings"
  <2>1. Target \notin Packages
    BY <1>1, <1>7, SiteAssumption DEF Fits, OrgPlaces
  <2>2. Trail' /\ answer'.status = 200
    BY <1>1, <1>7, <2>1, ShellKeepsTrail
  <2>3. QED
    BY <2>2, StatusLeads
<1>8. CASE Goto(AfterScope) /\ at # "org_settings"
  <2>1. at' = CASE at = "dashboard"        -> "dashboard_projects"
                [] at = "project_settings" -> "project_settings_project"
                [] at = "package_settings" -> "package_settings_package"
    BY <1>8 DEF Goto, AfterScope
  <2>2. Way' /\ at' \notin NotYetResolved \cup {"answered"} \cup ReadsOfPackage
    BY <1>1, <1>8, <2>1 DEF Way, ReadsOfGraph, ReadsOfPackage, ReadPlaces, NotYetResolved
  <2>3. QED
    BY <1>1, <2>2, GoOnKeepsTrail DEF ReadsOfPackage
<1>9. QED
  BY <1>2, <1>3, <1>4, <1>5, <1>6, <1>7, <1>8

LEMMA DashboardKeepsTrail ==
  ASSUME Truth, Trail, DashboardProjects \/ DashboardPackages
  PROVE  Trail' /\ OfferedLinksLead'
<1>1. /\ Handling /\ UNCHANGED viewer /\ (~failed' => ~failed) /\ at # "idle"
      /\ at \in {"dashboard_projects", "dashboard_packages"}
      /\ at \notin NotYetResolved \cup {"answered"}
      /\ Target \in Orgs /\ Target \notin Packages /\ UNCHANGED req
      /\ req.route = "dashboard"
  BY InConsole, SiteAssumption DEF DashboardProjects, DashboardPackages, Remains, Note,
     ConsolePlaces, Fits, OrgPlaces, Handling, Trail, Way
<1>2. CASE DashboardProjects
  <2>1. at' = "dashboard_packages"
    BY <1>2 DEF DashboardProjects, Goto
  <2>2. Way' /\ at' \notin NotYetResolved \cup {"answered"} \cup ReadsOfPackage
    BY <1>1, <2>1 DEF Way, ReadsOfGraph, ReadsOfPackage, ReadPlaces, NotYetResolved
  <2>3. QED
    BY <1>1, <2>2, GoOnKeepsTrail DEF ReadsOfPackage
<1>3. CASE DashboardPackages
  <2>1. PICK outcome \in Outcomes :
          \E packages \in Read(outcome = "ok", InOrg(Target, Present), PackageLimit) :
            Respond(Render(200, Target, {Target} \cup seen.projects \cup packages,
              {Link("org_graph", Target)}
                \cup (IF CanAdminister(Target) THEN {Link("org_settings", Target)} ELSE {})
                \cup {Link("project_settings", j) : j \in seen.projects}
                \cup {Link("package", p) : p \in packages}))
    BY <1>3 DEF DashboardPackages
  <2>0. PICK packages \in Read(outcome = "ok", InOrg(Target, Present), PackageLimit) :
          Respond(Render(200, Target, {Target} \cup seen.projects \cup packages,
            {Link("org_graph", Target)}
              \cup (IF CanAdminister(Target) THEN {Link("org_settings", Target)} ELSE {})
              \cup {Link("project_settings", j) : j \in seen.projects}
              \cup {Link("package", p) : p \in packages}))
    BY <2>1
  <2> DEFINE shows == {Target} \cup seen.projects \cup packages
             links == {Link("org_graph", Target)}
                  \cup (IF CanAdminister(Target) THEN {Link("org_settings", Target)} ELSE {})
                  \cup {Link("project_settings", j) : j \in seen.projects}
                  \cup {Link("package", p) : p \in packages}
  <2>2. \A p \in packages : visibility[p] # "absent"
    BY ReadOfRows DEF InOrg, Present
  <2>3. ASSUME past.calm PROVE \A ask \in links : Leads(req.user, ask)
    <3>1. CanAdminister(Target) => Leads(req.user, Link("org_settings", Target))
      BY <1>1, <2>3, AdministersForReal, SettingsLinkLeads DEF Truth
    <3>2. QED
      BY <2>2, <3>1, LinkLeads, PackageLinkLeads, PlainRoutes
  <2>4. Respond(Render(200, Target, shows, links))
    BY <2>0
  <2>5. Trail' /\ answer'.status = 200
    <3> HIDE DEF shows, links
    <3>1. QED
      BY <1>1, <2>3, <2>4, ShellKeepsTrail DEF Things
  <2>6. QED
    BY <2>5, StatusLeads
<1>4. QED
  BY <1>2, <1>3

LEMMA ProjectSettingsKeepTrail ==
  ASSUME Truth, Trail, ProjectSettingsProject \/ ProjectSettingsPackages
  PROVE  Trail' /\ OfferedLinksLead'
<1>1. /\ Handling /\ UNCHANGED viewer /\ (~failed' => ~failed) /\ at # "idle"
      /\ at \in {"project_settings_project", "project_settings_packages"}
      /\ at \notin NotYetResolved \cup {"answered"}
      /\ Target \in Projects /\ Target \notin Packages /\ UNCHANGED req
      /\ req.route = "project_settings"
  BY InConsole, SiteAssumption DEF ProjectSettingsProject, ProjectSettingsPackages, Remains,
     Note, ConsolePlaces, Fits, ProjectPlaces, Handling, Trail, Way
<1>2. CASE ProjectSettingsProject
  <2>1. CASE at' = "project_settings_packages"
    <3>1. Way' /\ at' \notin NotYetResolved \cup {"answered"} \cup ReadsOfPackage
      BY <1>1, <2>1 DEF Way, ReadsOfGraph, ReadsOfPackage, ReadPlaces, NotYetResolved
    <3>2. QED
      BY <1>1, <3>1, GoOnKeepsTrail DEF ReadsOfPackage
  <2>2. CASE Respond(MessagePage(404)) /\ (failed' \/ ~FitsTheListing')
    BY <1>1, <2>2, MessageKeepsTrail DEF OfferedLinksLead
  <2>3. PICK outcome \in Outcomes :
          /\ Note(outcome)
          /\ \E projects \in Read(outcome = "ok", InOrg(OrgOf[Target], Projects), ProjectLimit) :
               IF Target \in projects THEN Goto("project_settings_packages")
               ELSE Respond(MessagePage(404))
    BY <1>2 DEF ProjectSettingsProject
  <2>4. CASE outcome = "ok"
    <3>1. PICK projects \in Excerpts(InOrg(OrgOf[Target], Projects), ProjectLimit) :
            IF Target \in projects THEN Goto("project_settings_packages")
            ELSE Respond(MessagePage(404))
      BY <2>3, <2>4 DEF Read
    <3>2. FitsTheListing' => Cardinality(InOrg(OrgOf[Target], Projects)) <= ProjectLimit
      <4>1. Target \notin Orgs
        BY <1>1, SiteAssumption
      <4>2. QED
        BY <1>1, <4>1 DEF FitsTheListing, OrgAddressed, Target, InOrg
    <3>3. FitsTheListing' => Target \in projects
      BY <1>1, <3>2, ListingHasProject
    <3>4. QED
      BY <2>1, <2>2, <3>1, <3>3 DEF Goto
  <2>5. CASE outcome # "ok"
    <3>1. failed'
      BY <2>3, <2>5 DEF Outcomes, Note
    <3>2. QED
      BY <2>1, <2>2, <2>3, <3>1 DEF Goto
  <2>6. QED
    BY <2>4, <2>5
<1>3. CASE ProjectSettingsPackages
  <2>1. PICK outcome \in Outcomes :
          \E packages \in Read(outcome = "ok", {p \in Present : ProjectOf[p] = Target}, PackageLimit) :
            Respond(Render(200, Target, {OrgOf[Target], Target} \cup packages,
              {Link("project_graph", Target), Link("dashboard", OrgOf[Target])}
                \cup {Link("package", p) : p \in packages}))
    BY <1>3 DEF ProjectSettingsPackages
  <2>0. PICK packages \in Read(outcome = "ok", {p \in Present : ProjectOf[p] = Target}, PackageLimit) :
          Respond(Render(200, Target, {OrgOf[Target], Target} \cup packages,
            {Link("project_graph", Target), Link("dashboard", OrgOf[Target])}
              \cup {Link("package", p) : p \in packages}))
    BY <2>1
  <2> DEFINE shows == {OrgOf[Target], Target} \cup packages
             links == {Link("project_graph", Target), Link("dashboard", OrgOf[Target])}
                  \cup {Link("package", p) : p \in packages}
  <2>2. \A p \in packages : visibility[p] # "absent"
    BY ReadOfRows DEF Present
  <2>3. \A ask \in links : Leads(req.user, ask)
    BY <2>2, LinkLeads, PackageLinkLeads, PlainRoutes
  <2>4. Respond(Render(200, Target, shows, links))
    BY <2>0
  <2>5. Trail' /\ answer'.status = 200
    <3> HIDE DEF shows, links
    <3>1. QED
      BY <1>1, <2>3, <2>4, ShellKeepsTrail DEF Things
  <2>6. QED
    BY <2>5, StatusLeads
<1>4. QED
  BY <1>2, <1>3

LEMMA PackageSettingsKeepTrail ==
  ASSUME Truth, Trail, PackageSettings
  PROVE  Trail' /\ OfferedLinksLead'
<1>1. /\ Handling /\ UNCHANGED viewer /\ (~failed' => ~failed) /\ at # "idle"
      /\ at = "package_settings_package" /\ req.route = "package_settings"
      /\ at \notin NotYetResolved \cup {"answered"} /\ Target \in Packages
      /\ UNCHANGED <<startupVars, req, past, followed>>
  BY InConsole DEF PackageSettings, Remains, Note, ConsolePlaces, Fits, PackagePlaces,
     Handling, traces, Trail, Way
<1> DEFINE links == {Link("package", Target)}
<1>2. PICK outcome \in Outcomes :
        /\ Note(outcome)
        /\ Respond(IF outcome = "failed" \/ visibility[Target] = "absent" THEN MessagePage(404)
                   ELSE Render(200, Target, {OrgOf[Target], Target}, links))
  BY DEF PackageSettings
<1>3. CASE visibility[Target] # "absent"
           /\ Respond(Render(200, Target, {OrgOf[Target], Target}, links))
  <2>1. \A ask \in links : Leads(req.user, ask)
    BY <1>3, PackageLinkLeads
  <2>2. Trail' /\ answer'.status = 200
    <3> HIDE DEF links
    <3>1. QED
      BY <1>1, <1>3, <2>1, ShellKeepsTrail DEF Things
  <2>3. QED
    BY <2>2, StatusLeads
<1>4. CASE Respond(MessagePage(404)) /\ (outcome = "failed" \/ visibility[Target] = "absent")
  <2>1. Trail'
    BY <1>1, <1>4, MessageKeepsTrail
  <2>2. followed => visibility[Target] # "absent"
    BY <1>1 DEF Trail, Leads, Ask, Target
  <2>3. outcome = "failed" => failed'
    BY <1>2 DEF Note
  <2>4. followed' /\ ~failed' => FALSE
    BY <1>1, <1>4, <2>2, <2>3
  <2>5. QED
    BY <2>1, <2>4 DEF OfferedLinksLead
<1>5. QED
  BY <1>2, <1>3, <1>4

\* Where a graph's page is.
LEMMA OnGraphPage ==
  ASSUME Truth, Trail, at \in {"org_graph", "project_graph"} \cup ReadsOfGraph
  PROVE  /\ req.route \in ExactRoutes \ {"package"} /\ Fits(req.route, Target)
         /\ at \notin NotYetResolved \cup {"answered"} \cup ReadsOfPackage
         /\ DOMAIN seen = SeenFields
BY DEF Truth, Errand, Trail, Way, Disclosure, Known, Permission, Target, Pages, ExactRoutes,
   ReadsOfGraph, ReadPlaces, ReadsOfPackage, NotYetResolved

LEMMA GraphKeepsTrail ==
  ASSUME Truth, Trail, Truth', GraphPagesNext
  PROVE  Trail' /\ OfferedLinksLead'
<1>1. /\ Handling /\ UNCHANGED viewer /\ (~failed' => ~failed) /\ at # "idle"
      /\ at \in {"org_graph", "project_graph"} \cup ReadsOfGraph
  <2>1. CASE GraphOrg
    BY <2>1 DEF GraphOrg, Remains
  <2>2. CASE GraphOrgRole \/ GraphProjectRole
    BY <2>2 DEF GraphOrgRole, GraphProjectRole, Note, ReadsOfGraph
  <2>3. ASSUME NEW place \in ReadsOfGraph, NEW found, Query(place, found)
        PROVE  Handling /\ UNCHANGED viewer /\ (~failed' => ~failed) /\ at = place
    BY <2>3 DEF Query
  <2>4. CASE GraphProject \/ GraphPackages \/ GraphVersions \/ GraphLicenses
    <3>1. \E place \in ReadsOfGraph : /\ Handling /\ UNCHANGED viewer
                                      /\ (~failed' => ~failed) /\ at = place
      <4>1. {"graph_project", "graph_packages", "graph_versions", "graph_licenses"}
              \subseteq ReadsOfGraph
        BY DEF ReadsOfGraph, ReadPlaces
      <4>2. QED
        BY <2>3, <2>4, <4>1
           DEF GraphProject, GraphPackages, GraphVersions, GraphLicenses
    <3>2. QED
      BY <3>1 DEF ReadsOfGraph, ReadPlaces
  <2>5. QED
    BY <2>1, <2>2, <2>4 DEF GraphPagesNext
<1>2. /\ req.route \in ExactRoutes \ {"package"} /\ Fits(req.route, Target)
      /\ at \notin NotYetResolved \cup {"answered"} /\ UNCHANGED req
  BY <1>1, OnGraphPage DEF Handling
<1>3. ASSUME NEW status \in {404, 503}, Respond(MessagePage(status))
      PROVE  Trail' /\ OfferedLinksLead'
  <2>1. Trail' /\ answer'.status = status
    BY <1>1, <1>3, MessageKeepsTrail
  <2>2. QED
    BY <1>1, <1>2, <2>1, ExactPagesLead
<1>4. ASSUME NEW place \in ReadsOfGraph, Goto(place)
      PROVE  Trail' /\ OfferedLinksLead'
  <2>1. at' = place
    BY <1>4 DEF Goto
  <2>2. Way' /\ at' \notin NotYetResolved \cup {"answered"} \cup ReadsOfPackage
    BY <1>2, <1>4, <2>1 DEF Way, ReadsOfGraph, ReadsOfPackage, ReadPlaces, NotYetResolved,
       ExactRoutes, Target, Fits
  <2>3. QED
    BY <1>1, <1>2, <2>2, GoOnKeepsTrail DEF ReadsOfPackage
<1>5. CASE GraphOrg
  BY <1>3, <1>4, <1>5 DEF GraphOrg, ReadsOfGraph
<1>6. CASE GraphProject
  BY <1>3, <1>4, <1>6 DEF GraphProject, Query, ReadsOfGraph
<1>7. CASE GraphOrgRole
  <2>1. ASSUME NEW result, AfterOrgRole(result) # "refused"
        PROVE  AfterOrgRole(result) \in ReadsOfGraph
    BY <2>1 DEF AfterOrgRole, ReadsOfGraph, ReadPlaces
  <2>2. QED
    BY <1>3, <1>4, <1>7, <2>1 DEF GraphOrgRole
<1>8. CASE GraphProjectRole
  BY <1>3, <1>4, <1>8 DEF GraphProjectRole, ReadsOfGraph, ReadPlaces
<1>9. CASE GraphPackages
  BY <1>3, <1>4, <1>9 DEF GraphPackages, Query, ReadsOfGraph, ReadPlaces
<1>10. CASE GraphVersions
  BY <1>3, <1>4, <1>10 DEF GraphVersions, Query, ReadsOfGraph, ReadPlaces
<1>11. ASSUME NEW sources, at = "graph_licenses", Respond(GraphPage(sources))
       PROVE  Trail' /\ OfferedLinksLead'
  <2> DEFINE links == {IF Target \in Orgs THEN Link("dashboard", Target)
                       ELSE Link("project_settings", Target)}
             shell == Render(200, Target, {Target} \cup {row[1] : row \in sources}, links)
  <2>1. Target \in Orgs \cup Projects /\ Target \notin Packages
    BY <1>11, SiteAssumption DEF Truth, Disclosure, Permission, Fits, ReadPlaces, Target
  <2>2. answer'.offers = shell.offers /\ answer'.status = 200 /\ at' = "answered"
    BY <1>11 DEF Respond, GraphPage, Render, Page
  <2>3. \A ask \in links : Leads(req.user, ask)
    BY LinkLeads, PlainRoutes
  <2>4. past.calm => \A ask \in shell.offers : Leads(req.user, ask)
    <3> HIDE DEF links
    <3>1. QED
      BY <1>1, <2>1, <2>3, RenderLeads DEF Truth, Things
  <2>5. QED
    <3> HIDE DEF shell
    <3>1. QED
      BY <1>1, <2>2, <2>4, AnswerKeepsTrail, StatusLeads
<1>12. CASE GraphLicenses
  BY <1>3, <1>11, <1>12 DEF GraphLicenses, Query
<1>13. QED
  BY <1>5, <1>6, <1>7, <1>8, <1>9, <1>10, <1>12 DEF GraphPagesNext

LEMMA AccountKeepsTrail ==
  ASSUME Truth, Trail, Handling, UNCHANGED viewer, at # "idle", NEW status, NEW notice,
         Respond(AccountPage(status, notice))
  PROVE  Trail' /\ (notice = "" => answer'.status \in {200, 503})
<1> DEFINE shown == IF notice # "" THEN status ELSE IF Stage = "unavailable" THEN 503 ELSE 200
           links == Workspaces \cup {Link("choose", None)}
           shell == Render(shown, None, {}, links)
<1>1. ASSUME past.calm PROVE \A ask \in links : Leads(req.user, ask)
  <2>1. \A o \in Orgs : CanAdminister(o) => Leads(req.user, Link("org_settings", o))
    BY <1>1, AdministersForReal, SettingsLinkLeads DEF Truth
  <2>2. QED
    BY <2>1, LinkLeads, PlainRoutes DEF Workspaces
<1>2. answer'.offers = shell.offers /\ answer'.status = shown /\ at' = "answered"
  BY DEF Respond, AccountPage, Render, Page
<1>3. past.calm => \A ask \in shell.offers : Leads(req.user, ask)
  <2>1. None \in Things \cup {None} /\ None \notin Packages
    BY SiteAssumption DEF Things
  <2> HIDE DEF links, shown
  <2>2. QED
    BY <1>1, <2>1, RenderLeads DEF Truth
<1>4. Trail'
  <2> HIDE DEF shell
  <2>1. QED
    BY <1>2, <1>3, AnswerKeepsTrail
<1>5. QED
  BY <1>2, <1>4

\* A request that was turned to another page keeps what it knows.
LEMMA EnrollFailsKeepsTrail ==
  ASSUME Truth, Trail, Handling, UNCHANGED viewer, at \in {"enroll", "enroll_created"},
         NEW status, EnrollFails(status)
  PROVE  Trail' /\ OfferedLinksLead'
<1>1. CASE Respond(Message(303))
  <2>1. Trail' /\ answer'.status = 303
    BY <1>1, MessageKeepsTrail
  <2>2. QED
    BY <2>1, StatusLeads
<1>2. CASE at' = "resolve"
  <2>1. UNCHANGED <<registry, req, past, offered, followed, viewer>> /\ at # "idle"
    BY DEF Handling, traces
  <2>2. \A u, ask : Leads(u, ask)' <=> Leads(u, ask)
    BY <2>1, LeadsStay
  <2>3. Way'
    BY <1>2 DEF Way, ReadsOfPackage, ReadsOfGraph, ReadPlaces
  <2>4. past'.calm => Undisturbed'
    BY <1>2, <2>1 DEF Trail, Undisturbed, Abridged, registry, Stands, MemberOf, DirectOf, Present,
       Roster, SignedIn, ReadsOfPackage, Answered
  <2>5. Trail'
    BY <1>2, <2>1, <2>2, <2>3, <2>4 DEF Trail, NotYetResolved, SignedIn, Listed
  <2>6. QED
    BY <1>2, <2>5 DEF OfferedLinksLead, Answered
<1>3. QED
  BY <1>1, <1>2 DEF EnrollFails, Goto

\* A change forgets the links, and that the request was followed.
LEMMA RememberKeepsTrail ==
  ASSUME Truth, Trail, Remember, UNCHANGED <<startupVars, req, viewer, failed>>,
         \/ at' = at
         \/ at' = "enroll_created" /\ at = "enroll"
  PROVE  Trail' /\ OfferedLinksLead'
<1>1. offered' = {} /\ ~followed' /\ (at # "idle" => ~past'.calm)
  BY DEF Remember, Truth, Disclosure, Known, PastFields
<1>2. Way'
  BY DEF Trail, Way, ReadsOfPackage, ReadsOfGraph, ReadPlaces, Target
<1>3. at' # "idle" => at # "idle"
  OBVIOUS
<1>4. Trail'
  BY <1>1, <1>2, <1>3 DEF Trail, NotYetResolved, SignedIn, Listed, startupVars
<1>5. QED
  BY <1>1, <1>4 DEF OfferedLinksLead

LEMMA EnrollmentKeepsTrail ==
  ASSUME Truth, Trail, EnrollmentNext
  PROVE  Trail' /\ OfferedLinksLead'
<1>1. ASSUME Handling, UNCHANGED viewer, at # "idle", NEW status \in {303, 307},
             Respond(Message(status))
      PROVE  Trail' /\ OfferedLinksLead'
  <2>1. Trail' /\ answer'.status = status
    BY <1>1, MessageKeepsTrail
  <2>2. QED
    BY <1>1, <2>1, StatusLeads
<1>2. CASE Choose
  <2> DEFINE links == {Link("individual", None), Link("organization", None)}
  <2>1. \A ask \in links : Leads(req.user, ask)
    BY LinkLeads, PlainRoutes
  <2>2. /\ Respond(Render(200, None, {}, links)) /\ at # "idle" /\ Handling
        /\ UNCHANGED viewer /\ None \in Things \cup {None} /\ None \notin Packages
    BY <1>2, SiteAssumption DEF Choose, Remains, Things
  <2>3. Trail' /\ answer'.status = 200
    <3> HIDE DEF links
    <3>1. QED
      BY <2>1, <2>2, ShellKeepsTrail
  <2>4. QED
    BY <2>3, StatusLeads
<1>3. CASE RenderAccount
  <2>1. Trail' /\ answer'.status \in {200, 503}
    BY <1>3, AccountKeepsTrail DEF RenderAccount, Remains
  <2>2. QED
    BY <2>1, StatusLeads
<1>4. CASE Entry
  BY <1>1, <1>4 DEF Entry, Remains
<1>5. CASE EntryUnavailable
  <2>1. /\ at = "entry" /\ at' = "resolve" /\ viewer' = Anonymous
        /\ req' = [req EXCEPT !.route = "organization"]
        /\ UNCHANGED <<startupVars, registry, past, offered, followed>>
    BY <1>5 DEF EntryUnavailable, traces
  <2>2. req'.user = req.user /\ req'.thing = req.thing /\ req'.route = "organization"
    BY <2>1 DEF Truth, Disclosure, Known
  <2>3. ~SignedIn' /\ Listed' = {}
    BY <2>1 DEF SignedIn, Listed, Anonymous
  <2>4. \A u, ask : Leads(u, ask)' <=> Leads(u, ask)
    BY <2>1, LeadsStay
  <2>5. Way'
    BY <2>1 DEF Way, ReadsOfPackage, ReadsOfGraph, ReadPlaces
  <2>6. past'.calm => Undisturbed'
    BY <2>1, <2>2, <2>3 DEF Trail, Undisturbed, registry, Stands, MemberOf, DirectOf, Present,
       Roster, ReadsOfPackage, Answered
  <2>7. Leads(req.user, Ask(req.route, req.thing))'
    BY <2>2 DEF Leads, Ask, Pages
  <2>8. \A link \in offered' : Leads(link[1], link[2])'
    BY <2>1, <2>4 DEF Trail
  <2>9. Trail'
    BY <2>1, <2>3, <2>5, <2>6, <2>7, <2>8 DEF Trail, NotYetResolved
  <2>10. QED
    BY <2>1, <2>9 DEF OfferedLinksLead, Answered
<1>6. CASE EnrollRefused
  BY <1>1, <1>6, EnrollFailsKeepsTrail DEF EnrollRefused
<1>7. CASE ApiRefuses
  BY <1>7, EnrollFailsKeepsTrail DEF ApiRefuses
<1>8. CASE EnrollAnswered
  <2>1. ASSUME Respond([Message(303) EXCEPT !.notice = "Created"])
        PROVE  Trail' /\ OfferedLinksLead'
    <3>1. answer'.offers = {} /\ answer'.status = 303 /\ at' = "answered"
      BY <2>1 DEF Respond, Message, Page
    <3>2. QED
      BY <1>8, <3>1, AnswerKeepsTrail, StatusLeads DEF EnrollAnswered
  <2>2. QED
    BY <1>8, <2>1, EnrollFailsKeepsTrail DEF EnrollAnswered
<1>9. CASE ApiCreates
  BY <1>9, RememberKeepsTrail DEF ApiCreates, Goto
<1>10. CASE RenderFailure
  <2>1. Trail' /\ at # "idle" /\ Handling
    BY <1>10, AccountKeepsTrail DEF RenderFailure, Remains, Posts
  <2>2. ~followed'
    <3>1. req.route \in Posts /\ req.route \notin Pages
      BY <1>10 DEF RenderFailure, Truth, Errand, Posts, Pages
    <3>2. QED
      BY <2>1, <3>1 DEF Trail, Leads, Ask, Handling, traces
  <2>3. QED
    BY <2>1, <2>2 DEF OfferedLinksLead
<1>11. QED
  BY <1>2, <1>3, <1>4, <1>5, <1>6, <1>7, <1>8, <1>9, <1>10 DEF EnrollmentNext

LEMMA ArriveKeepsTrail ==
  ASSUME Truth, Trail, NEW u \in Users \cup {Nobody},
         NEW route \in Pages \cup Posts, NEW thing, Arrive(u, Ask(route, thing))
  PROVE  Trail' /\ OfferedLinksLead'
<1>1. /\ at = "idle" /\ viewer' = Anonymous
      /\ at' \in {"enroll", "resolve"}
      /\ req' = [route |-> route, thing |-> thing, user |-> u]
      /\ past' = [ever |-> Grants(u), always |-> Stands(u), yanked |-> yanked, calm |-> TRUE]
      /\ followed' = (<<u, Ask(route, thing)>> \in offered)
      /\ offered' = {} /\ UNCHANGED <<startupVars, registry>>
  BY DEF Arrive, Ask, Truth, Disclosure, Known
<1>2. ~SignedIn' /\ Listed' = {}
  BY <1>1 DEF SignedIn, Listed, Anonymous
<1>3. Way'
  BY <1>1 DEF Way, ReadsOfPackage, ReadsOfGraph, ReadPlaces
<1>4. Undisturbed'
  BY <1>1, <1>2 DEF Undisturbed, Abridged, registry, Stands, MemberOf, DirectOf, Present, Roster,
     ReadsOfPackage, Answered
<1>5. followed' => Leads(req.user, Ask(req.route, req.thing))'
  <2>1. SUFFICES ASSUME followed' PROVE Leads(req.user, Ask(req.route, req.thing))'
    OBVIOUS
  <2>2. Leads(u, Ask(route, thing))
    BY <1>1, <2>1 DEF Trail
  <2>3. Leads(u, Ask(route, thing))'
    BY <1>1, <2>2, LeadsStay
  <2>4. QED
    BY <1>1, <2>3 DEF Leads, Ask, Roster
<1>6. Trail'
  BY <1>1, <1>2, <1>3, <1>4, <1>5 DEF Trail, NotYetResolved
<1>7. QED
  BY <1>1, <1>6 DEF OfferedLinksLead, Answered

LEMMA DeliverKeepsTrail ==
  ASSUME Truth, Trail, Deliver
  PROVE  Trail' /\ OfferedLinksLead'
<1>1. /\ at = "answered" /\ at' = "idle" /\ viewer' = Anonymous /\ ~followed'
      /\ offered' = IF past.calm THEN {req.user} \X answer.offers ELSE {}
      /\ UNCHANGED registry
  BY DEF Deliver
<1>2. ~SignedIn' /\ Listed' = {}
  BY <1>1 DEF SignedIn, Listed, Anonymous
<1>3. Way'
  BY <1>1 DEF Way, ReadsOfPackage, ReadsOfGraph, ReadPlaces
<1>4. \A link \in offered' : Leads(link[1], link[2])'
  <2>1. ASSUME NEW link \in offered' PROVE Leads(link[1], link[2])'
    <3>1. past.calm /\ link[1] = req.user /\ link[2] \in answer.offers
      BY <1>1, <2>1
    <3>2. Leads(link[1], link[2])
      BY <1>1, <3>1 DEF Trail, Undisturbed, Answered
    <3>3. QED
      BY <1>1, <3>2 DEF Leads, Roster, registry
  <2>2. QED
    BY <2>1
<1>5. Trail'
  BY <1>1, <1>2, <1>3, <1>4 DEF Trail, NotYetResolved
<1>6. QED
  BY <1>1, <1>5 DEF OfferedLinksLead

LEMMA ResolveKeepsTrail ==
  ASSUME Truth, Trail, Resolve
  PROVE  Trail' /\ OfferedLinksLead'
<1>1. /\ at = "resolve" /\ at' = req.route /\ req.route \in Pages \cup Posts
      /\ Handling /\ UNCHANGED <<startupVars, registry, req, past, offered, followed>>
  BY DEF Resolve, Goto, Handling, traces, Truth, Disclosure, Permission
<1>2. at' \notin NotYetResolved \cup {"answered"} \cup ReadsOfPackage
  BY <1>1 DEF Pages, Posts, NotYetResolved, ReadsOfPackage
<1>3. Way'
  BY <1>1 DEF Way, ReadsOfPackage, ReadsOfGraph, ReadPlaces, Pages, Posts
<1>4. /\ ~SignedIn' => Listed' = {}
      /\ ~failed' /\ auth # "none" => viewer'.user = req.user
      /\ past.calm /\ SignedIn' => Abridged(viewer'.roles, req.user)
  <2>1. CASE Subject = Nobody /\ UNCHANGED <<viewer, failed>>
    <3>1. auth # "none" => viewer.user = req.user
      BY <2>1 DEF Subject, Truth, Disclosure, Known
    <3>2. QED
      BY <1>1, <2>1, <3>1 DEF Trail, Undisturbed, SignedIn, Listed
  <2>2. CASE viewer' = [Anonymous EXCEPT !.unavailable = TRUE] /\ failed'
    BY <2>2 DEF Anonymous, SignedIn, Listed
  <2>3. ASSUME Subject # Nobody, NEW roles \in Listings(Subject),
               viewer' = [user |-> Subject, roles |-> roles, unavailable |-> FALSE]
        PROVE  /\ viewer'.user = req.user /\ SignedIn'
               /\ Abridged(viewer'.roles, req.user)
    <3>1. Subject = req.user /\ Subject \in Users
      BY <2>3 DEF Subject, Truth, Disclosure, Known
    <3>2. QED
      BY <2>3, <3>1, ListingIsAbridged DEF SignedIn, Truth
  <2>4. QED
    BY <2>1, <2>2, <2>3 DEF Resolve
<1>5. past'.calm => Undisturbed'
  BY <1>1, <1>2, <1>4 DEF Trail, Undisturbed, Abridged, registry, Stands, MemberOf, DirectOf, Present,
     Roster, ReadsOfPackage, Answered
<1>6. \A u, ask : Leads(u, ask)' <=> Leads(u, ask)
  BY <1>1, LeadsStay
<1>7. followed' => at' # "idle" /\ past'.calm /\ Leads(req.user, Ask(req.route, req.thing))'
  BY <1>1, <1>2, <1>6 DEF Trail, NotYetResolved
<1>8. \A link \in offered' : Leads(link[1], link[2])'
  BY <1>1, <1>6 DEF Trail
<1>9. Trail'
  BY <1>1, <1>3, <1>4, <1>5, <1>7, <1>8 DEF Trail, startupVars
<1>10. QED
  BY <1>2, <1>9 DEF OfferedLinksLead, Answered

LEMMA InitTrail == Init => Trail /\ OfferedLinksLead
BY DEF Init, Trail, Way, ReadsOfPackage, ReadsOfGraph, ReadPlaces, NotYetResolved, SignedIn,
   Listed, Anonymous, OfferedLinksLead

LEMMA StepKeepsTrail ==
  Truth /\ Truth' /\ Trail /\ OfferedLinksLead /\ [Next]_vars
    => Trail' /\ OfferedLinksLead'
<1> SUFFICES ASSUME Truth, Truth', Trail, OfferedLinksLead, [Next]_vars
             PROVE  Trail' /\ OfferedLinksLead'
  OBVIOUS
<1>1. CASE UNCHANGED <<pageVars, startupVars>>
  <2>1. \A u, ask : Leads(u, ask)' <=> Leads(u, ask)
    BY <1>1, LeadsStay DEF pageVars
  <2>2. Undisturbed' <=> Undisturbed
    BY <1>1 DEF pageVars, registry, request, traces, Undisturbed, Abridged, Leads, Stands,
       MemberOf,
       DirectOf, Present, Roster, SignedIn, Answered, Target
  <2>3. Way' <=> Way
    BY <1>1 DEF pageVars, request, Way, Target
  <2>4. Trail'
    BY <1>1, <2>1, <2>2, <2>3 DEF pageVars, request, traces, startupVars, Trail, SignedIn,
       Listed
  <2>5. QED
    BY <1>1, <2>4 DEF pageVars, registry, request, traces, startupVars, OfferedLinksLead,
       Answered, OrgAddressed, Target, FitsTheListing, MemberOf, Roster, InOrg
<1>2. CASE Starting
  <2>1. phase # "serving" /\ at = "idle" /\ at' = "idle" /\ UNCHANGED pageVars
    BY <1>2 DEF Starting, StartupNext, Connect, ConnectFails, Pause, Configure, pageVars,
       request, Truth, Standing
  <2>2. \A u, ask : Leads(u, ask)' <=> Leads(u, ask)
    BY <2>1, LeadsStay DEF pageVars
  <2>3. Way'
    BY <2>1 DEF Way, ReadsOfPackage, ReadsOfGraph, ReadPlaces
  <2>4. Trail'
    BY <2>1, <2>2, <2>3 DEF pageVars, request, traces, Trail, SignedIn, Listed, NotYetResolved
  <2>5. QED
    BY <2>1, <2>4 DEF OfferedLinksLead, Answered
<1>3. CASE RegistryChanges
  <2>1. Remember /\ UNCHANGED <<startupVars, at, req, viewer, failed>>
    BY <1>3 DEF RegistryChanges, ChangeRole, ChangeDirect, ChangeVisibility, Release, Yank,
       Change, request
  <2>2. QED
    BY <2>1, RememberKeepsTrail
<1>4. CASE Asking
  BY <1>4, ArriveKeepsTrail DEF Asking
<1>5. CASE Timeout
  <2>1. Trail' /\ answer'.status = 408
    BY <1>5, MessageKeepsTrail DEF Timeout
  <2>2. QED
    BY <2>1, StatusLeads
<1>6. CASE Answering
  BY <1>5, <1>6, ResolveKeepsTrail, ListingPagesKeepTrail, FindKeepsTrail,
     PackageRolesKeepTrail, PackageReadsKeepTrail, PackageProjectKeepsTrail,
     ScopeKeepsTrail, DashboardKeepsTrail, ProjectSettingsKeepTrail,
     PackageSettingsKeepTrail, GraphKeepsTrail, EnrollmentKeepsTrail, DeliverKeepsTrail
     DEF Answering, RegistryPagesNext
<1>7. QED
  BY <1>1, <1>2, <1>3, <1>4, <1>6 DEF Next, Paging, SigningIn, vars

\* No breadcrumb, menu or button offered to a member leads to a refusal while
\* nothing changes, apart from links to what a listing of the code does not hold,
\* for any registry and any limit of the listings.
THEOREM LinksLead == Spec => []OfferedLinksLead
BY InitTruth, StepKeepsTruth, InitTrail, StepKeepsTrail, PTL DEF Spec
=============================================================================
