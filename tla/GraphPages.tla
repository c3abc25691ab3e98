------------------------------- MODULE GraphPages -------------------------------
(***************************************************************************)
(* The organisation and project topology pages                             *)
(* (src/routes/dependency_graph_page.rs) and the workspace they open       *)
(* (scope_workspace of src/views/dependency_graph.rs).  Unlike the console *)
(* they authorize by exact membership and never take a failed read for an  *)
(* absent thing.                                                           *)
(***************************************************************************)
EXTENDS RegistryPages

CONSTANT ScopeLimit   \* SCOPE_PACKAGE_LIMIT

ASSUME ScopeAssumption == ScopeLimit \in Nat

-----------------------------------------------------------------------------
(* The rows. *)

\* Mutant: every row has its package's latest version, yanked or not.
RowsUnread(listed) == listed

\* latest_graph_rows: of the versions the listing named, those the second query
\* finds unyanked.  A third query reads the licenses of these very versions.
Rows(listed) == listed \ yanked

\* Mutant: what does not fit is not counted.
OmittedNone(published) == 0

\* scope_workspace: the packages beyond the limit are told of.
Omitted(published) ==
  IF Cardinality(published) > ScopeLimit THEN Cardinality(published) - ScopeLimit ELSE 0

-----------------------------------------------------------------------------
(* org_scope and project_scope *)

\* A query of these pages: it answers 503 when it fails.
Query(place, found) ==
  /\ at = place
  /\ \/ failed' = TRUE /\ Respond(MessagePage(503)) /\ UNCHANGED seen
     \/ UNCHANGED failed /\ found
  /\ Handling
  /\ UNCHANGED viewer

GraphOrg ==
  /\ at \in {"org_graph", "project_graph"}
  /\ \/ /\ ~db /\ Respond(MessagePage(503)) /\ UNCHANGED failed
     \/ /\ db /\ failed' = TRUE /\ Respond(MessagePage(503))
     \/ /\ db
        /\ IF OrgAddressed \notin orgs THEN Respond(MessagePage(404))
           ELSE Goto(IF at = "org_graph" THEN "graph_org_role" ELSE "graph_project")
        /\ UNCHANGED failed
  /\ Handling /\ Remains

GraphProject == Query("graph_project", Goto("graph_org_role") /\ UNCHANGED seen)

\* Mutant: a project's graph is for its own members alone.
AfterOrgRoleBoth(orgRole) ==
  IF Target \in Projects /\ SignedIn THEN "graph_project_role"
  ELSE IF orgRole # None THEN "graph_packages"
  ELSE "refused"

\* The organisation's graph is for its members; a project's also for its own.
AfterOrgRole(orgRole) ==
  IF orgRole # None THEN "graph_packages"
  ELSE IF Target \in Projects /\ SignedIn THEN "graph_project_role"
  ELSE "refused"

GraphOrgRole ==
  /\ at = "graph_org_role"
  /\ \E result \in ExactOrgRole(OrgAddressed) :
       /\ Note(result)
       /\ IF result = "failed" THEN Respond(MessagePage(503)) /\ UNCHANGED seen
          ELSE IF AfterOrgRole(result) = "refused"
          THEN Respond(MessagePage(404)) /\ UNCHANGED seen
          ELSE /\ Goto(AfterOrgRole(result))
               /\ seen' = [seen EXCEPT !.role = result]
  /\ Handling
  /\ UNCHANGED viewer

GraphProjectRole ==
  /\ at = "graph_project_role"
  /\ \E result \in ExactProjectRole(Target) :
       /\ Note(result)
       /\ IF result = "failed" THEN Respond(MessagePage(503)) /\ UNCHANGED seen
          ELSE IF result = None THEN Respond(MessagePage(404)) /\ UNCHANGED seen
          ELSE Goto("graph_packages") /\ seen' = [seen EXCEPT !.direct = result]
  /\ Handling
  /\ UNCHANGED viewer

-----------------------------------------------------------------------------
(* The listing, the exact versions, and the page. *)

\* packages_for_org and packages_for_project, private ones included, with the
\* latest version of each.
InGraph == {p \in Present : IF Target \in Orgs THEN OrgOf[p] = Target
                            ELSE ProjectOf[p] = Target}

GraphPackages ==
  Query("graph_packages",
    /\ \E packages \in Excerpts(InGraph, PackageLimit) :
         seen' = [seen EXCEPT !.packages = packages,
                              !.rows = {<<p, latest[p]>> : p \in {q \in packages : latest[q] # 0}}]
    /\ Goto("graph_versions"))

GraphVersions ==
  Query("graph_versions",
    /\ seen' = [seen EXCEPT !.rows = Rows(seen.rows)]
    /\ Goto("graph_licenses"))

\* The sources in the order of the listing, cut at the limit.  A package without
\* a version is not a source.
GraphPage(sources) ==
  [Render(200, Target, {Target} \cup {row[1] : row \in sources},
          {IF Target \in Orgs THEN Link("dashboard", Target)
           ELSE Link("project_settings", Target)})
   EXCEPT !.sources = sources, !.omitted = Omitted(seen.rows)]

GraphLicenses ==
  Query("graph_licenses",
    /\ \E sources \in SUBSET seen.rows :
         /\ \/ sources = seen.rows /\ Cardinality(sources) <= ScopeLimit
            \/ Cardinality(sources) = ScopeLimit
         /\ Respond(GraphPage(sources))
    /\ UNCHANGED seen)

GraphPagesNext ==
  \/ GraphOrg \/ GraphProject \/ GraphOrgRole \/ GraphProjectRole
  \/ GraphPackages \/ GraphVersions \/ GraphLicenses
================================================================================
