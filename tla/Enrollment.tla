------------------------------- MODULE Enrollment -------------------------------
(***************************************************************************)
(* The account pages (src/routes/onboarding.rs, src/views/onboarding.rs)   *)
(* and the entry that chooses between them (marketing_dashboard of         *)
(* src/routes/mod.rs).  An enrollment form creates an organisation through *)
(* the registry API and shows what became of it.  The session's refresh    *)
(* and delegation are the subject of BrowserSession; here they succeed or  *)
(* fail with a status.                                                     *)
(***************************************************************************)
EXTENDS GraphPages

-----------------------------------------------------------------------------
(* The pages. *)

\* render: no sign-in is possible without browser auth, and without a database
\* nobody's memberships are known.
AccountUnavailable == auth = "none" \/ ~db \/ viewer.unavailable

\* Mutant: an account that cannot be read counts as nobody's.
StageOfAnonymous ==
  CASE auth = "none" \/ ~db                                  -> "unavailable"
    [] ~(auth = "none" \/ ~db) /\ viewer.user = Nobody       -> "sign_in"
    [] ~(auth = "none" \/ ~db) /\ viewer.user # Nobody       -> "active"

Stage ==
  CASE AccountUnavailable                  -> "unavailable"
    [] ~AccountUnavailable /\ ~SignedIn    -> "sign_in"
    [] ~AccountUnavailable /\ SignedIn     -> "active"

\* The workspaces an active viewer may open, and the settings of those they run.
Workspaces ==
  IF Stage # "active" THEN {}
  ELSE {Link("dashboard", o) : o \in Listed}
         \cup {Link("org_settings", o) : o \in {q \in Orgs : CanAdminister(q)}}

AccountPage(status, notice) ==
  [Render(IF notice # "" THEN status ELSE IF Stage = "unavailable" THEN 503 ELSE 200,
          None, {}, Workspaces \cup {Link("choose", None)})
   EXCEPT !.stage = Stage, !.notice = notice]

Choose ==
  /\ at = "choose"
  /\ Respond(Render(200, None, {}, {Link("individual", None), Link("organization", None)}))
  /\ Handling /\ Remains /\ UNCHANGED failed

RenderAccount ==
  /\ at \in {"individual", "organization"}
  /\ Respond(AccountPage(200, ""))
  /\ Handling /\ Remains /\ UNCHANGED failed

\* marketing_dashboard: it never picks a workspace for a member.  What cannot be
\* resolved goes to the account page, which resolves once more.
Entry ==
  /\ at = "entry"
  /\ Respond(Message(307))
  /\ ~viewer.unavailable
  /\ Handling /\ Remains /\ UNCHANGED failed

EntryUnavailable ==
  /\ at = "entry"
  /\ viewer.unavailable
  /\ at' = "resolve"
  /\ req' = [req EXCEPT !.route = "organization"]
  /\ viewer' = Anonymous
  /\ UNCHANGED <<startupVars, registry, changes, seen, answer, failed, traces>>

-----------------------------------------------------------------------------
(* The form. *)

\* enrollment_failure: which notice a refusal becomes, and with which status.
\* Mutant: only the statuses that are named mean the API refused.
FailureDefaultsToInvalid(status) ==
  CASE status \in {400, 422, 401}           -> <<status, "Invalid">>
    [] status = 409                         -> <<status, "Conflict">>
    [] status = 403                         -> <<status, "Denied">>
    [] status \in {429, 500, 503}           -> <<status, "Unavailable">>
    [] status \notin {400, 422, 401, 409, 403, 429, 500, 503} -> <<502, "Invalid">>

Failure(status) ==
  CASE status \in {400, 422}           -> <<status, "Invalid">>
    [] status = 409                    -> <<status, "Conflict">>
    [] status = 403                    -> <<status, "Denied">>
    [] status \in {429, 500, 502, 503} -> <<status, "Unavailable">>
    [] status \notin {400, 422, 409, 403, 429, 500, 502, 503} -> <<502, "Unavailable">>

\* A session that is gone leads to sign in; anything else is shown on the page
\* of the journey, for which the account is read anew.
EnrollFails(status) ==
  IF status = 401 THEN Respond(Message(303)) /\ UNCHANGED seen
  ELSE /\ Goto("resolve")
       /\ seen' = [seen EXCEPT !.status = Failure(status)[1],
                               !.notice = Failure(status)[2]]

\* Until the API is asked nothing has been created: no browser auth, a form of
\* another origin, no session in the cookie, a session that is not renewed.
EnrollRefused ==
  /\ at = "enroll"
  /\ IF auth = "none" THEN EnrollFails(503)
     ELSE \/ EnrollFails(403)
          \/ Subject = Nobody /\ Respond(Message(303)) /\ UNCHANGED seen
          \/ Subject # Nobody /\ \E status \in {401, 502} : EnrollFails(status)
  /\ Handling
  /\ UNCHANGED <<viewer, failed>>

\* The API creates the organisation and makes its founder the owner, or refuses.
ApiCreates ==
  /\ at = "enroll" /\ Subject # Nobody
  /\ Target \notin orgs
  /\ changes < MaxChanges
  /\ changes' = changes + 1
  /\ orgs' = orgs \cup {Target}
  /\ role' = [role EXCEPT ![Subject][Target] = "admin"]
  /\ seen' = [seen EXCEPT !.created = TRUE]
  /\ Goto("enroll_created")
  /\ UNCHANGED <<startupVars, direct, visibility, latest, yanked, req, viewer, failed>>
  /\ Remember

ApiRefuses ==
  /\ at = "enroll" /\ Subject # Nobody
  /\ \/ Target \in orgs /\ EnrollFails(409)
     \/ \E status \in {400, 401, 403, 404, 422, 429, 500, 502, 503} : EnrollFails(status)
  /\ Handling
  /\ UNCHANGED <<viewer, failed>>

\* What was created is confirmed, or its answer is lost, or the API fails after.
EnrollAnswered ==
  /\ at = "enroll_created"
  /\ \/ Respond([Message(303) EXCEPT !.notice = "Created"]) /\ UNCHANGED seen
     \/ \E status \in {500, 502, 503} : EnrollFails(status)
  /\ Handling
  /\ UNCHANGED <<viewer, failed>>

\* render, with the notice of the failure.
RenderFailure ==
  /\ at \in Posts
  /\ Respond(AccountPage(seen.status, seen.notice))
  /\ Handling /\ Remains /\ UNCHANGED failed

EnrollmentNext ==
  \/ Choose \/ RenderAccount \/ Entry \/ EntryUnavailable
  \/ EnrollRefused \/ ApiCreates \/ ApiRefuses \/ EnrollAnswered \/ RenderFailure
================================================================================
