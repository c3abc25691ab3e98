--------------------------- MODULE BrowserSession ---------------------------
(***************************************************************************)
(* The product session of app.zpkg.net: one browser's signed session       *)
(* cookie, the requests that carry it, the web tier that spends its        *)
(* single-use refresh handle, and the Shared Auth service that rotates it. *)
(*                                                                         *)
(* The web tier keeps no session state of its own.  A request copies the   *)
(* cookie out of the jar, the handler awaits Shared Auth (refresh, then    *)
(* delegate) and the registry API, and only the response can bring the     *)
(* rotated handle home.  Every await is a step here, so requests overlap   *)
(* in every order, a call may take effect without its answer being read,   *)
(* the ten-second timeout may drop a handler at any await, and a response  *)
(* may never arrive.                                                       *)
(*                                                                         *)
(* A refresh handle is a sign-in (its family) and a generation; Shared     *)
(* Auth accepts only the newest generation of a family not revoked.        *)
(***************************************************************************)
EXTENDS Integers

CONSTANTS
  Requests,       \* slots for requests in flight; one slot is a serial browser
  Families,       \* sign-ins at Shared Auth, each a chain of refresh handles
  Users,          \* canonical principals
  Owner,          \* the principal each family belongs to
  Traffic,        \* the kinds of request the browser sends
  SessionMaxAge,  \* SESSION_MAX_AGE_SECONDS, in ticks
  RecheckAfter,   \* CHECK_AFTER_SECONDS, in ticks
  MaxSkew,        \* how far ahead another replica's clock may date a cookie
  MaxTime,        \* bound: ticks of the clock
  MaxRotations,   \* bound: rotations of one family
  NoCookie, NoHandle, Keep, Never

Kinds    == {"mutate", "read", "status", "logout", "callback"}
Handling == {"refresh", "delegate", "api", "resolve", "revoke", "exchange"}
Phases   == {"idle", "sent", "reply"} \cup Handling

ASSUME ConstantsAssumption ==
  /\ Traffic \subseteq Kinds
  /\ Owner \in [Families -> Users]
  /\ SessionMaxAge \in Nat /\ RecheckAfter \in Nat
  /\ MaxTime \in Nat /\ MaxRotations \in Nat
  /\ MaxSkew \in 0 .. MaxTime

Time   == 0 .. MaxTime
Handle == [family : Families, gen : 0 .. MaxRotations]
Cookie == [handle : Handle, user : Users, issued : Time,
           verified : Time \cup {Never}]
Refreshed == [handle : Handle, user : Users]

ASSUME SentinelsAssumption ==
  /\ NoCookie \notin Cookie /\ Keep \notin Cookie \cup {NoCookie}
  /\ NoHandle \notin Refreshed
  /\ Never \notin Int

Outcomes == {"None", "Applied", "SignIn", "Failed", "Upstream", "Anonymous",
             "Authenticated", "Unavailable", "LoggedOut", "SignedIn", "Timeout"}
ApiErrors == {302, 409}     \* stand for the API answers that are not 2xx
Codes     == {0, 200, 303, 400, 401, 403, 404, 408, 409, 502, 503}
Reply     == [outcome : Outcomes, code : Codes,
              set : Cookie \cup {NoCookie, Keep}]
NoReply   == [outcome |-> "None", code |-> 0, set |-> Keep]

VARIABLES
  now,        \* the clock, in ticks no shorter than the request timeout
  gen,        \* Shared Auth: the generation it accepts, per family
  opened,     \* Shared Auth: families issued so far
  revokedAt,  \* Shared Auth: when a family was revoked, or Never
  jar,        \* the browser's session cookie
  pc,         \* where each request is
  kind,       \* which handler serves it
  began,      \* when its handler started
  sent,       \* the cookie it carried
  fresh,      \* the handle and principal its refresh or exchange returned
  held,       \* the Set-Cookie its handler has ready
  reply,      \* the response under way
  applied,    \* history: requests whose mutation the API committed
  proved,     \* history: the handles whose session was delegated
  denied,     \* history: requests whose delegation Shared Auth refused
  stranded    \* history: families whose newest handle reached nobody

auth == <<gen, opened, revokedAt>>
past == <<applied, proved, denied, stranded>>
vars == <<now, auth, jar, pc, kind, began, sent, fresh, held, reply, past>>

-----------------------------------------------------------------------------
(* Shared Auth, as the web tier uses it. *)

Revoked(f) == revokedAt[f] # Never
Live(h)    == h.gen = gen[h.family] /\ ~Revoked(h.family)
Rotated(h) == [h EXCEPT !.gen = @ + 1]

\* Shared Auth spends the handle and issues its successor.
Rotate(h) ==
  /\ Live(h)
  /\ gen[h.family] < MaxRotations
  /\ gen' = [gen EXCEPT ![h.family] = @ + 1]

\* Another device, an administrator or reuse detection ends a family.
Revoke(f) ==
  /\ f \in opened /\ ~Revoked(f)
  /\ revokedAt' = [revokedAt EXCEPT ![f] = now]
  /\ UNCHANGED <<now, gen, opened, jar, pc, kind, began, sent, fresh, held,
                 reply, past>>

-----------------------------------------------------------------------------
(* Cookies. *)

\* Mutant: the lifetime ends a tick early.
ActiveShort(c) == c # NoCookie /\ now - c.issued \in 0 .. SessionMaxAge - 1

\* The lifetime check every authority path shares.
Active(c) == c # NoCookie /\ now - c.issued \in 0 .. SessionMaxAge

\* Mutant: the fast path trusts a stamp of any age.
RecentlyVerifiedAtAnyAge(c) ==
  c.verified # Never /\ c.verified >= c.issued /\ now - c.verified >= 0

\* The status probe's fast path: the authority was consulted lately enough.
RecentlyVerified(c) ==
  /\ c.verified # Never
  /\ c.verified >= c.issued
  /\ now - c.verified >= 0
  /\ now - c.verified < (IF RecheckAfter > 1 THEN RecheckAfter ELSE 1)

\* Mutants: every rotation is stamped; the spent handle is written back.
RotatedSessionAlwaysStamped(r, evidence) ==
  [handle |-> fresh[r].handle, user |-> fresh[r].user,
   issued |-> now, verified |-> now]
RotatedSessionSpentHandle(r, evidence) ==
  [handle |-> IF sent[r] = NoCookie THEN fresh[r].handle ELSE sent[r].handle,
   user |-> fresh[r].user, issued |-> now, verified |-> evidence]

\* The cookie a rotation sends back; evidence is the time or Never.
RotatedSession(r, evidence) ==
  [handle |-> fresh[r].handle, user |-> fresh[r].user,
   issued |-> now, verified |-> evidence]

-----------------------------------------------------------------------------
(* Moving a request along. *)

Go(r, phase) == pc' = [pc EXCEPT ![r] = phase]

Answer(r, outcome, code, set) ==
  /\ Go(r, "reply")
  /\ reply' = [reply EXCEPT ![r] =
                 [outcome |-> outcome, code |-> code, set |-> set]]

\* The family of a handle the request took custody of and will not return.
Strand(r) ==
  stranded' = IF fresh[r] = NoHandle THEN stranded
              ELSE stranded \cup {fresh[r].handle.family}

\* How a private graph read maps an authentication failure.
PrivateCode(code) == IF code \in {401, 403} THEN 404 ELSE 502

\* Mutant: a redirect of the API passes through.
MutationCodeUnmapped(code) == code

\* How a mutation maps an API answer that is not a success.
MutationCode(code) == IF code \in 400 .. 599 THEN code ELSE 502

\* Mutant: an outage counts as a sign-out.
ContinuityFailureOnOutage(r, code, rotation) ==
  Answer(r, "Anonymous", 200, NoCookie)

ContinuityFailure(r, code, rotation) ==
  IF code \in {400, 401, 403}
  THEN Answer(r, "Anonymous", 200, NoCookie)
  ELSE Answer(r, "Unavailable", 503, rotation)

\* Mutant: the failure response forgets the rotated cookie.
AuthFailedWithoutRotation(r, code, rotation) ==
  \/ kind[r] = "mutate" /\ Answer(r, "Failed", code, Keep)
  \/ kind[r] = "read"   /\ Answer(r, "Failed", PrivateCode(code), Keep)
  \/ kind[r] = "status" /\ ContinuityFailure(r, code, Keep)

\* A failed upstream authentication call, as each handler reports it.
AuthFailed(r, code, rotation) ==
  \/ kind[r] = "mutate" /\ Answer(r, "Failed", code, rotation)
  \/ kind[r] = "read"   /\ Answer(r, "Failed", PrivateCode(code), rotation)
  \/ kind[r] = "status" /\ ContinuityFailure(r, code, rotation)

-----------------------------------------------------------------------------
(* The browser sends a request and the handler starts. *)

Send(r, k) ==
  /\ pc[r] = "idle"
  /\ Go(r, "sent")
  /\ kind' = [kind EXCEPT ![r] = k]
  /\ sent' = [sent EXCEPT ![r] = jar]
  /\ UNCHANGED <<now, auth, jar, began, fresh, held, reply, past>>

Entering(r, k) ==
  /\ pc[r] = "sent" /\ kind[r] = k
  /\ began' = [began EXCEPT ![r] = now]
  /\ UNCHANGED <<now, auth, jar, kind, sent, fresh, held, past>>

EnterMutate(r) ==
  /\ Entering(r, "mutate")
  /\ \/ Answer(r, "Failed", 403, Keep)                  \* cross-origin
     \/ ~Active(sent[r]) /\ Answer(r, "SignIn", 303, Keep)
     \/ Active(sent[r]) /\ Go(r, "refresh") /\ UNCHANGED reply

EnterRead(r) ==
  /\ Entering(r, "read")
  /\ \/ ~Active(sent[r]) /\ Answer(r, "Failed", PrivateCode(401), Keep)
     \/ Active(sent[r]) /\ Go(r, "refresh") /\ UNCHANGED reply

EnterStatus(r) ==
  /\ Entering(r, "status")
  /\ \/ Answer(r, "Failed", 403, Keep)                  \* foreign origin
     \/ /\ ~Active(sent[r])
        /\ Answer(r, "Anonymous", 200,
                  IF sent[r] = NoCookie THEN Keep ELSE NoCookie)
     \/ /\ Active(sent[r]) /\ RecentlyVerified(sent[r])
        /\ Go(r, "resolve") /\ UNCHANGED reply
     \/ /\ Active(sent[r]) /\ ~RecentlyVerified(sent[r])
        /\ Go(r, "refresh") /\ UNCHANGED reply

\* Logout reads the cookie without the lifetime check.
EnterLogout(r) ==
  /\ Entering(r, "logout")
  /\ \/ Answer(r, "Failed", 403, Keep)                  \* cross-origin
     \/ sent[r] = NoCookie /\ Answer(r, "LoggedOut", 303, NoCookie)
     \/ sent[r] # NoCookie /\ Go(r, "revoke") /\ UNCHANGED reply

EnterCallback(r) ==
  /\ Entering(r, "callback")
  /\ \/ Answer(r, "Failed", 400, Keep)    \* login cookie absent, old or other
     \/ Go(r, "exchange") /\ UNCHANGED reply

-----------------------------------------------------------------------------
(* refresh: spend the carried handle. *)

Refreshing(r) ==
  /\ pc[r] = "refresh"
  /\ UNCHANGED <<now, opened, revokedAt, jar, kind, began, sent, held,
                 applied, proved, denied>>

\* Mutant: the principal the refresh names is not compared.
RefreshAnsweredUnchecked(r) ==
  /\ Refreshing(r)
  /\ Rotate(sent[r].handle)
  /\ \E u \in Users :
       fresh' = [fresh EXCEPT ![r] =
                   [handle |-> Rotated(sent[r].handle), user |-> u]]
  /\ Go(r, "delegate")
  /\ UNCHANGED <<reply, stranded>>

\* Shared Auth rotates and names the principal u the session now belongs to.
RefreshAnswered(r) ==
  /\ Refreshing(r)
  /\ Rotate(sent[r].handle)
  /\ \E u \in Users :
       \/ /\ u = sent[r].user
          /\ fresh' = [fresh EXCEPT ![r] =
                         [handle |-> Rotated(sent[r].handle), user |-> u]]
          /\ Go(r, "delegate")
          /\ UNCHANGED <<reply, stranded>>
       \/ /\ u # sent[r].user
          /\ AuthFailed(r, 401, Keep)
          /\ stranded' = stranded \cup {sent[r].handle.family}
          /\ UNCHANGED fresh

\* The handle is spent but the answer is lost or does not decode.
RefreshAnswerLost(r) ==
  /\ Refreshing(r)
  /\ Rotate(sent[r].handle)
  /\ AuthFailed(r, 502, Keep)
  /\ stranded' = stranded \cup {sent[r].handle.family}
  /\ UNCHANGED fresh

RefreshRefused(r) ==
  /\ Refreshing(r)
  /\ ~Live(sent[r].handle)
  /\ \E code \in {400, 401} : AuthFailed(r, code, Keep)
  /\ UNCHANGED <<gen, fresh, stranded>>

RefreshUnavailable(r) ==
  /\ Refreshing(r)
  /\ AuthFailed(r, 502, Keep)
  /\ UNCHANGED <<gen, fresh, stranded>>

-----------------------------------------------------------------------------
(* delegate: exchange the access token for the API audience. *)

Delegating(r) ==
  /\ pc[r] = "delegate"
  /\ UNCHANGED <<now, auth, jar, kind, began, sent, fresh, applied>>

DelegateGranted(r) ==
  /\ Delegating(r)
  /\ ~Revoked(fresh[r].handle.family)
  /\ proved' = proved \cup {fresh[r].handle}
  /\ Go(r, IF kind[r] = "status" THEN "resolve" ELSE "api")
  /\ held' = [held EXCEPT ![r] = IF kind[r] = "callback" THEN Keep
                                 ELSE RotatedSession(r, now)]
  /\ UNCHANGED <<reply, denied, stranded>>

\* Revocation, a client or audience not allowed (401, 400), or an outage (502).
DelegateFailed(r) ==
  /\ Delegating(r)
  /\ \E code \in {400, 401, 502} :
       /\ denied' = IF code = 502 THEN denied ELSE denied \cup {r}
       /\ \/ /\ kind[r] = "callback"
             /\ Answer(r, "Failed", code, Keep)
             /\ Strand(r)
          \/ /\ AuthFailed(r, code, RotatedSession(r, Never))
             /\ UNCHANGED stranded
  /\ UNCHANGED <<held, proved>>

-----------------------------------------------------------------------------
(* The registry API call, and the status probe's account read. *)

Calling(r, k) ==
  /\ pc[r] = "api" /\ kind[r] = k
  /\ UNCHANGED <<now, auth, jar, kind, began, sent, fresh, held, proved, denied>>

MutationSucceeds(r) ==
  /\ Calling(r, "mutate")
  /\ applied' = applied \cup {r}
  /\ Answer(r, "Applied", 303, held[r])
  /\ UNCHANGED stranded

\* Mutant: an API redirect is taken for success.
MutationRejectedRedirects(r) ==
  /\ Calling(r, "mutate")
  /\ \E code \in ApiErrors :
       Answer(r, IF code = 302 THEN "Applied" ELSE "Failed", 303, held[r])
  /\ UNCHANGED <<applied, stranded>>

MutationRejected(r) ==
  /\ Calling(r, "mutate")
  /\ \E code \in ApiErrors : Answer(r, "Failed", MutationCode(code), held[r])
  /\ UNCHANGED <<applied, stranded>>

\* No answer: the API may or may not have committed.
MutationUnanswered(r) ==
  /\ Calling(r, "mutate")
  /\ applied' \in {applied, applied \cup {r}}
  /\ Answer(r, "Failed", 502, held[r])
  /\ UNCHANGED stranded

ReadAnswered(r) ==
  /\ Calling(r, "read")
  /\ \/ Answer(r, "Upstream", 200, held[r])
     \/ Answer(r, "Failed", 502, held[r])
  /\ UNCHANGED <<applied, stranded>>

\* GET /api/v1/account/me creates the account projection before the cookie.
CallbackProjected(r) ==
  /\ Calling(r, "callback")
  /\ \/ /\ Answer(r, "SignedIn", 303, RotatedSession(r, now))
        /\ UNCHANGED stranded
     \/ /\ Answer(r, "Failed", 502, Keep)
        /\ Strand(r)
  /\ UNCHANGED applied

\* session::resolve reads the account of the cookie the request came with.
StatusResolved(r) ==
  /\ pc[r] = "resolve"
  /\ \/ Active(sent[r]) /\ Answer(r, "Authenticated", 200, held[r])
     \/ Answer(r, "Anonymous", 200, held[r])     \* no projection, or it fails
     \/ Answer(r, "Unavailable", 503, held[r])   \* the registry is offline
  /\ UNCHANGED <<now, auth, jar, kind, began, sent, fresh, held, past>>

\* redeem and exchange open a new family; a failure leaves nothing to return.
CallbackExchanged(r) ==
  /\ pc[r] = "exchange"
  /\ \/ \E f \in Families \ opened :
          /\ opened' = opened \cup {f}
          /\ fresh' = [fresh EXCEPT ![r] =
               [handle |-> [family |-> f, gen |-> 0], user |-> Owner[f]]]
          /\ Go(r, "delegate") /\ UNCHANGED reply
     \/ /\ \E code \in {400, 401, 502} : Answer(r, "Failed", code, Keep)
        /\ UNCHANGED <<opened, fresh>>
  /\ UNCHANGED <<now, gen, revokedAt, jar, kind, began, sent, held, past>>

\* POST /auth/logout: Shared Auth revokes the family only if the handle is
\* still the one it accepts; whatever happens the browser's cookie is cleared.
Logout(r) ==
  /\ pc[r] = "revoke"
  /\ \/ /\ Live(sent[r].handle)
        /\ revokedAt' = [revokedAt EXCEPT ![sent[r].handle.family] = now]
     \/ UNCHANGED revokedAt
  /\ Answer(r, "LoggedOut", 303, NoCookie)
  /\ UNCHANGED <<now, gen, opened, jar, kind, began, sent, fresh, held, past>>

-----------------------------------------------------------------------------
(* What the router and the network do to any request. *)

\* The call a dropped handler was awaiting may still take effect.
OrphanedCall(r) ==
  \/ UNCHANGED <<auth, applied>> /\ Strand(r)
  \/ /\ pc[r] = "refresh" /\ Rotate(sent[r].handle)
     /\ stranded' = stranded \cup {sent[r].handle.family}
     /\ UNCHANGED <<opened, revokedAt, applied>>
  \/ /\ pc[r] = "api" /\ kind[r] = "mutate"
     /\ applied' = applied \cup {r} /\ Strand(r)
     /\ UNCHANGED auth
  \/ /\ pc[r] = "revoke" /\ Live(sent[r].handle) /\ Strand(r)
     /\ revokedAt' = [revokedAt EXCEPT ![sent[r].handle.family] = now]
     /\ UNCHANGED <<gen, opened, applied>>

\* Mutant: the timeout does not cover logout.
TimeoutSparesLogout(r) ==
  /\ pc[r] \in Handling \ {"revoke"}
  /\ OrphanedCall(r)
  /\ Answer(r, "Timeout", 408, Keep)
  /\ fresh' = [fresh EXCEPT ![r] = NoHandle]
  /\ held' = [held EXCEPT ![r] = Keep]
  /\ UNCHANGED <<now, jar, kind, began, sent, proved, denied>>

\* TimeoutLayer: the handler's future is dropped, and its cookie with it.
Timeout(r) ==
  /\ pc[r] \in Handling
  /\ OrphanedCall(r)
  /\ Answer(r, "Timeout", 408, Keep)
  /\ fresh' = [fresh EXCEPT ![r] = NoHandle]
  /\ held' = [held EXCEPT ![r] = Keep]
  /\ UNCHANGED <<now, jar, kind, began, sent, proved, denied>>

Finish(r) ==
  /\ pc[r] = "reply"
  /\ Go(r, "idle")
  /\ sent' = [sent EXCEPT ![r] = NoCookie]
  /\ fresh' = [fresh EXCEPT ![r] = NoHandle]
  /\ held' = [held EXCEPT ![r] = Keep]
  /\ reply' = [reply EXCEPT ![r] = NoReply]
  /\ began' = [began EXCEPT ![r] = 0]
  /\ kind' = [kind EXCEPT ![r] = "read"]
  /\ applied' = applied \ {r}
  /\ denied' = denied \ {r}
  /\ UNCHANGED <<now, auth, proved>>

\* Responses of concurrent requests reach the jar in any order.
Deliver(r) ==
  /\ Finish(r)
  /\ jar' = IF reply[r].set = Keep THEN jar ELSE reply[r].set
  /\ UNCHANGED stranded

\* The connection or the process died first.
Lose(r) ==
  /\ Finish(r)
  /\ Strand(r)
  /\ UNCHANGED jar

\* A request lasts less than a tick, so it sees at most one.
Tick ==
  /\ now < MaxTime
  /\ \A r \in Requests : pc[r] \in Handling => began[r] = now
  /\ now' = now + 1
  /\ UNCHANGED <<auth, jar, pc, kind, began, sent, fresh, held, reply, past>>

-----------------------------------------------------------------------------

\* A browser without a session, or with a cookie of an earlier visit: a
\* legacy one without evidence, or one another replica dated in the future.
InitialCookies ==
  {[handle |-> [family |-> f, gen |-> 0], user |-> Owner[f],
    issued |-> t, verified |-> v] :
     f \in Families, t \in 0 .. MaxSkew, v \in {Never} \cup 0 .. MaxSkew}

Init ==
  /\ now = 0
  /\ gen = [f \in Families |-> 0]
  /\ revokedAt = [f \in Families |-> Never]
  /\ jar \in {NoCookie} \cup
             {c \in InitialCookies : c.verified \in {Never, c.issued}}
  /\ opened = IF jar = NoCookie THEN {} ELSE {jar.handle.family}
  /\ proved = IF jar = NoCookie \/ jar.verified = Never THEN {}
              ELSE {jar.handle}
  /\ pc = [r \in Requests |-> "idle"]
  /\ kind = [r \in Requests |-> "read"]
  /\ began = [r \in Requests |-> 0]
  /\ sent = [r \in Requests |-> NoCookie]
  /\ fresh = [r \in Requests |-> NoHandle]
  /\ held = [r \in Requests |-> Keep]
  /\ reply = [r \in Requests |-> NoReply]
  /\ applied = {}
  /\ denied = {}
  /\ stranded = {}

Enter(r) ==
  \/ EnterMutate(r) \/ EnterRead(r) \/ EnterStatus(r)
  \/ EnterLogout(r) \/ EnterCallback(r)

Serve(r) ==
  \/ RefreshAnswered(r) \/ RefreshAnswerLost(r)
  \/ RefreshRefused(r) \/ RefreshUnavailable(r)
  \/ DelegateGranted(r) \/ DelegateFailed(r)
  \/ MutationSucceeds(r) \/ MutationRejected(r) \/ MutationUnanswered(r)
  \/ ReadAnswered(r) \/ CallbackProjected(r) \/ StatusResolved(r)
  \/ CallbackExchanged(r) \/ Logout(r)

Next ==
  \/ \E r \in Requests, k \in Traffic : Send(r, k)
  \/ \E r \in Requests :
       Enter(r) \/ Serve(r) \/ Timeout(r) \/ Deliver(r) \/ Lose(r)
  \/ \E f \in Families : Revoke(f)
  \/ Tick

Spec == Init /\ [][Next]_vars

\* The timeout is the only progress the code guarantees: an upstream may hang.
FairSpec == Spec /\ \A r \in Requests : WF_vars(Timeout(r))
-----------------------------------------------------------------------------
(* Properties. *)

TypeOK ==
  /\ now \in Time
  /\ gen \in [Families -> 0 .. MaxRotations]
  /\ opened \subseteq Families
  /\ revokedAt \in [Families -> Time \cup {Never}]
  /\ jar \in Cookie \cup {NoCookie}
  /\ pc \in [Requests -> Phases]
  /\ kind \in [Requests -> Kinds]
  /\ began \in [Requests -> Time]
  /\ sent \in [Requests -> Cookie \cup {NoCookie}]
  /\ fresh \in [Requests -> Refreshed \cup {NoHandle}]
  /\ held \in [Requests -> Cookie \cup {Keep}]
  /\ reply \in [Requests -> Reply]
  /\ applied \subseteq Requests
  /\ proved \subseteq Handle
  /\ denied \subseteq Requests
  /\ stranded \subseteq Families

\* Every signed cookie in existence: in the jar, carried, or on its way back.
Cookies ==
  ({jar} \cup {sent[r] : r \in Requests} \cup {held[r] : r \in Requests}
         \cup {reply[r].set : r \in Requests}) \ {NoCookie, Keep}

\* A request carrying home the newest handle of family f.
Carries(r, f) ==
  /\ fresh[r] # NoHandle
  /\ fresh[r].handle = [family |-> f, gen |-> gen[f]]
  /\ pc[r] = "reply" => reply[r].set # Keep

\* Where a request holds what: the handle it took custody of, the Set-Cookie
\* it has ready and the response under way agree.
PhaseOK ==
  \A r \in Requests :
    /\ pc[r] # "reply" => reply[r] = NoReply
    /\ pc[r] \in {"idle", "sent", "refresh", "revoke", "exchange"}
         => fresh[r] = NoHandle /\ held[r] = Keep
    /\ pc[r] = "delegate" => fresh[r] # NoHandle /\ held[r] = Keep
    /\ pc[r] = "api" => fresh[r] # NoHandle
    /\ pc[r] = "api" /\ kind[r] # "callback" => held[r] # Keep
    /\ pc[r] = "resolve" => (held[r] = Keep <=> fresh[r] = NoHandle)
    /\ pc[r] \in {"refresh", "revoke"} => sent[r] # NoCookie
    /\ held[r] # Keep
         => fresh[r] # NoHandle /\ held[r].handle = fresh[r].handle
    /\ reply[r].set \notin {Keep, NoCookie}
         => fresh[r] # NoHandle /\ reply[r].set.handle = fresh[r].handle

\* Nothing the browser holds or sends is newer than Shared Auth's record.
CookiesKnown ==
  /\ \A f \in Families \ opened : gen[f] = 0
  /\ \A c \in {jar} \cup {sent[r] : r \in Requests} :
       c # NoCookie => /\ c.handle.family \in opened
                       /\ c.handle.gen <= gen[c.handle.family]

\* Single custody: the handle a request took over is the newest of its family,
\* nobody else has it, and everything the browser holds is older. Two requests
\* that carry the same cookie never both obtain a successor.
SingleCustody ==
  \A r \in Requests : fresh[r] # NoHandle =>
    LET h == fresh[r].handle IN
      /\ h.family \in opened /\ h.gen = gen[h.family]
      /\ \A c \in {jar} \cup {sent[q] : q \in Requests} :
           c # NoCookie /\ c.handle.family = h.family => c.handle.gen < h.gen
      /\ \A q \in Requests \ {r} :
           fresh[q] # NoHandle => fresh[q].handle.family # h.family

HandleCustody == PhaseOK /\ CookiesKnown /\ SingleCustody

\* The cookie the browser holds is never silently dead: unless its family was
\* revoked or a response was lost on the way, either Shared Auth still accepts
\* its handle or a request under way carries the successor (or the deletion).
\* Overlapping requests race for one single-use handle and keep this.
SessionNotStranded ==
  jar # NoCookie =>
    LET f == jar.handle.family IN
      \/ Live(jar.handle)
      \/ Revoked(f) \/ f \in stranded
      \/ \E r \in Requests : Carries(r, f)

\* A cookie names the principal Shared Auth opened its family for, whatever
\* the refresh answers said in between.
CookieNamesOwner == \A c \in Cookies : c.user = Owner[c.handle.family]

\* A verification stamp is evidence: the refresh that issued that very handle
\* was followed by a successful delegation. An outage cannot manufacture it.
VerifiedIsEarned ==
  \A c \in Cookies : c.verified # Never => c.handle \in proved

\* A mutation reported applied was committed, and one refused with a status
\* other than 408 or 5xx, or sent to sign in, was not: only an unanswered call
\* leaves the user in doubt.
MutationVerdictIsTrue ==
  \A r \in Requests : pc[r] = "reply" =>
    /\ reply[r].outcome = "Applied" => r \in applied
    /\ r \in applied => reply[r].outcome = "Applied" \/ reply[r].code \in {408, 502}

\* A response that arrives late never puts back an older handle of the family
\* the jar already holds, however requests overlapped.
CookieNeverGoesBack ==
  [][ (jar # NoCookie /\ jar' # NoCookie
         /\ jar'.handle.family = jar.handle.family)
        => jar'.handle.gen > jar.handle.gen ]_jar

Answers(r) == pc[r] # "reply" /\ pc'[r] = "reply"

\* The session of cookie c has reached its age limit.
Expired(c) == now > c.issued + SessionMaxAge

\* The cookie bears a date that this replica's clock has not reached.
DatedAhead(c) == now < c.issued

\* When the browser keeps one request in flight, a status probe deletes the
\* cookie only of a session that is over, one that expired, was revoked, was
\* cut off by a lost response or was refused delegation, or of one that another
\* replica's clock dated ahead of this one's. An outage of Shared Auth, and a
\* session on the last tick of its life, are no grounds.
ProbeClearsOnlyDeadSessions ==
  [][ \A r \in Requests :
        (Answers(r) /\ kind[r] = "status" /\ reply'[r].set = NoCookie) =>
          \/ Expired(sent[r]) \/ DatedAhead(sent[r])
          \/ Revoked(sent[r].handle.family)
          \/ sent[r].handle.family \in stranded'
          \/ r \in denied' ]_vars

\* A revoked family is reported signed in for at most the recheck cadence, the
\* skew between replicas and one tick each for the callback that stamped the
\* cookie and the probe that reads the account.
RevocationIsNoticed ==
  [][ \A r \in Requests :
        (Answers(r) /\ reply'[r].outcome = "Authenticated"
           /\ Revoked(sent[r].handle.family)) =>
          now - revokedAt[sent[r].handle.family]
            < (IF RecheckAfter > 1 THEN RecheckAfter ELSE 1) + MaxSkew + 2 ]_vars

\* Every request a handler starts is answered, though any upstream may hang.
EveryRequestIsAnswered ==
  \A r \in Requests : pc[r] \in Handling ~> pc[r] = "reply"

\* The session seen as the custody of single-use handles.
Newest(f) == [family |-> f, gen |-> gen[f]]

AtHome      == {f \in opened : jar # NoCookie /\ jar.handle = Newest(f)}
InCustody   == [f \in Families |->
                  {r \in Requests : fresh[r] # NoHandle /\ fresh[r].handle = Newest(f)}]
CarriedAway == [f \in Families |->
                  {r \in Requests : sent[r] # NoCookie /\ sent[r].handle = Newest(f)}]

Handles == INSTANCE SingleUseHandle
             WITH issued <- opened, cookie <- (jar # NoCookie), home <- AtHome,
                  carriers <- InCustody, copies <- CarriedAway

\* The session implements the custody of a single-use handle: however requests
\* overlap, time out and lose their answers, the newest handle of a sign-in is in
\* one place, one copy of it is ever spent, and the cookie is replaced by the
\* newest handle or not at all.
HandleIsSingleUse == Handles!Spec

(* What the documentation says and the code does not always do. *)

\* docs/shared-auth/README.md: a logout clears the product cookie. Once it is
\* cleared, only a completed sign-in brings one back.
LogoutClearsForGood ==
  [][ (jar = NoCookie /\ jar' # NoCookie) =>
        \E r \in Requests : reply[r].outcome = "SignedIn" /\ pc'[r] = "idle" ]_jar

\* docs/shared-auth-pkce-bff.md: after a same-principal refresh, a downstream
\* failure preserves the new handle.
DownstreamFailureKeepsHandle ==
  [][ \A r \in Requests :
        (Answers(r) /\ kind[r] \in {"mutate", "read"} /\ fresh[r] # NoHandle) =>
          reply'[r].set # Keep ]_vars
=============================================================================
