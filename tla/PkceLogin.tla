------------------------------- MODULE PkceLogin -------------------------------
(***************************************************************************)
(* The sign-in ceremony of browser_auth.rs (sign_in and callback): the     *)
(* tabs of one browser share one signed login cookie, which holds the      *)
(* state, the PKCE verifier and the return target of the last sign-in that *)
(* set it; Shared Auth's answer comes back through a callback URL that the *)
(* tab may send again.                                                     *)
(*                                                                         *)
(* A ceremony is named by its place in ceremonies: its state and its       *)
(* verifier are random and known to nobody else, so the number stands for  *)
(* both.  What the callback does to the session once the code is redeemed  *)
(* is modelled in BrowserSession; here it succeeds or fails.  The          *)
(* signature of the cookie is left out: a cookie is as the code wrote it.  *)
(***************************************************************************)
EXTENDS ReturnTarget

CONSTANTS
  Tabs,            \* tabs of one browser
  Targets,         \* return targets a sign-in is asked for
  Paths,           \* paths a form may be sent from, as a Referer gives them
  MaxDepth,        \* bound: how often a reader of a target decodes it
  LoginAge,        \* LOGIN_STATE_MAX_AGE_SECONDS
  MaxCeremonies,   \* bound: sign-ins that reach the code
  MaxTime,         \* bound: ticks of the clock
  NoLogin

ASSUME PkceAssumption ==
  /\ Targets \subseteq Seq(Byte) /\ Paths \subseteq Seq(Byte)
  /\ MaxDepth \in Nat /\ MaxDepth >= 8   \* further than the sanitiser looks
  /\ LoginAge \in Nat /\ MaxCeremonies \in Nat /\ MaxTime \in Nat

VARIABLES
  now,          \* the clock
  ceremonies,   \* how many sign-ins there have been
  codes,        \* Shared Auth: handoff codes issued and not redeemed, each bound
                \* to the challenge of its ceremony
  loginCookie,  \* the login cookie of the browser
  tab,          \* where each tab is
  url,          \* the ceremony whose code and state its callback URL carries
  carried,      \* the login cookie its last request carried
  reply,        \* the answer on its way to the tab
  landed,       \* where it is: the path of its page, once that matters
  wanted,       \* history: the target its last sign-in was asked for
  redeemed      \* what was presented to Shared Auth: code and verifier

signInVars == <<now, ceremonies, codes, loginCookie, tab, url, carried, reply,
                landed, wanted, redeemed>>

Places == {"page", "signing_in", "at_authority", "called_back", "redeeming",
           "completing", "answered", "failed", "landed", "form_sent", "returned",
           "closed"}
Login  == [state : 1 .. MaxCeremonies, verifier : 1 .. MaxCeremonies,
           returnTo : Seq(Byte), issuedAt : 0 .. MaxTime]
NoReply == [sets |-> NoLogin, clears |-> FALSE, to |-> << >>]

TabGoes(t, place) == tab' = [tab EXCEPT ![t] = place]

\* A cookie outlives its Max-Age neither in the browser nor at the server.
Alive(login) == login # NoLogin /\ now - login.issuedAt \in 0 .. LoginAge

-----------------------------------------------------------------------------
(* sign_in. *)

\* Mutant: a second sign-in goes on with the state the browser already has.
NewLoginReused(n, asked) ==
  IF Alive(loginCookie) THEN loginCookie
  ELSE [state |-> n, verifier |-> n, returnTo |-> SanitizeReturnTo(asked),
        issuedAt |-> now]

NewLogin(n, asked) ==
  [state |-> n, verifier |-> n, returnTo |-> SanitizeReturnTo(asked),
   issuedAt |-> now]

\* The redirect to Shared Auth's authorize page and the cookie are one answer.
SignIn(t, asked) ==
  LET n == ceremonies + 1
  IN  /\ tab[t] \in {"page", "failed", "landed"}
      /\ n <= MaxCeremonies
      /\ ceremonies' = n
      /\ wanted' = [wanted EXCEPT ![t] = asked]
      /\ url' = [url EXCEPT ![t] = NewLogin(n, asked).state]
      /\ reply' = [reply EXCEPT ![t] = [NoReply EXCEPT !.sets = NewLogin(n, asked)]]
      /\ landed' = [landed EXCEPT ![t] = << >>]
      /\ TabGoes(t, "signing_in")
      /\ UNCHANGED <<now, codes, loginCookie, carried, redeemed>>

\* The tab follows the redirect.
Redirected(t) ==
  /\ tab[t] = "signing_in"
  /\ loginCookie' = reply[t].sets
  /\ reply' = [reply EXCEPT ![t] = NoReply]
  /\ TabGoes(t, "at_authority")
  /\ UNCHANGED <<now, ceremonies, codes, url, carried, landed, wanted, redeemed>>

\* The visitor signs in: Shared Auth binds a code to the ceremony's challenge
\* and sends the tab to the callback with it and the state.
AuthorityGrants(t) ==
  /\ tab[t] = "at_authority"
  /\ codes' = codes \cup {url[t]}
  /\ TabGoes(t, "called_back")
  /\ UNCHANGED <<now, ceremonies, loginCookie, url, carried, reply, landed, wanted,
                 redeemed>>

-----------------------------------------------------------------------------
(* callback. *)

\* The tab asks for its callback URL: first when Shared Auth sends it there, and
\* again when the visitor reloads a failed answer or goes back to it.
CallBack(t) ==
  /\ \/ tab[t] = "called_back"
     \/ tab[t] \in {"failed", "landed"} /\ url[t] # 0
  /\ carried' = [carried EXCEPT ![t] = IF Alive(loginCookie) THEN loginCookie
                                       ELSE NoLogin]
  /\ landed' = [landed EXCEPT ![t] = << >>]
  /\ TabGoes(t, "redeeming")
  /\ UNCHANGED <<now, ceremonies, codes, loginCookie, url, reply, wanted, redeemed>>

\* Mutant: the state is not compared.
AcceptsAnyState(t) == Alive(carried[t])

Accepts(t) == Alive(carried[t]) /\ carried[t].state = url[t]

\* No login cookie, an expired one, or the state of another sign-in: 400.  The
\* cookie stays.
CallbackRefused(t) ==
  /\ tab[t] = "redeeming" /\ ~Accepts(t)
  /\ TabGoes(t, "failed")
  /\ UNCHANGED <<now, ceremonies, codes, loginCookie, url, carried, reply, landed,
                 wanted, redeemed>>

\* POST /auth/handoff/redeem: Shared Auth takes a code once, with the verifier
\* of its challenge, and its answer may be lost.
Redeem(t) ==
  LET code == url[t]
      verifier == carried[t].verifier
  IN  /\ tab[t] = "redeeming" /\ Accepts(t)
      /\ redeemed' = redeemed \cup {<<code, verifier>>}
      /\ \/ /\ code \in codes /\ code = verifier
            /\ codes' = codes \ {code}
            /\ TabGoes(t, "completing") \/ TabGoes(t, "failed")
         \/ TabGoes(t, "failed") /\ UNCHANGED codes
      /\ UNCHANGED <<now, ceremonies, loginCookie, url, carried, reply, landed, wanted>>

\* Exchange, delegation and projection succeed: the session cookie is set, the
\* login cookie cleared, and the browser sent to the target, sanitised again.
Complete(t) ==
  /\ tab[t] = "completing"
  /\ reply' = [reply EXCEPT ![t] =
       [sets |-> NoLogin, clears |-> TRUE,
        to |-> SanitizeReturnTo(carried[t].returnTo)]]
  /\ TabGoes(t, "answered")
  /\ UNCHANGED <<now, ceremonies, codes, loginCookie, url, carried, landed, wanted,
                 redeemed>>

\* One of them is refused, gives no refresh handle, is unreachable, or outlasts
\* the timeout layer.  Nothing is cleared and the code is spent.
Incomplete(t) ==
  /\ tab[t] = "completing"
  /\ TabGoes(t, "failed")
  /\ UNCHANGED <<now, ceremonies, codes, loginCookie, url, carried, reply, landed,
                 wanted, redeemed>>

\* The browser applies the cookies of the answer and goes where it says.
Land(t) ==
  /\ tab[t] = "answered"
  /\ loginCookie' = IF reply[t].clears THEN NoLogin ELSE loginCookie
  /\ landed' = [landed EXCEPT ![t] = reply[t].to]
  /\ reply' = [reply EXCEPT ![t] = NoReply]
  /\ TabGoes(t, "landed")
  /\ UNCHANGED <<now, ceremonies, codes, url, carried, wanted, redeemed>>

\* An answer is lost, or the visitor stops the tab once the cookie is in.  After
\* one of the callback its URL can be sent again.
LoseAnswer(t) ==
  /\ tab[t] \in {"signing_in", "answered"}
  /\ loginCookie' \in {loginCookie, IF tab[t] = "answered" THEN NoLogin ELSE reply[t].sets}
  /\ reply' = [reply EXCEPT ![t] = NoReply]
  /\ url' = [url EXCEPT ![t] = IF tab[t] = "answered" THEN @ ELSE 0]
  /\ TabGoes(t, "failed")
  /\ UNCHANGED <<now, ceremonies, codes, carried, landed, wanted, redeemed>>

-----------------------------------------------------------------------------
(* Forms, and the clock. *)

\* Bound: a form is sent before any sign-in, and the other tabs closed.
FormSent(t, path) ==
  /\ ceremonies = 0 /\ \A s \in Tabs : tab[s] = "page"
  /\ tab' = [s \in Tabs |-> IF s = t THEN "form_sent" ELSE "closed"]
  /\ landed' = [landed EXCEPT ![t] = path]
  /\ UNCHANGED <<now, ceremonies, codes, loginCookie, url, carried, reply, wanted,
                 redeemed>>

\* A form is answered with the page it was sent from, as its Referer names it.
FormAnswered(t, ours) ==
  /\ tab[t] = "form_sent"
  /\ landed' = [landed EXCEPT ![t] = RedirectTarget(@, ours)]
  /\ TabGoes(t, "returned")
  /\ UNCHANGED <<now, ceremonies, codes, loginCookie, url, carried, reply, wanted,
                 redeemed>>

Tick ==
  /\ now < MaxTime /\ ceremonies > 0
  /\ now' = now + 1
  /\ UNCHANGED <<ceremonies, codes, loginCookie, tab, url, carried, reply, landed,
                 wanted, redeemed>>

SignInInit ==
  /\ now = 0 /\ ceremonies = 0 /\ codes = {} /\ redeemed = {}
  /\ loginCookie = NoLogin
  /\ tab = [t \in Tabs |-> "page"]
  /\ url = [t \in Tabs |-> 0]
  /\ carried = [t \in Tabs |-> NoLogin]
  /\ reply = [t \in Tabs |-> NoReply]
  /\ landed = [t \in Tabs |-> << >>]
  /\ wanted = [t \in Tabs |-> << >>]

SignInNext ==
  \/ \E t \in Tabs :
       \/ \E asked \in Targets : SignIn(t, asked)
       \/ Redirected(t) \/ AuthorityGrants(t) \/ CallBack(t) \/ CallbackRefused(t) \/ Redeem(t)
       \/ Complete(t) \/ Incomplete(t) \/ Land(t) \/ LoseAnswer(t)
       \/ \E path \in Paths : FormSent(t, path)
       \/ \E ours \in BOOLEAN : FormAnswered(t, ours)
  \/ Tick

SignInSpec == SignInInit /\ [][SignInNext]_signInVars

-----------------------------------------------------------------------------
(* Properties. *)

SignInTypeOK ==
  /\ now \in 0 .. MaxTime
  /\ ceremonies \in 0 .. MaxCeremonies
  /\ codes \subseteq 1 .. MaxCeremonies
  /\ tab \in [Tabs -> Places]
  /\ url \in [Tabs -> 0 .. MaxCeremonies]

\* A handoff code is only ever presented with the verifier of its own ceremony
\* (callback), although tabs overwrite each other's login cookie, reload their
\* callbacks, and hear of their sign-ins in any order.
CodeMeetsItsVerifier == \A pair \in redeemed : pair[1] = pair[2]

\* What every reader takes for a path of this origin, after at most eight
\* decodings.
Harmless(text) ==
  LET after == Decodings(text, MaxDepth)
  IN  ~Changed(after[8]) /\ \A k \in 0 .. MaxDepth : Clean(after[k])

\* A sign-in that succeeds takes its tab where that very sign-in was asked to,
\* never to another tab's target (sign_in, callback), and a harmless target is
\* not dropped for the home page.
ReturnsToItsOwnTarget ==
  \A t \in Tabs :
    tab[t] = "landed" =>
      landed[t] = IF Harmless(wanted[t]) THEN wanted[t] ELSE HomePage

\* Wherever a sign-in or a form sends the browser, each decoding of the target
\* is a path of this origin (return_target_is_local), also beyond the depth the
\* sanitiser looks at.
RedirectsStayLocal ==
  \A t \in Tabs :
    tab[t] \in {"landed", "returned"} =>
      LET after == Decodings(landed[t], MaxDepth)
      IN  \A k \in 0 .. MaxDepth : Local(after[k])
================================================================================
