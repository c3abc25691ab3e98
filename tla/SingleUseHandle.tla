---------------------------- MODULE SingleUseHandle ----------------------------
(***************************************************************************)
(* What browser_auth.rs promises of refresh handles, without cookies,      *)
(* phases, upstreams or time.  The newest handle of a sign-in is a token   *)
(* that is in one place: with the browser, or with the request that had it *)
(* issued.  A request leaves the browser with a copy of what is there; one *)
(* copy can be spent, which ends all the others and moves the token to its *)
(* request or loses it.  The browser's cookie is replaced only by a token. *)
(***************************************************************************)
CONSTANTS Requests, Families

VARIABLES
  issued,    \* sign-ins there have been
  cookie,    \* whether the browser has a session cookie
  home,      \* sign-ins whose newest handle the browser has: at most one
  carriers,  \* for each sign-in, the requests with its newest handle in custody
  copies     \* for each sign-in, the requests that left with its newest handle

handleVars == <<issued, cookie, home, carriers, copies>>

Held(r) == {f \in Families : r \in carriers[f]}

Without(places, r) == [f \in Families |-> places[f] \ {r}]

Init ==
  /\ issued \subseteq Families /\ \A f, g \in issued : f = g
  /\ home = issued
  /\ cookie \in BOOLEAN /\ (home # {} => cookie)
  /\ carriers = [f \in Families |-> {}]
  /\ copies = [f \in Families |-> {}]

\* A sign-in: its first handle is issued to the callback.
Open(r, f) ==
  /\ f \in Families \ issued
  /\ issued' = issued \cup {f}
  /\ carriers' = [carriers EXCEPT ![f] = {r}]
  /\ UNCHANGED <<cookie, home, copies>>

\* A request leaves with what the browser has.
Leave(r) ==
  /\ UNCHANGED <<issued, cookie, home, carriers>>
  /\ copies' = [f \in Families |-> IF f \in home THEN copies[f] \cup {r}
                                   ELSE copies[f] \ {r}]

\* One copy is spent: the successor is the request's, or lost with its answer.
Spend(r, f) ==
  /\ r \in copies[f]
  /\ copies' = [copies EXCEPT ![f] = {}]
  /\ home' = home \ {f}
  /\ \E after \in {{r}, {}} : carriers' = [carriers EXCEPT ![f] = after]
  /\ UNCHANGED <<issued, cookie>>

\* The handler is dropped, and the handle it had with it.
GiveUp(r) ==
  /\ UNCHANGED <<issued, cookie, home, copies>>
  /\ carriers' = Without(carriers, r)

\* A request ends.
End(r) ==
  /\ UNCHANGED issued
  /\ carriers' = Without(carriers, r)
  /\ copies' = Without(copies, r)

\* It brings its handle home, deletes the cookie, or leaves it as it is.
Return(r)  == End(r) /\ Held(r) # {} /\ home' = Held(r) /\ cookie' = TRUE
Clear(r)   == End(r) /\ home' = {} /\ cookie' = FALSE
Discard(r) == End(r) /\ UNCHANGED <<home, cookie>>

\* Most steps of a request change nothing here, which is said first because every
\* step of an implementation is compared with these.
Next ==
  \/ UNCHANGED handleVars
  \/ \E r \in Requests :
       \/ GiveUp(r) \/ Leave(r) \/ Discard(r) \/ Return(r) \/ Clear(r)
       \/ \E f \in Families : Open(r, f) \/ Spend(r, f)

Spec == Init /\ [][Next]_handleVars
================================================================================
