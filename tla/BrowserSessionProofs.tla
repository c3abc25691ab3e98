------------------------ MODULE BrowserSessionProofs ------------------------
(***************************************************************************)
(* Theorems about BrowserSession, for every number of requests in flight,  *)
(* every set of sign-ins and principals, and every bound: its types; the   *)
(* single custody of the refresh handle, the cookie of the jar that never  *)
(* goes back, and the refinement of SingleUseHandle; and what custody gives *)
(* the user: the browser is not left with a silently dead cookie, a cookie *)
(* names the principal of its family, a verification stamp is evidence, the *)
(* verdict on a mutation is true, a revoked session is noticed, and the probe *)
(* of a page clears only a dead session.                                   *)
(***************************************************************************)
EXTENDS BrowserSession, TLAPS

\* The facts about the constants that the steps use.
LEMMA Sentinels ==
  /\ NoCookie \notin Cookie /\ Keep \notin Cookie /\ Keep # NoCookie
  /\ NoHandle \notin Refreshed
  /\ MaxRotations \in Nat /\ MaxTime \in Nat /\ 0 \in Time
  /\ \A f \in Families : Owner[f] \in Users
  /\ Traffic \subseteq Kinds
BY ConstantsAssumption, SentinelsAssumption DEF Time

\* A rotation's cookie is well formed once the request holds a handle.
LEMMA RotatedSessionType ==
  ASSUME TypeOK, NEW r \in Requests, fresh[r] # NoHandle,
         NEW e \in Time \cup {Never}
  PROVE  /\ RotatedSession(r, e) \in Cookie
         /\ RotatedSession(r, e).handle = fresh[r].handle
         /\ RotatedSession(r, e).user = fresh[r].user
         /\ RotatedSession(r, e).verified = e
<1>1. fresh[r] \in Refreshed /\ now \in Time
  BY DEF TypeOK
<1>2. QED
  BY <1>1 DEF RotatedSession, Cookie, Refreshed

Typed == TypeOK /\ PhaseOK

\* A response that sets no cookie, or the one of the handle in custody, keeps
\* the request's slots in order.
LEMMA AnswerTyped ==
  ASSUME Typed, NEW r \in Requests, NEW o \in Outcomes, NEW c \in Codes, NEW s,
         \/ s \in {Keep, NoCookie}
         \/ s \in Cookie /\ fresh[r] # NoHandle /\ s.handle = fresh[r].handle,
         Answer(r, o, c, s), UNCHANGED <<kind, sent, fresh, held>>
  PROVE  /\ PhaseOK'
         /\ pc' \in [Requests -> Phases]
         /\ reply' \in [Requests -> Reply]
<1>1. reply' \in [Requests -> Reply]
  BY DEF Typed, TypeOK, Answer, Reply
<1>2. pc' \in [Requests -> Phases]
  BY DEF Typed, TypeOK, Answer, Go, Phases
<1>3. pc'[r] = "reply" /\ reply'[r].set = s
  BY DEF Typed, TypeOK, Answer, Go
<1>4. \A q \in Requests \ {r} : pc'[q] = pc[q] /\ reply'[q] = reply[q]
  BY DEF Typed, TypeOK, Answer, Go
<1>5. PhaseOK'
  BY <1>3, <1>4, Sentinels DEF Typed, PhaseOK
<1>6. QED
  BY <1>1, <1>2, <1>5

\* Moving to another phase keeps them in order when that phase asks no more.
LEMMA GoTyped ==
  ASSUME Typed, NEW r \in Requests, NEW p \in Handling, Go(r, p), pc[r] # "reply",
         p \in {"refresh", "exchange", "revoke", "delegate"} => held[r] = Keep,
         p \in {"refresh", "exchange", "revoke"} => fresh[r] = NoHandle,
         p \in {"refresh", "revoke"} => sent[r] # NoCookie,
         p \in {"delegate", "api"} => fresh[r] # NoHandle,
         p = "api" /\ kind[r] # "callback" => held[r] # Keep,
         p = "resolve" => (held[r] = Keep <=> fresh[r] = NoHandle),
         UNCHANGED <<kind, sent, fresh, held, reply>>
  PROVE  PhaseOK' /\ pc' \in [Requests -> Phases]
<1>1. pc' \in [Requests -> Phases] /\ pc'[r] = p
  BY DEF Typed, TypeOK, Go, Phases
<1>2. \A q \in Requests \ {r} : pc'[q] = pc[q]
  BY DEF Typed, TypeOK, Go
<1>3. p # "reply" /\ p # "idle" /\ p # "sent"
  BY DEF Handling
<1>4. QED
  BY <1>1, <1>2, <1>3, Sentinels DEF Typed, PhaseOK

LEMMA SendTyped ==
  ASSUME Typed, NEW r \in Requests, NEW k \in Traffic, Send(r, k)
  PROVE  Typed'
BY Sentinels DEF Typed, TypeOK, PhaseOK, Send, Go, auth, past, Phases

LEMMA EnterTyped ==
  ASSUME Typed, NEW r \in Requests, Enter(r)
  PROVE  Typed'
<1> DEFINE Frame == /\ pc[r] = "sent"
                    /\ UNCHANGED <<now, auth, jar, kind, sent, fresh, held, past>>
                    /\ began' \in [Requests -> Time]
<1>1. ASSUME NEW k, Entering(r, k)
      PROVE  Frame
  BY <1>1 DEF Entering, Typed, TypeOK
<1>2. Frame
  BY <1>1 DEF Enter, EnterMutate, EnterRead, EnterStatus, EnterLogout, EnterCallback
<1>3. \/ \E o \in Outcomes, c \in Codes, s \in {Keep, NoCookie} : Answer(r, o, c, s)
      \/ /\ \E p \in {"refresh", "revoke", "resolve"} : Go(r, p)
         /\ sent[r] # NoCookie /\ UNCHANGED reply
      \/ Go(r, "exchange") /\ UNCHANGED reply
  BY DEF Enter, EnterMutate, EnterRead, EnterStatus, EnterLogout, EnterCallback,
         Active, PrivateCode, Outcomes, Codes
<1>4. /\ now' \in Time /\ gen' \in [Families -> 0 .. MaxRotations]
      /\ opened' \subseteq Families /\ revokedAt' \in [Families -> Time \cup {Never}]
      /\ jar' \in Cookie \cup {NoCookie} /\ kind' \in [Requests -> Kinds]
      /\ sent' \in [Requests -> Cookie \cup {NoCookie}]
      /\ fresh' \in [Requests -> Refreshed \cup {NoHandle}]
      /\ held' \in [Requests -> Cookie \cup {Keep}]
      /\ applied' \subseteq Requests /\ proved' \subseteq Handle /\ denied' \subseteq Requests
      /\ stranded' \subseteq Families
  BY <1>2 DEF Typed, TypeOK, auth, past
<1>5. CASE \E o \in Outcomes, c \in Codes, s \in {Keep, NoCookie} : Answer(r, o, c, s)
  BY <1>2, <1>4, <1>5, AnswerTyped DEF Typed, TypeOK
<1>6. ASSUME NEW p \in {"refresh", "revoke", "resolve", "exchange"}, Go(r, p),
             p # "exchange" => sent[r] # NoCookie, UNCHANGED reply
      PROVE  Typed'
  <2>1. fresh[r] = NoHandle /\ held[r] = Keep
    BY <1>2 DEF Typed, PhaseOK
  <2>2. PhaseOK' /\ pc' \in [Requests -> Phases]
    BY <1>2, <1>6, <2>1, GoTyped DEF Handling
  <2>3. QED
    BY <1>2, <1>4, <1>6, <2>2 DEF Typed, TypeOK
<1>7. QED
  BY <1>3, <1>5, <1>6

\* A failed authentication call answers with no cookie or with the rotation.
LEMMA AuthFailedAnswers ==
  ASSUME NEW r \in Requests, NEW c \in {400, 401, 502}, NEW s, AuthFailed(r, c, s)
  PROVE  /\ kind[r] \in {"mutate", "read", "status"}
         /\ \E o \in Outcomes, d \in Codes :
              Answer(r, o, d, s) \/ Answer(r, o, d, NoCookie)
BY DEF AuthFailed, ContinuityFailure, PrivateCode, Outcomes, Codes

LEMMA RefreshTyped ==
  ASSUME Typed, NEW r \in Requests,
         \/ RefreshAnswered(r) \/ RefreshAnswerLost(r)
         \/ RefreshRefused(r) \/ RefreshUnavailable(r)
  PROVE  Typed'
<1> DEFINE h == sent[r].handle
<1>1. /\ Refreshing(r) /\ pc[r] = "refresh"
      /\ sent[r] \in Cookie /\ h \in Handle /\ held[r] = Keep /\ fresh[r] = NoHandle
  BY DEF RefreshAnswered, RefreshAnswerLost, RefreshRefused, RefreshUnavailable,
         Refreshing, Typed, TypeOK, PhaseOK, Cookie
<1>2. Rotate(h) => /\ gen' \in [Families -> 0 .. MaxRotations]
                   /\ Rotated(h) \in Handle
  BY <1>1, Sentinels DEF Rotate, Live, Rotated, Handle, Typed, TypeOK
<1>3. h.family \in Families
  BY <1>1 DEF Handle
<1>4. /\ gen' \in [Families -> 0 .. MaxRotations]
      /\ stranded' \subseteq Families
  BY <1>1, <1>2, <1>3 DEF RefreshAnswered, RefreshAnswerLost, RefreshRefused,
     RefreshUnavailable, Typed, TypeOK
<1>5. ASSUME NEW c \in {400, 401, 502}, AuthFailed(r, c, Keep), UNCHANGED fresh
      PROVE  Typed'
  <2>1. PICK o \in Outcomes, d \in Codes :
          Answer(r, o, d, Keep) \/ Answer(r, o, d, NoCookie)
    BY <1>5, AuthFailedAnswers
  <2>2. UNCHANGED <<kind, sent, fresh, held>>
    BY <1>1, <1>5 DEF Refreshing
  <2>3. /\ PhaseOK' /\ pc' \in [Requests -> Phases]
        /\ reply' \in [Requests -> Reply]
    BY <2>1, <2>2, AnswerTyped
  <2>4. QED
    BY <1>1, <1>4, <1>5, <2>3 DEF Refreshing, Typed, TypeOK
<1>6. ASSUME Rotate(h), Go(r, "delegate"), UNCHANGED reply,
             fresh' = [fresh EXCEPT ![r] =
                         [handle |-> Rotated(h), user |-> sent[r].user]]
      PROVE  Typed'
  <2>1. [handle |-> Rotated(h), user |-> sent[r].user] \in Refreshed
    BY <1>1, <1>2, <1>6 DEF Refreshed, Cookie
  <2>2. fresh' \in [Requests -> Refreshed \cup {NoHandle}] /\ fresh'[r] # NoHandle
    BY <1>6, <2>1, Sentinels DEF Typed, TypeOK
  <2>3. pc' \in [Requests -> Phases] /\ pc'[r] = "delegate"
    BY <1>6 DEF Go, Typed, TypeOK, Phases, Handling
  <2>4. \A q \in Requests \ {r} : pc'[q] = pc[q] /\ fresh'[q] = fresh[q]
    BY <1>6 DEF Go, Typed, TypeOK
  <2>5. UNCHANGED <<kind, sent, held, reply>>
    BY <1>1, <1>6 DEF Refreshing
  <2>6. PhaseOK'
    BY <1>1, <2>2, <2>3, <2>4, <2>5, Sentinels DEF Typed, PhaseOK, NoReply
  <2>7. QED
    BY <1>1, <1>4, <1>6, <2>2, <2>3, <2>6 DEF Refreshing, Typed, TypeOK
<1>7. QED
  BY <1>5, <1>6 DEF RefreshAnswered, RefreshAnswerLost, RefreshRefused,
     RefreshUnavailable

LEMMA DelegateTyped ==
  ASSUME Typed, NEW r \in Requests, DelegateGranted(r) \/ DelegateFailed(r)
  PROVE  Typed'
<1>1. /\ Delegating(r) /\ pc[r] = "delegate"
      /\ fresh[r] \in Refreshed /\ fresh[r] # NoHandle /\ held[r] = Keep
      /\ fresh[r].handle \in Handle /\ fresh[r].handle.family \in Families
  BY DEF DelegateGranted, DelegateFailed, Delegating, Typed, TypeOK, PhaseOK,
         Refreshed, Handle
<1>2. now \in Time
  BY DEF Typed, TypeOK
<1>3. CASE DelegateGranted(r)
  <2>1. /\ held' \in [Requests -> Cookie \cup {Keep}]
        /\ held'[r] # Keep => held'[r].handle = fresh[r].handle
        /\ held'[r] = Keep <=> kind[r] = "callback"
        /\ \A q \in Requests \ {r} : held'[q] = held[q]
    BY <1>1, <1>2, <1>3, RotatedSessionType, Sentinels DEF DelegateGranted, Typed, TypeOK
  <2>2. /\ pc' \in [Requests -> Phases]
        /\ pc'[r] = (IF kind[r] = "status" THEN "resolve" ELSE "api")
        /\ \A q \in Requests \ {r} : pc'[q] = pc[q]
    BY <1>3 DEF DelegateGranted, Go, Typed, TypeOK, Phases, Handling
  <2>3. UNCHANGED <<kind, sent, fresh, reply>>
    BY <1>1, <1>3 DEF DelegateGranted, Delegating
  <2>4. PhaseOK'
    BY <1>1, <2>1, <2>2, <2>3, Sentinels DEF Typed, PhaseOK, NoReply
  <2>5. proved' \subseteq Handle
    BY <1>1, <1>3 DEF DelegateGranted, Typed, TypeOK
  <2>6. QED
    BY <1>1, <1>3, <2>1, <2>2, <2>4, <2>5 DEF DelegateGranted, Delegating, Typed, TypeOK, auth
<1>4. CASE DelegateFailed(r)
  <2>1. /\ UNCHANGED <<kind, sent, fresh, held, proved>>
        /\ stranded' \subseteq Families /\ denied' \subseteq Requests
    BY <1>1, <1>4 DEF DelegateFailed, Delegating, Strand, Typed, TypeOK
  <2> DEFINE s == RotatedSession(r, Never)
  <2>2. s \in Cookie /\ s.handle = fresh[r].handle
    BY <1>1, RotatedSessionType DEF Typed
  <2>3. \E o \in Outcomes, d \in Codes :
          \E v \in {s, Keep, NoCookie} : Answer(r, o, d, v)
    <3>1. PICK c \in {400, 401, 502} :
            Answer(r, "Failed", c, Keep) \/ AuthFailed(r, c, s)
      BY <1>4 DEF DelegateFailed
    <3>2. QED
      BY <3>1, AuthFailedAnswers DEF Outcomes, Codes
  <2>4. /\ PhaseOK' /\ pc' \in [Requests -> Phases]
        /\ reply' \in [Requests -> Reply]
    <3>1. PICK o \in Outcomes, d \in Codes, v \in {s, Keep, NoCookie} :
            Answer(r, o, d, v)
      BY <2>3
    <3>2. \/ v \in {Keep, NoCookie}
          \/ v \in Cookie /\ fresh[r] # NoHandle /\ v.handle = fresh[r].handle
      BY <1>1, <2>2
    <3>3. QED
      BY <2>1, <3>1, <3>2, AnswerTyped
  <2>5. QED
    BY <1>1, <2>1, <2>4 DEF Delegating, Typed, TypeOK, auth
<1>5. QED
  BY <1>3, <1>4

LEMMA CallTyped ==
  ASSUME Typed, NEW r \in Requests,
         \/ MutationSucceeds(r) \/ MutationRejected(r) \/ MutationUnanswered(r)
         \/ ReadAnswered(r) \/ CallbackProjected(r)
  PROVE  Typed'
<1>1. /\ pc[r] = "api" /\ fresh[r] \in Refreshed /\ fresh[r] # NoHandle
      /\ fresh[r].handle \in Handle /\ fresh[r].handle.family \in Families
      /\ UNCHANGED <<now, auth, jar, kind, began, sent, fresh, held, proved, denied>>
  BY DEF MutationSucceeds, MutationRejected, MutationUnanswered, ReadAnswered,
     CallbackProjected, Calling, Typed, TypeOK, PhaseOK, Refreshed, Handle
<1>2. applied' \subseteq Requests /\ stranded' \subseteq Families
  BY <1>1 DEF MutationSucceeds, MutationRejected, MutationUnanswered,
     ReadAnswered, CallbackProjected, Strand, Typed, TypeOK
<1> DEFINE s == RotatedSession(r, now)
<1>3. s \in Cookie /\ s.handle = fresh[r].handle
  BY <1>1, RotatedSessionType DEF Typed, TypeOK
<1>4. kind[r] # "callback" =>
        /\ held[r] \in Cookie /\ held[r].handle = fresh[r].handle
  BY <1>1 DEF Typed, TypeOK, PhaseOK
<1>5. PICK o \in Outcomes, c \in Codes, v \in {s, Keep, held[r]} :
        Answer(r, o, c, v) /\ (v = held[r] => kind[r] # "callback" \/ v \in {s, Keep})
  BY DEF MutationSucceeds, MutationRejected, MutationUnanswered, MutationCode,
     ReadAnswered, CallbackProjected, Calling, Outcomes, Codes, ApiErrors
<1>6. /\ PhaseOK' /\ pc' \in [Requests -> Phases]
      /\ reply' \in [Requests -> Reply]
  BY <1>1, <1>3, <1>4, <1>5, AnswerTyped
<1>7. QED
  BY <1>1, <1>2, <1>6 DEF Typed, TypeOK, auth

LEMMA StatusResolvedTyped ==
  ASSUME Typed, NEW r \in Requests, StatusResolved(r)
  PROVE  Typed'
<1>1. /\ pc[r] = "resolve"
      /\ UNCHANGED <<now, auth, jar, kind, began, sent, fresh, held, past>>
      /\ held[r] = Keep \/ ( /\ held[r] \in Cookie /\ fresh[r] # NoHandle
                            /\ held[r].handle = fresh[r].handle)
  BY DEF StatusResolved, Typed, TypeOK, PhaseOK
<1>2. \E o \in Outcomes, c \in Codes : Answer(r, o, c, held[r])
  BY DEF StatusResolved, Outcomes, Codes
<1>3. /\ PhaseOK' /\ pc' \in [Requests -> Phases]
      /\ reply' \in [Requests -> Reply]
  BY <1>1, <1>2, AnswerTyped
<1>4. QED
  BY <1>1, <1>3 DEF Typed, TypeOK, auth, past

LEMMA CallbackExchangedTyped ==
  ASSUME Typed, NEW r \in Requests, CallbackExchanged(r)
  PROVE  Typed'
<1>1. /\ pc[r] = "exchange" /\ fresh[r] = NoHandle /\ held[r] = Keep
      /\ UNCHANGED <<now, gen, revokedAt, jar, kind, began, sent, held, past>>
  BY DEF CallbackExchanged, Typed, PhaseOK
<1>2. ASSUME NEW c \in {400, 401, 502}, Answer(r, "Failed", c, Keep),
             UNCHANGED <<opened, fresh>>
      PROVE  Typed'
  <2>1. /\ PhaseOK' /\ pc' \in [Requests -> Phases]
        /\ reply' \in [Requests -> Reply]
    BY <1>1, <1>2, AnswerTyped DEF Outcomes, Codes
  <2>2. QED
    BY <1>1, <1>2, <2>1 DEF Typed, TypeOK, past
<1>3. ASSUME NEW f \in Families, opened' = opened \cup {f},
             fresh' = [fresh EXCEPT ![r] =
               [handle |-> [family |-> f, gen |-> 0], user |-> Owner[f]]],
             Go(r, "delegate"), UNCHANGED reply
      PROVE  Typed'
  <2>1. [handle |-> [family |-> f, gen |-> 0], user |-> Owner[f]] \in Refreshed
    BY Sentinels DEF Refreshed, Handle
  <2>2. /\ fresh' \in [Requests -> Refreshed \cup {NoHandle}] /\ fresh'[r] # NoHandle
        /\ pc' \in [Requests -> Phases] /\ pc'[r] = "delegate"
        /\ \A q \in Requests \ {r} : pc'[q] = pc[q] /\ fresh'[q] = fresh[q]
    BY <1>3, <2>1, Sentinels DEF Go, Typed, TypeOK, Phases, Handling
  <2>3. PhaseOK'
    BY <1>1, <1>3, <2>2, Sentinels DEF Typed, PhaseOK, NoReply
  <2>4. QED
    BY <1>1, <1>3, <2>2, <2>3 DEF Typed, TypeOK, past
<1>4. QED
  BY <1>2, <1>3 DEF CallbackExchanged

\* Revoking a family, whoever asks for it, keeps the record well formed.
LEMMA RevocationTyped ==
  ASSUME Typed, NEW f \in Families, revokedAt' = [revokedAt EXCEPT ![f] = now]
  PROVE  revokedAt' \in [Families -> Time \cup {Never}]
BY DEF Typed, TypeOK

LEMMA LogoutTyped ==
  ASSUME Typed, NEW r \in Requests, Logout(r)
  PROVE  Typed'
<1>1. /\ pc[r] = "revoke" /\ sent[r] \in Cookie
      /\ sent[r].handle.family \in Families
      /\ UNCHANGED <<now, gen, opened, jar, kind, began, sent, fresh, held, past>>
  BY DEF Logout, Typed, TypeOK, PhaseOK, Cookie, Handle
<1>2. revokedAt' \in [Families -> Time \cup {Never}]
  BY <1>1, RevocationTyped DEF Logout, Typed, TypeOK
<1>3. /\ PhaseOK' /\ pc' \in [Requests -> Phases]
      /\ reply' \in [Requests -> Reply]
  BY <1>1, AnswerTyped DEF Logout, Outcomes, Codes
<1>4. QED
  BY <1>1, <1>2, <1>3 DEF Typed, TypeOK, past

LEMMA TimeoutTyped ==
  ASSUME Typed, NEW r \in Requests, Timeout(r)
  PROVE  Typed'
<1>1. /\ pc[r] \in Handling
      /\ UNCHANGED <<now, jar, kind, began, sent, proved, denied>>
      /\ fresh' = [fresh EXCEPT ![r] = NoHandle]
      /\ held' = [held EXCEPT ![r] = Keep]
      /\ Answer(r, "Timeout", 408, Keep)
  BY DEF Timeout
<1>2. pc[r] \in {"refresh", "revoke"} =>
        /\ sent[r] \in Cookie /\ sent[r].handle \in Handle
        /\ sent[r].handle.family \in Families
  BY DEF Typed, TypeOK, PhaseOK, Cookie, Handle
<1>3. fresh[r] = NoHandle \/ fresh[r].handle.family \in Families
  BY DEF Typed, TypeOK, Refreshed, Handle
<1>4. stranded' \subseteq Families /\ applied' \subseteq Requests /\ opened' = opened
  BY <1>2, <1>3 DEF Timeout, OrphanedCall, Strand, Typed, TypeOK, auth
<1>5. revokedAt' \in [Families -> Time \cup {Never}]
  BY <1>2, RevocationTyped DEF Timeout, OrphanedCall, Typed, TypeOK, auth
<1>6. gen' \in [Families -> 0 .. MaxRotations]
  BY <1>2, Sentinels DEF Timeout, OrphanedCall, Rotate, Typed, TypeOK, auth
<1>7. /\ pc' \in [Requests -> Phases] /\ reply' \in [Requests -> Reply]
      /\ fresh' \in [Requests -> Refreshed \cup {NoHandle}]
      /\ held' \in [Requests -> Cookie \cup {Keep}]
      /\ pc'[r] = "reply" /\ reply'[r].set = Keep /\ fresh'[r] = NoHandle
      /\ held'[r] = Keep
      /\ \A q \in Requests \ {r} : /\ pc'[q] = pc[q] /\ reply'[q] = reply[q]
                                   /\ fresh'[q] = fresh[q] /\ held'[q] = held[q]
  BY <1>1 DEF Answer, Go, Typed, TypeOK, Phases, Reply, Outcomes, Codes
<1>8. PhaseOK'
  BY <1>1, <1>7, Sentinels DEF Typed, PhaseOK
<1>9. QED
  BY <1>1, <1>4, <1>5, <1>6, <1>7, <1>8 DEF Typed, TypeOK

LEMMA FinishTyped ==
  ASSUME Typed, NEW r \in Requests, Deliver(r) \/ Lose(r)
  PROVE  Typed'
<1>1. Finish(r) /\ pc[r] = "reply"
  BY DEF Deliver, Lose, Finish
<1>2. jar' \in Cookie \cup {NoCookie}
  BY Sentinels DEF Deliver, Lose, Typed, TypeOK, Reply
<1>3. stranded' \subseteq Families
  BY DEF Deliver, Lose, Strand, Typed, TypeOK, Refreshed, Handle
<1>4. /\ pc' \in [Requests -> Phases] /\ reply' \in [Requests -> Reply]
      /\ kind' \in [Requests -> Kinds] /\ began' \in [Requests -> Time]
      /\ fresh' \in [Requests -> Refreshed \cup {NoHandle}]
      /\ held' \in [Requests -> Cookie \cup {Keep}]
      /\ sent' \in [Requests -> Cookie \cup {NoCookie}]
      /\ applied' \subseteq Requests
  BY <1>1, Sentinels DEF Finish, Go, Typed, TypeOK, Phases, Reply, NoReply,
     Outcomes, Codes, Kinds
<1>5. PhaseOK'
  BY <1>1, Sentinels DEF Finish, Go, Typed, TypeOK, PhaseOK, NoReply
<1>6. QED
  BY <1>1, <1>2, <1>3, <1>4, <1>5 DEF Finish, Typed, TypeOK, auth

LEMMA WorldTyped ==
  ASSUME Typed, Tick \/ (\E f \in Families : Revoke(f)) \/ UNCHANGED vars
  PROVE  Typed'
<1>1. CASE Tick
  BY <1>1, Sentinels DEF Tick, Typed, TypeOK, PhaseOK, auth, past, Time
<1>2. ASSUME NEW f \in Families, Revoke(f)
      PROVE  Typed'
  BY <1>2, RevocationTyped DEF Revoke, Typed, TypeOK, PhaseOK, past
<1>3. CASE UNCHANGED vars
  BY <1>3 DEF vars, auth, past, Typed, TypeOK, PhaseOK
<1>4. QED
  BY <1>1, <1>2, <1>3

LEMMA InitTyped == Init => Typed
<1> SUFFICES ASSUME Init PROVE Typed
  OBVIOUS
<1>1. jar \in Cookie \cup {NoCookie}
  BY Sentinels, ConstantsAssumption
  DEF Init, InitialCookies, Cookie, Handle, Time
<1>2. opened \subseteq Families /\ proved \subseteq Handle
  BY <1>1 DEF Init, Cookie, Handle
<1>3. TypeOK
  BY <1>1, <1>2, Sentinels
  DEF Init, TypeOK, Phases, Reply, NoReply, Outcomes, Codes, Kinds
<1>4. PhaseOK
  BY Sentinels DEF Init, PhaseOK, NoReply
<1>5. QED
  BY <1>3, <1>4 DEF Typed

LEMMA NextTyped == Typed /\ [Next]_vars => Typed'
<1> SUFFICES ASSUME Typed, [Next]_vars PROVE Typed'
  OBVIOUS
<1>1. ASSUME NEW r \in Requests, Serve(r) PROVE Typed'
  BY <1>1, RefreshTyped, DelegateTyped, CallTyped, StatusResolvedTyped,
     CallbackExchangedTyped, LogoutTyped DEF Serve
<1>2. QED
  BY <1>1, SendTyped, EnterTyped, TimeoutTyped, FinishTyped, WorldTyped DEF Next

\* Every state is well formed: Shared Auth's record, the jar and each request's
\* slots, whatever handlers, timeouts and losses did to them.
THEOREM TypeCorrect == Spec => []TypeOK
<1>1. Typed => TypeOK
  BY DEF Typed
<1>2. QED
  BY InitTyped, NextTyped, <1>1, PTL DEF Spec

-----------------------------------------------------------------------------
(* Single custody of the refresh handle.  Every step is of one of four sorts.  Most
   neither rotate a handle nor reach the jar (Quiet).  A call of /auth/refresh spends
   the newest handle of a family, which by custody nobody else has a successor of.  A
   callback opens a family no cookie names yet.  A delivery hands the newest handle
   of a family from the request to the jar. *)

Custody == Typed /\ CookiesKnown /\ SingleCustody

\* What the steps use of a well-typed state.
LEMMA Shapes ==
  ASSUME Typed
  PROVE  /\ jar = NoCookie \/ (jar \in Cookie /\ jar.handle \in Handle)
         /\ \A q \in Requests :
              /\ sent[q] = NoCookie \/ (sent[q] \in Cookie /\ sent[q].handle \in Handle)
              /\ fresh[q] = NoHandle
                   \/ (fresh[q] \in Refreshed /\ fresh[q].handle \in Handle)
         /\ \A h \in Handle : h.family \in Families /\ h.gen \in Nat
         /\ \A f \in Families : gen[f] \in Nat
<1>1. \A c \in Cookie : c.handle \in Handle
  BY DEF Cookie
<1>2. \A x \in Refreshed : x.handle \in Handle
  BY DEF Refreshed
<1>3. \A h \in Handle : h.family \in Families /\ h.gen \in Nat
  BY Sentinels DEF Handle
<1>4. \A f \in Families : gen[f] \in Nat
  BY Sentinels DEF Typed, TypeOK
<1>5. QED
  BY <1>1, <1>2, <1>3, <1>4 DEF Typed, TypeOK

\* A step that rotates nothing and leaves the jar alone keeps custody.
LEMMA Quiet ==
  ASSUME CookiesKnown, SingleCustody, UNCHANGED <<gen, opened, jar>>,
         \A q \in Requests : /\ sent'[q] \in {sent[q], jar, NoCookie}
                             /\ fresh'[q] \in {fresh[q], NoHandle}
  PROVE  CookiesKnown' /\ SingleCustody'
<1>1. \A c \in {jar'} \cup {sent'[q] : q \in Requests} :
        c = NoCookie \/ c \in {jar} \cup {sent[q] : q \in Requests}
  OBVIOUS
<1>2. CookiesKnown'
  BY <1>1 DEF CookiesKnown
<1>3. ASSUME NEW r \in Requests, fresh'[r] # NoHandle
      PROVE  LET h == fresh'[r].handle IN
             /\ h.family \in opened' /\ h.gen = gen'[h.family]
             /\ \A c \in {jar'} \cup {sent'[q] : q \in Requests} :
                  c # NoCookie /\ c.handle.family = h.family => c.handle.gen < h.gen
             /\ \A q \in Requests \ {r} :
                  fresh'[q] # NoHandle => fresh'[q].handle.family # h.family
  <2>1. fresh'[r] = fresh[r] /\ fresh[r] # NoHandle
    BY <1>3
  <2>2. QED
    BY <1>1, <2>1 DEF SingleCustody
<1>4. QED
  BY <1>2, <1>3 DEF SingleCustody

\* Nobody else has custody of a family whose accepted handle a request carries.
LEMMA LiveHandleIsFree ==
  ASSUME Custody, NEW r \in Requests, sent[r] # NoCookie, Live(sent[r].handle)
  PROVE  \A q \in Requests :
           fresh[q] # NoHandle => fresh[q].handle.family # sent[r].handle.family
BY Shapes DEF Custody, SingleCustody, Live

\* A refresh that takes effect, whether its answer is read or not.
LEMMA RotateKeepsCustody ==
  ASSUME Custody, NEW r \in Requests, sent[r] # NoCookie,
         Rotate(sent[r].handle), UNCHANGED <<opened, jar, sent>>,
         \A q \in Requests \ {r} : fresh'[q] = fresh[q],
         \/ fresh'[r] = NoHandle
         \/ fresh'[r].handle = Rotated(sent[r].handle)
  PROVE  CookiesKnown' /\ SingleCustody'
<1> DEFINE h == sent[r].handle
           f == h.family
<1>1. h \in Handle /\ f \in Families /\ h.gen = gen[f] /\ f \in opened /\ gen[f] \in Nat
  BY Shapes DEF Custody, CookiesKnown, Rotate, Live
<1>2. gen'[f] = gen[f] + 1 /\ \A g \in Families \ {f} : gen'[g] = gen[g]
  BY <1>1 DEF Rotate, Custody, Typed, TypeOK
<1>3. \A q \in Requests : fresh[q] # NoHandle => fresh[q].handle.family # f
  BY LiveHandleIsFree DEF Rotate
<1>4. Rotated(h).family = f /\ Rotated(h).gen = gen'[f]
  BY <1>1, <1>2 DEF Rotated, Handle
<1>5. \A c \in {jar} \cup {sent[q] : q \in Requests} :
        c # NoCookie => c.handle \in Handle /\ c.handle.family \in Families
                          /\ c.handle.gen \in Nat
  BY Shapes DEF Custody
<1>6. CookiesKnown'
  BY <1>1, <1>2, <1>5 DEF Custody, CookiesKnown
<1>7. ASSUME NEW p \in Requests, fresh'[p] # NoHandle
      PROVE  LET k == fresh'[p].handle IN
             /\ k.family \in opened' /\ k.gen = gen'[k.family]
             /\ \A c \in {jar'} \cup {sent'[q] : q \in Requests} :
                  c # NoCookie /\ c.handle.family = k.family => c.handle.gen < k.gen
             /\ \A q \in Requests \ {p} :
                  fresh'[q] # NoHandle => fresh'[q].handle.family # k.family
  <2>1. CASE p = r
    <3>1. fresh'[p].handle.family = f /\ fresh'[p].handle.gen = gen[f] + 1
      BY <1>2, <1>4, <1>7, <2>1
    <3>2. \A c \in {jar} \cup {sent[q] : q \in Requests} :
            c # NoCookie /\ c.handle.family = f => c.handle.gen < gen[f] + 1
      BY <1>1, <1>5 DEF Custody, CookiesKnown
    <3>3. QED
      BY <1>1, <1>2, <1>3, <2>1, <3>1, <3>2
  <2>2. CASE p # r
    <3>1. fresh'[p] = fresh[p] /\ fresh[p] # NoHandle
          /\ fresh[p].handle \in Handle /\ fresh[p].handle.family \in Families \ {f}
      BY <1>3, <1>7, <2>2, Shapes DEF Custody
    <3>2. \A q \in Requests \ {p} :
            fresh'[q] # NoHandle => fresh'[q].handle.family # fresh[p].handle.family
      BY <1>4, <3>1 DEF Custody, SingleCustody
    <3>3. QED
      BY <1>2, <3>1, <3>2 DEF Custody, SingleCustody
  <2>3. QED
    BY <2>1, <2>2
<1>8. QED
  BY <1>6, <1>7 DEF SingleCustody

LEMMA RefreshKeepsCustody ==
  ASSUME Custody, NEW r \in Requests,
         \/ RefreshAnswered(r) \/ RefreshAnswerLost(r)
         \/ RefreshRefused(r) \/ RefreshUnavailable(r)
  PROVE  CookiesKnown' /\ SingleCustody'
<1>1. Refreshing(r) /\ sent[r] # NoCookie /\ fresh[r] = NoHandle
      /\ UNCHANGED <<opened, jar, sent>>
  BY DEF RefreshAnswered, RefreshAnswerLost, RefreshRefused, RefreshUnavailable,
         Refreshing, Custody, Typed, PhaseOK
<1>2. CASE RefreshRefused(r) \/ RefreshUnavailable(r)
  BY <1>1, <1>2, Quiet DEF RefreshRefused, RefreshUnavailable, Custody
<1>3. CASE RefreshAnswered(r) \/ RefreshAnswerLost(r)
  <2>1. Rotate(sent[r].handle)
    BY <1>3 DEF RefreshAnswered, RefreshAnswerLost
  <2>2. \A q \in Requests \ {r} : fresh'[q] = fresh[q]
    BY <1>3 DEF RefreshAnswered, RefreshAnswerLost, Custody, Typed, TypeOK
  <2>3. fresh'[r] = NoHandle \/ fresh'[r].handle = Rotated(sent[r].handle)
    BY <1>1, <1>3 DEF RefreshAnswered, RefreshAnswerLost, Custody, Typed, TypeOK
  <2>4. QED
    BY <1>1, <2>1, <2>2, <2>3, RotateKeepsCustody
<1>4. QED
  BY <1>2, <1>3

\* A callback opens a family nobody has heard of.
LEMMA ExchangeKeepsCustody ==
  ASSUME Custody, NEW r \in Requests, CallbackExchanged(r)
  PROVE  CookiesKnown' /\ SingleCustody'
<1>1. fresh[r] = NoHandle /\ UNCHANGED <<gen, jar, sent>>
  BY DEF CallbackExchanged, Custody, Typed, PhaseOK
<1>2. CASE UNCHANGED <<opened, fresh>>
  BY <1>1, <1>2, Quiet DEF Custody
<1>3. ASSUME NEW f \in Families \ opened, opened' = opened \cup {f},
             fresh' = [fresh EXCEPT ![r] =
               [handle |-> [family |-> f, gen |-> 0], user |-> Owner[f]]]
      PROVE  CookiesKnown' /\ SingleCustody'
  <2>1. gen[f] = 0
    BY DEF Custody, CookiesKnown
  <2>2. fresh'[r].handle.family = f /\ fresh'[r].handle.gen = 0
        /\ \A q \in Requests \ {r} : fresh'[q] = fresh[q]
    BY <1>3 DEF Custody, Typed, TypeOK
  <2>3. \A c \in {jar} \cup {sent[q] : q \in Requests} :
          c # NoCookie => c.handle.family \in opened
    BY DEF Custody, CookiesKnown
  <2>4. \A q \in Requests : fresh[q] # NoHandle => fresh[q].handle.family \in opened
    BY DEF Custody, SingleCustody
  <2>5. CookiesKnown'
    BY <1>1, <1>3 DEF Custody, CookiesKnown
  <2>6. QED
    BY <1>1, <1>3, <2>1, <2>2, <2>3, <2>4, <2>5 DEF Custody, SingleCustody
<1>4. QED
  BY <1>2, <1>3 DEF CallbackExchanged

\* A delivery hands the newest handle to the jar and gives up custody.
LEMMA DeliverKeepsCustody ==
  ASSUME Custody, NEW r \in Requests, Deliver(r)
  PROVE  CookiesKnown' /\ SingleCustody'
<1>1. /\ UNCHANGED <<gen, opened>>
      /\ fresh'[r] = NoHandle /\ sent'[r] = NoCookie
      /\ \A q \in Requests \ {r} : fresh'[q] = fresh[q] /\ sent'[q] = sent[q]
  BY DEF Deliver, Finish, auth, Custody, Typed, TypeOK
<1>2. CASE jar' \in {jar, NoCookie}
  <2>1. \A c \in {jar'} \cup {sent'[q] : q \in Requests} :
          c = NoCookie \/ c \in {jar} \cup {sent[q] : q \in Requests}
    BY <1>1, <1>2
  <2>2. CookiesKnown'
    BY <1>1, <2>1 DEF Custody, CookiesKnown
  <2>3. QED
    BY <1>1, <2>1, <2>2 DEF Custody, SingleCustody
<1>3. CASE reply[r].set \notin {Keep, NoCookie}
  <2>1. jar' = reply[r].set /\ fresh[r] # NoHandle /\ jar'.handle = fresh[r].handle
    BY <1>3 DEF Deliver, Custody, Typed, PhaseOK
  <2>2. fresh[r].handle \in Handle /\ fresh[r].handle.family \in Families
        /\ fresh[r].handle.gen \in Nat
    BY <2>1, Shapes DEF Custody
  <2>3. fresh[r].handle.family \in opened
        /\ fresh[r].handle.gen = gen[fresh[r].handle.family]
        /\ \A q \in Requests \ {r} :
             fresh[q] # NoHandle => fresh[q].handle.family # fresh[r].handle.family
    BY <2>1 DEF Custody, SingleCustody
  <2>4. \A c \in {jar'} \cup {sent'[q] : q \in Requests} :
          c = NoCookie \/ c = jar' \/ c \in {sent[q] : q \in Requests}
    BY <1>1
  <2>5. CookiesKnown'
    BY <1>1, <2>1, <2>2, <2>3, <2>4 DEF Custody, CookiesKnown
  <2>6. ASSUME NEW p \in Requests, fresh'[p] # NoHandle
        PROVE  LET k == fresh'[p].handle IN
               /\ k.family \in opened' /\ k.gen = gen'[k.family]
               /\ \A c \in {jar'} \cup {sent'[q] : q \in Requests} :
                    c # NoCookie /\ c.handle.family = k.family => c.handle.gen < k.gen
               /\ \A q \in Requests \ {p} :
                    fresh'[q] # NoHandle => fresh'[q].handle.family # k.family
    <3>1. p # r /\ fresh'[p] = fresh[p]
      BY <1>1, <2>6
    <3>2. jar'.handle.family # fresh[p].handle.family
      BY <2>1, <2>3, <2>6, <3>1
    <3>3. QED
      BY <1>1, <2>4, <2>6, <3>1, <3>2 DEF Custody, SingleCustody
  <2>7. QED
    BY <2>5, <2>6 DEF SingleCustody
<1>4. QED
  BY <1>2, <1>3 DEF Deliver

LEMMA TimeoutKeepsCustody ==
  ASSUME Custody, NEW r \in Requests, Timeout(r)
  PROVE  CookiesKnown' /\ SingleCustody'
<1>1. /\ UNCHANGED <<jar, sent, opened>>
      /\ fresh'[r] = NoHandle
      /\ \A q \in Requests \ {r} : fresh'[q] = fresh[q]
  BY DEF Timeout, OrphanedCall, auth, Custody, Typed, TypeOK
<1>2. CASE UNCHANGED gen
  BY <1>1, <1>2, Quiet DEF Custody
<1>3. CASE pc[r] = "refresh" /\ Rotate(sent[r].handle)
  <2>1. sent[r] # NoCookie
    BY <1>3 DEF Custody, Typed, PhaseOK
  <2>2. QED
    BY <1>1, <1>3, <2>1, RotateKeepsCustody
<1>4. QED
  BY <1>2, <1>3 DEF Timeout, OrphanedCall, auth

LEMMA InitCustody == Init => Custody
<1> SUFFICES ASSUME Init PROVE Custody
  OBVIOUS
<1>1. jar # NoCookie => jar.handle.gen = 0 /\ jar.handle.family \in opened
  BY DEF Init, InitialCookies
<1>2. \A r \in Requests : sent[r] = NoCookie /\ fresh[r] = NoHandle
  BY DEF Init
<1>3. jar # NoCookie => gen[jar.handle.family] = 0
  BY DEF Init, InitialCookies
<1>4. CookiesKnown
  BY <1>1, <1>2, <1>3 DEF Init, CookiesKnown
<1>5. SingleCustody
  BY <1>2 DEF SingleCustody
<1>6. QED
  BY <1>4, <1>5, InitTyped DEF Custody

LEMMA NextCustody == Custody /\ [Next]_vars => Custody'
<1> SUFFICES ASSUME Custody, [Next]_vars PROVE CookiesKnown' /\ SingleCustody'
  BY NextTyped DEF Custody
<1>1. ASSUME NEW r \in Requests, NEW k \in Traffic, Send(r, k)
      PROVE  CookiesKnown' /\ SingleCustody'
  BY <1>1, Quiet DEF Send, auth, Custody, Typed, TypeOK
<1>2. ASSUME NEW r \in Requests, Enter(r)
      PROVE  CookiesKnown' /\ SingleCustody'
  <2>1. UNCHANGED <<gen, opened, jar, sent, fresh>>
    BY <1>2 DEF Enter, EnterMutate, EnterRead, EnterStatus, EnterLogout,
       EnterCallback, Entering, auth
  <2>2. QED
    BY <2>1, Quiet DEF Custody
<1>3. ASSUME NEW r \in Requests, Serve(r)
      PROVE  CookiesKnown' /\ SingleCustody'
  <2>1. \/ \/ RefreshAnswered(r) \/ RefreshAnswerLost(r)
           \/ RefreshRefused(r) \/ RefreshUnavailable(r)
        \/ CallbackExchanged(r)
        \/ UNCHANGED <<gen, opened, jar, sent, fresh>>
    BY <1>3 DEF Serve, DelegateGranted, DelegateFailed, Delegating,
       MutationSucceeds, MutationRejected, MutationUnanswered, ReadAnswered,
       CallbackProjected, Calling, StatusResolved, Logout, auth
  <2>2. QED
    BY <2>1, Quiet, RefreshKeepsCustody, ExchangeKeepsCustody DEF Custody
<1>4. ASSUME NEW r \in Requests, Lose(r)
      PROVE  CookiesKnown' /\ SingleCustody'
  <2>1. /\ UNCHANGED <<gen, opened, jar>>
        /\ \A q \in Requests : /\ sent'[q] \in {sent[q], NoCookie}
                               /\ fresh'[q] \in {fresh[q], NoHandle}
    BY <1>4 DEF Lose, Finish, auth, Custody, Typed, TypeOK
  <2>2. QED
    BY <2>1, Quiet DEF Custody
<1>5. CASE Tick \/ (\E f \in Families : Revoke(f)) \/ UNCHANGED vars
  <2>1. UNCHANGED <<gen, opened, jar, sent, fresh>>
    BY <1>5 DEF Tick, Revoke, vars, auth
  <2>2. QED
    BY <2>1, Quiet DEF Custody
<1>6. QED
  BY <1>1, <1>2, <1>3, <1>4, <1>5, TimeoutKeepsCustody, DeliverKeepsCustody DEF Next

LEMMA CustodyHolds == Spec => []Custody
BY InitCustody, NextCustody, PTL DEF Spec

\* However requests overlap, time out and lose their answers, the successor of
\* a refresh handle has one custodian, newer than everything the browser has.
THEOREM HandleHasOneCustodian == Spec => []HandleCustody
<1>1. Custody => HandleCustody
  BY DEF Custody, Typed, HandleCustody
<1>2. QED
  BY CustodyHolds, <1>1, PTL

\* A response that arrives late never puts an older handle back into the jar.
THEOREM JarNeverGoesBack == Spec => CookieNeverGoesBack
<1> DEFINE Forward == (jar # NoCookie /\ jar' # NoCookie
                         /\ jar'.handle.family = jar.handle.family)
                        => jar'.handle.gen > jar.handle.gen
<1>1. Custody /\ [Next]_vars => [Forward]_jar
  <2> SUFFICES ASSUME Custody, [Next]_vars, jar' # jar PROVE Forward
    OBVIOUS
  <2>1. PICK r \in Requests : Deliver(r)
    BY DEF Next, vars, Send, Enter, EnterMutate, EnterRead, EnterStatus,
       EnterLogout, EnterCallback, Entering, Serve, RefreshAnswered,
       RefreshAnswerLost, RefreshRefused, RefreshUnavailable, Refreshing,
       DelegateGranted, DelegateFailed, Delegating, MutationSucceeds,
       MutationRejected, MutationUnanswered, ReadAnswered, CallbackProjected,
       Calling, StatusResolved, CallbackExchanged, Logout, Timeout, Lose,
       Revoke, Tick
  <2>2. CASE jar' = NoCookie
    BY <2>2
  <2>3. CASE jar' # NoCookie
    <3>1. jar' = reply[r].set /\ fresh[r] # NoHandle /\ jar'.handle = fresh[r].handle
      BY <2>1, <2>3 DEF Deliver, Custody, Typed, PhaseOK
    <3>2. jar # NoCookie /\ jar.handle.family = jar'.handle.family
            => jar.handle.gen < jar'.handle.gen
      BY <3>1 DEF Custody, SingleCustody
    <3>3. fresh[r].handle.gen \in Nat /\ (jar # NoCookie => jar.handle.gen \in Nat)
      BY <3>1, Shapes DEF Custody
    <3>4. QED
      BY <3>1, <3>2, <3>3
  <2>4. QED
    BY <2>2, <2>3
<1>2. QED
  BY CustodyHolds, <1>1, PTL DEF Spec, CookieNeverGoesBack

-----------------------------------------------------------------------------
(* The session implements SingleUseHandle.  A step of the session that leaves
   handles, jar and cookies carried alone is a stutter there; by custody a call of
   refresh that takes effect spends the one copy there is to spend, and a delivery
   brings home what its request has. *)

\* The places in terms of one family.
LEMMA Places ==
  ASSUME Custody, NEW f \in Families
  PROVE  /\ f \in AtHome <=> /\ f \in opened /\ jar # NoCookie
                             /\ jar.handle.family = f /\ jar.handle.gen = gen[f]
         /\ \A r \in Requests :
              /\ r \in InCustody[f] <=> /\ fresh[r] # NoHandle
                                        /\ fresh[r].handle.family = f
              /\ r \in CarriedAway[f] <=> /\ sent[r] # NoCookie
                                          /\ sent[r].handle.family = f
                                          /\ sent[r].handle.gen = gen[f]
<1>1. \A h \in Handle : h = Newest(f) <=> h.family = f /\ h.gen = gen[f]
  BY Sentinels DEF Newest, Handle, Custody, Typed, TypeOK
<1>2. \A r \in Requests : fresh[r] # NoHandle /\ fresh[r].handle.family = f
                            => fresh[r].handle.gen = gen[f]
  BY DEF Custody, SingleCustody
<1>3. QED
  BY <1>1, <1>2, Shapes DEF AtHome, InCustody, CarriedAway, Custody

LEMMA InitRefines == Init => Handles!Init
<1> SUFFICES ASSUME Init PROVE Handles!Init
  OBVIOUS
<1>1. Custody
  BY InitCustody
<1>2. /\ opened \subseteq Families /\ \A f, g \in opened : f = g
      /\ \A f \in opened : jar # NoCookie /\ jar.handle.family = f
                           /\ jar.handle.gen = gen[f]
      /\ \A r \in Requests : fresh[r] = NoHandle /\ sent[r] = NoCookie
  BY DEF Init, InitialCookies
<1>3. AtHome = opened
  BY <1>1, <1>2, Places DEF AtHome
<1>4. InCustody = [f \in Families |-> {}] /\ CarriedAway = [f \in Families |-> {}]
  BY <1>2 DEF InCustody, CarriedAway
<1>5. (jar # NoCookie) \in BOOLEAN /\ (AtHome # {} => jar # NoCookie)
  BY DEF AtHome
<1>6. QED
  BY <1>2, <1>3, <1>4, <1>5 DEF Handles!Init

LEMMA StutterRefines ==
  ASSUME UNCHANGED <<gen, opened, jar, sent, fresh>>
  PROVE  UNCHANGED Handles!handleVars
BY DEF Handles!handleVars, AtHome, InCustody, CarriedAway, Newest

LEMMA SendRefines ==
  ASSUME Custody, NEW r \in Requests, NEW k \in Traffic, Send(r, k)
  PROVE  Handles!Leave(r)
<1>1. Custody'
  BY NextCustody DEF Next
<1>2. /\ UNCHANGED <<gen, opened, jar, fresh>> /\ sent'[r] = jar
      /\ \A q \in Requests \ {r} : sent'[q] = sent[q]
  BY DEF Send, auth, Custody, Typed, TypeOK
<1>3. AtHome' = AtHome /\ InCustody' = InCustody
  BY <1>2 DEF AtHome, InCustody, Newest
<1>4. ASSUME NEW f \in Families
      PROVE  CarriedAway'[f] = IF f \in AtHome THEN CarriedAway[f] \cup {r}
                               ELSE CarriedAway[f] \ {r}
  <2>1. jar # NoCookie /\ jar.handle.family = f => f \in opened
    BY DEF Custody, CookiesKnown
  <2>2. r \in CarriedAway'[f] <=> f \in AtHome
    BY <1>2, <2>1 DEF CarriedAway, AtHome, Newest
  <2>3. \A q \in Requests \ {r} : q \in CarriedAway'[f] <=> q \in CarriedAway[f]
    BY <1>2 DEF CarriedAway, Newest
  <2>4. CarriedAway[f] \subseteq Requests /\ CarriedAway'[f] \subseteq Requests
    BY DEF CarriedAway
  <2>5. QED
    BY <2>2, <2>3, <2>4
<1>5. CarriedAway' = [f \in Families |-> IF f \in AtHome THEN CarriedAway[f] \cup {r}
                                         ELSE CarriedAway[f] \ {r}]
  BY <1>4 DEF CarriedAway
<1>6. QED
  BY <1>2, <1>3, <1>5 DEF Handles!Leave

\* A call of refresh that takes effect, whether its answer is read or not.
LEMMA RotateRefines ==
  ASSUME Custody, NEW r \in Requests, sent[r] # NoCookie, fresh[r] = NoHandle,
         Rotate(sent[r].handle), UNCHANGED <<opened, jar, sent>>,
         \A q \in Requests \ {r} : fresh'[q] = fresh[q],
         \/ fresh'[r] = NoHandle
         \/ fresh'[r] # NoHandle /\ fresh'[r].handle = Rotated(sent[r].handle)
  PROVE  Handles!Spend(r, sent[r].handle.family)
<1> DEFINE h == sent[r].handle
           f == h.family
<1>1. h \in Handle /\ f \in Families /\ h.gen = gen[f] /\ gen[f] \in Nat
  BY Shapes DEF Custody, Rotate, Live
<1>2. gen'[f] = gen[f] + 1 /\ \A g \in Families \ {f} : gen'[g] = gen[g]
  BY <1>1 DEF Rotate, Custody, Typed, TypeOK
<1>3. h = Newest(f) /\ Rotated(h) = [family |-> f, gen |-> gen'[f]]
  BY <1>1, <1>2 DEF Newest, Handle, Rotated
<1>4. \A c \in {jar} \cup {sent[q] : q \in Requests} :
        c # NoCookie => c.handle # [family |-> f, gen |-> gen[f] + 1]
  BY <1>1, Shapes DEF Custody, CookiesKnown
<1>5. \A q \in Requests : fresh[q] # NoHandle => fresh[q].handle.family # f
  BY LiveHandleIsFree DEF Rotate
<1>6. r \in CarriedAway[f]
  BY <1>1, <1>3 DEF CarriedAway
<1>7. AtHome' = AtHome \ {f}
  BY <1>1, <1>2, <1>4 DEF AtHome, Newest, Custody, Typed, TypeOK
<1>8. CarriedAway' = [CarriedAway EXCEPT ![f] = {}]
  <2>1. CarriedAway'[f] = {}
    BY <1>1, <1>2, <1>4 DEF CarriedAway, Newest
  <2>2. \A g \in Families \ {f} : CarriedAway'[g] = CarriedAway[g]
    BY <1>2 DEF CarriedAway, Newest
  <2>3. QED
    BY <1>1, <2>1, <2>2 DEF CarriedAway
<1>9. \E after \in {{r}, {}} : InCustody' = [InCustody EXCEPT ![f] = after]
  <2>1. \A q \in Requests \ {r} : q \notin InCustody'[f]
    BY <1>1, <1>5 DEF InCustody, Newest
  <2>2. InCustody'[f] \in {{r}, {}}
    BY <1>1, <2>1 DEF InCustody
  <2>3. \A g \in Families \ {f} : InCustody'[g] = InCustody[g]
    <3> SUFFICES ASSUME NEW g \in Families \ {f}, NEW q \in Requests
                 PROVE  q \in InCustody'[g] <=> q \in InCustody[g]
      BY DEF InCustody
    <3>1. CASE q = r
      <4>1. fresh'[r] # NoHandle => fresh'[r].handle.family = f
        BY <1>3
      <4>2. QED
        BY <3>1, <4>1 DEF InCustody, Newest
    <3>2. CASE q # r
      BY <1>2, <3>2 DEF InCustody, Newest
    <3>3. QED
      BY <3>1, <3>2
  <2>4. PICK after \in {{r}, {}} : InCustody'[f] = after
    BY <2>2
  <2>5. InCustody' = [InCustody EXCEPT ![f] = after]
    BY <1>1, <2>3, <2>4 DEF InCustody
  <2>6. QED
    BY <2>5
<1>10. QED
  BY <1>6, <1>7, <1>8, <1>9 DEF Handles!Spend

LEMMA RefreshRefines ==
  ASSUME Custody, NEW r \in Requests,
         \/ RefreshAnswered(r) \/ RefreshAnswerLost(r)
         \/ RefreshRefused(r) \/ RefreshUnavailable(r)
  PROVE  \/ UNCHANGED Handles!handleVars
         \/ \E f \in Families : Handles!Spend(r, f)
<1>1. Refreshing(r) /\ sent[r] # NoCookie /\ fresh[r] = NoHandle
      /\ UNCHANGED <<opened, jar, sent>>
  BY DEF RefreshAnswered, RefreshAnswerLost, RefreshRefused, RefreshUnavailable,
         Refreshing, Custody, Typed, PhaseOK
<1>2. CASE RefreshRefused(r) \/ RefreshUnavailable(r)
  BY <1>1, <1>2, StutterRefines DEF RefreshRefused, RefreshUnavailable
<1>3. CASE RefreshAnswered(r) \/ RefreshAnswerLost(r)
  <2>1. Rotate(sent[r].handle)
    BY <1>3 DEF RefreshAnswered, RefreshAnswerLost
  <2>2. \A q \in Requests \ {r} : fresh'[q] = fresh[q]
    BY <1>3 DEF RefreshAnswered, RefreshAnswerLost, Custody, Typed, TypeOK
  <2>3. \/ fresh'[r] = NoHandle
        \/ fresh'[r] # NoHandle /\ fresh'[r].handle = Rotated(sent[r].handle)
    BY <1>1, <1>3 DEF RefreshAnswered, RefreshAnswerLost, Custody, Typed, TypeOK
  <2>4. sent[r].handle.family \in Families
    BY <1>1, Shapes DEF Custody
  <2>5. QED
    BY <1>1, <2>1, <2>2, <2>3, <2>4, RotateRefines
<1>4. QED
  BY <1>2, <1>3

LEMMA ExchangeRefines ==
  ASSUME Custody, NEW r \in Requests, CallbackExchanged(r)
  PROVE  \/ UNCHANGED Handles!handleVars
         \/ \E f \in Families : Handles!Open(r, f)
<1>1. fresh[r] = NoHandle /\ UNCHANGED <<gen, jar, sent>>
  BY DEF CallbackExchanged, Custody, Typed, PhaseOK
<1>2. CASE UNCHANGED <<opened, fresh>>
  BY <1>1, <1>2, StutterRefines
<1>3. ASSUME NEW f \in Families \ opened, opened' = opened \cup {f},
             fresh' = [fresh EXCEPT ![r] =
               [handle |-> [family |-> f, gen |-> 0], user |-> Owner[f]]]
      PROVE  Handles!Open(r, f)
  <2>1. gen[f] = 0 /\ \A q \in Requests :
                        fresh[q] # NoHandle => fresh[q].handle.family # f
    BY DEF Custody, CookiesKnown, SingleCustody
  <2>2. /\ fresh'[r] = [handle |-> [family |-> f, gen |-> 0], user |-> Owner[f]]
        /\ \A q \in Requests \ {r} : fresh'[q] = fresh[q]
    BY <1>3 DEF Custody, Typed, TypeOK
  <2>3. jar # NoCookie => jar.handle.family \in opened
    BY DEF Custody, CookiesKnown
  <2>4. AtHome' = AtHome
    BY <1>1, <1>3, <2>3 DEF AtHome, Newest
  <2>5. CarriedAway' = CarriedAway
    BY <1>1 DEF CarriedAway, Newest
  <2>6. fresh'[r] # NoHandle
    <3>1. fresh'[r] \in Refreshed
      BY <2>1, <2>2, Sentinels DEF Refreshed, Handle, Custody, Typed, TypeOK
    <3>2. QED
      BY <3>1, Sentinels
  <2>7. InCustody'[f] = {r}
    BY <1>1, <2>1, <2>2, <2>6 DEF InCustody, Newest
  <2>8. \A g \in Families \ {f} : InCustody'[g] = InCustody[g]
    BY <1>1, <2>2 DEF InCustody, Newest
  <2>9. InCustody' = [InCustody EXCEPT ![f] = {r}]
    BY <2>7, <2>8 DEF InCustody
  <2>10. QED
    BY <1>1, <1>3, <2>4, <2>5, <2>9 DEF Handles!Open
<1>4. QED
  BY <1>2, <1>3 DEF CallbackExchanged

\* A dropped handler loses what it had; its refresh may still take effect.
LEMMA TimeoutRefines ==
  ASSUME Custody, NEW r \in Requests, Timeout(r)
  PROVE  Handles!GiveUp(r) \/ \E f \in Families : Handles!Spend(r, f)
<1>1. /\ UNCHANGED <<jar, sent, opened>>
      /\ fresh'[r] = NoHandle
      /\ \A q \in Requests \ {r} : fresh'[q] = fresh[q]
  BY DEF Timeout, OrphanedCall, auth, Custody, Typed, TypeOK
<1>2. CASE UNCHANGED gen
  <2>1. AtHome' = AtHome /\ CarriedAway' = CarriedAway
    BY <1>1, <1>2 DEF AtHome, CarriedAway, Newest
  <2>2. InCustody' = [f \in Families |-> InCustody[f] \ {r}]
    BY <1>1, <1>2 DEF InCustody, Newest
  <2>3. QED
    BY <1>1, <2>1, <2>2 DEF Handles!GiveUp, Handles!Without
<1>3. CASE pc[r] = "refresh" /\ Rotate(sent[r].handle)
  <2>1. sent[r] # NoCookie /\ fresh[r] = NoHandle
    BY <1>3 DEF Custody, Typed, PhaseOK
  <2>2. sent[r].handle.family \in Families
    BY <2>1, Shapes DEF Custody
  <2>3. QED
    BY <1>1, <1>3, <2>1, <2>2, RotateRefines
<1>4. QED
  BY <1>2, <1>3 DEF Timeout, OrphanedCall, auth

\* A response that is delivered or lost ends its request.
LEMMA FinishRefines ==
  ASSUME Custody, NEW r \in Requests, Deliver(r) \/ Lose(r)
  PROVE  Handles!Return(r) \/ Handles!Clear(r) \/ Handles!Discard(r)
<1>1. /\ UNCHANGED <<gen, opened>>
      /\ fresh'[r] = NoHandle /\ sent'[r] = NoCookie
      /\ \A q \in Requests \ {r} : fresh'[q] = fresh[q] /\ sent'[q] = sent[q]
  BY DEF Deliver, Lose, Finish, auth, Custody, Typed, TypeOK
<1>2. Handles!End(r)
  <2>1. InCustody' = [f \in Families |-> InCustody[f] \ {r}]
    BY <1>1 DEF InCustody, Newest
  <2>2. CarriedAway' = [f \in Families |-> CarriedAway[f] \ {r}]
    BY <1>1 DEF CarriedAway, Newest
  <2>3. QED
    BY <1>1, <2>1, <2>2 DEF Handles!End, Handles!Without
<1>3. CASE jar' = jar
  BY <1>1, <1>2, <1>3 DEF Handles!Discard, AtHome, Newest
<1>4. CASE jar' = NoCookie
  BY <1>2, <1>4 DEF Handles!Clear, AtHome
<1>5. CASE Deliver(r) /\ reply[r].set \notin {Keep, NoCookie}
  <2>1. jar' = reply[r].set /\ jar' # NoCookie
        /\ fresh[r] # NoHandle /\ jar'.handle = fresh[r].handle
    BY <1>5 DEF Deliver, Custody, Typed, PhaseOK
  <2>2. fresh[r].handle \in Handle /\ fresh[r].handle.family \in opened
        /\ fresh[r].handle.gen = gen[fresh[r].handle.family]
    BY <2>1, Shapes DEF Custody, SingleCustody
  <2>3. opened \subseteq Families
    BY DEF Custody, Typed, TypeOK
  <2>4. fresh[r].handle = Newest(fresh[r].handle.family)
    BY <2>2 DEF Newest, Handle
  <2>5. Handles!Held(r) = {f \in Families : fresh[r].handle = Newest(f)}
    BY <2>1 DEF Handles!Held, InCustody
  <2>6. AtHome' = {f \in opened : fresh[r].handle = Newest(f)}
    BY <1>1, <2>1 DEF AtHome, Newest
  <2>7. \A f \in Families : fresh[r].handle = Newest(f) => f \in opened
    BY <2>2 DEF Newest
  <2>8. Handles!Held(r) # {} /\ AtHome' = Handles!Held(r)
    BY <2>2, <2>3, <2>4, <2>5, <2>6, <2>7
  <2>9. QED
    BY <1>2, <2>1, <2>8 DEF Handles!Return
<1>6. QED
  BY <1>3, <1>4, <1>5 DEF Deliver, Lose

LEMMA StepRefines == Custody /\ [Next]_vars => [Handles!Next]_Handles!handleVars
<1> SUFFICES ASSUME Custody, [Next]_vars
             PROVE  Handles!Next \/ UNCHANGED Handles!handleVars
  OBVIOUS
<1>1. ASSUME NEW r \in Requests, NEW k \in Traffic, Send(r, k)
      PROVE  Handles!Next
  BY <1>1, SendRefines DEF Handles!Next
<1>2. ASSUME NEW r \in Requests, Enter(r)
      PROVE  UNCHANGED Handles!handleVars
  <2>1. UNCHANGED <<gen, opened, jar, sent, fresh>>
    BY <1>2 DEF Enter, EnterMutate, EnterRead, EnterStatus, EnterLogout,
       EnterCallback, Entering, auth
  <2>2. QED
    BY <2>1, StutterRefines
<1>3. ASSUME NEW r \in Requests, Serve(r)
      PROVE  Handles!Next \/ UNCHANGED Handles!handleVars
  <2>1. \/ \/ RefreshAnswered(r) \/ RefreshAnswerLost(r)
           \/ RefreshRefused(r) \/ RefreshUnavailable(r)
        \/ CallbackExchanged(r)
        \/ UNCHANGED <<gen, opened, jar, sent, fresh>>
    BY <1>3 DEF Serve, DelegateGranted, DelegateFailed, Delegating,
       MutationSucceeds, MutationRejected, MutationUnanswered, ReadAnswered,
       CallbackProjected, Calling, StatusResolved, Logout, auth
  <2>2. QED
    BY <2>1, StutterRefines, RefreshRefines, ExchangeRefines DEF Handles!Next
<1>4. ASSUME NEW r \in Requests, Timeout(r)
      PROVE  Handles!Next
  BY <1>4, TimeoutRefines DEF Handles!Next
<1>5. ASSUME NEW r \in Requests, Deliver(r) \/ Lose(r)
      PROVE  Handles!Next
  BY <1>5, FinishRefines DEF Handles!Next
<1>6. CASE Tick \/ (\E f \in Families : Revoke(f)) \/ UNCHANGED vars
  <2>1. UNCHANGED <<gen, opened, jar, sent, fresh>>
    BY <1>6 DEF Tick, Revoke, vars, auth
  <2>2. QED
    BY <2>1, StutterRefines
<1>7. QED
  BY <1>1, <1>2, <1>3, <1>4, <1>5, <1>6 DEF Next

\* The session, its signed cookies and timeouts included, implements the custody
\* of a single-use handle: every behaviour of browser_auth.rs is one of it.
THEOREM SessionImplementsHandleCustody == Spec => HandleIsSingleUse
<1>1. Init => Handles!Init
  BY InitRefines
<1>2. QED
  BY InitCustody, NextCustody, <1>1, StepRefines, PTL
     DEF Spec, HandleIsSingleUse, Handles!Spec

-----------------------------------------------------------------------------
(* The browser is not stranded. *)

Reachable == Custody /\ SessionNotStranded

\* A step that leaves the jar alone and rotates nothing strands nobody if the
\* one request it moves still carries what it carried, or reports it lost.
LEMMA JarStaysReachable ==
  ASSUME Reachable, NEW r \in Requests, UNCHANGED <<jar, gen>>,
         \A f \in Families : revokedAt'[f] = revokedAt[f] \/ revokedAt'[f] # Never,
         stranded \subseteq stranded',
         \A q \in Requests \ {r} : /\ fresh'[q] = fresh[q] /\ pc'[q] = pc[q]
                                   /\ reply'[q] = reply[q],
         \/ fresh[r] = NoHandle
         \/ fresh'[r] = fresh[r] /\ (pc'[r] = "reply" => reply'[r].set # Keep)
         \/ fresh[r].handle.family \in stranded'
  PROVE  SessionNotStranded'
<1> SUFFICES ASSUME jar # NoCookie
             PROVE  LET f == jar.handle.family IN
                    \/ Live(jar.handle)' \/ Revoked(f)' \/ f \in stranded'
                    \/ \E q \in Requests : Carries(q, f)'
  BY DEF SessionNotStranded
<1> DEFINE f == jar.handle.family
<1>1. f \in Families
  BY Shapes DEF Reachable, Custody
<1>2. CASE Live(jar.handle) \/ Revoked(f)
  BY <1>1, <1>2 DEF Live, Revoked
<1>3. CASE f \in stranded
  BY <1>3
<1>4. ASSUME NEW q \in Requests, Carries(q, f)
      PROVE  Carries(q, f)' \/ f \in stranded'
  <2>1. fresh[q] # NoHandle /\ fresh[q].handle.family = f
    BY <1>4 DEF Carries
  <2>2. CASE q = r
    BY <1>4, <2>1, <2>2 DEF Carries
  <2>3. CASE q # r
    BY <1>4, <2>3 DEF Carries
  <2>4. QED
    BY <2>2, <2>3
<1>5. QED
  BY <1>2, <1>3, <1>4 DEF Reachable, SessionNotStranded

\* A refresh that takes effect leaves its family carried or reported lost.
LEMMA RotationStaysReachable ==
  ASSUME Reachable, NEW r \in Requests, sent[r] # NoCookie, fresh[r] = NoHandle,
         Rotate(sent[r].handle), UNCHANGED <<jar, revokedAt>>,
         stranded \subseteq stranded',
         \A q \in Requests \ {r} : /\ fresh'[q] = fresh[q] /\ pc'[q] = pc[q]
                                   /\ reply'[q] = reply[q],
         \/ sent[r].handle.family \in stranded'
         \/ /\ fresh'[r] # NoHandle /\ pc'[r] # "reply"
            /\ fresh'[r].handle = Rotated(sent[r].handle)
  PROVE  SessionNotStranded'
<1> DEFINE h == sent[r].handle
           f == h.family
<1>1. h \in Handle /\ f \in Families /\ h.gen = gen[f]
  BY Shapes DEF Reachable, Custody, Rotate, Live
<1>2. gen'[f] = gen[f] + 1 /\ \A g \in Families \ {f} : gen'[g] = gen[g]
  BY <1>1 DEF Rotate, Reachable, Custody, Typed, TypeOK
<1>3. Rotated(h) = [family |-> f, gen |-> gen'[f]]
  BY <1>1, <1>2 DEF Rotated, Handle
<1> SUFFICES ASSUME jar # NoCookie
             PROVE  LET g == jar.handle.family IN
                    \/ Live(jar.handle)' \/ Revoked(g)' \/ g \in stranded'
                    \/ \E q \in Requests : Carries(q, g)'
  BY DEF SessionNotStranded
<1> DEFINE g == jar.handle.family
<1>4. g \in Families
  BY Shapes DEF Reachable, Custody
<1>5. CASE g = f
  BY <1>3, <1>5 DEF Carries
<1>6. CASE g # f
  <2>1. Live(jar.handle) => Live(jar.handle)'
    BY <1>2, <1>4, <1>6 DEF Live, Revoked
  <2>2. Revoked(g) => Revoked(g)'
    BY DEF Revoked
  <2>3. ASSUME NEW q \in Requests, Carries(q, g) PROVE Carries(q, g)'
    <3>1. q # r
      BY <2>3 DEF Carries
    <3>2. QED
      BY <1>2, <1>4, <1>6, <2>3, <3>1 DEF Carries
  <2>4. QED
    BY <2>1, <2>2, <2>3 DEF Reachable, SessionNotStranded
<1>7. QED
  BY <1>5, <1>6

\* Only the request that moves is disturbed.
LEMMA OthersAnswer ==
  ASSUME Typed, NEW r \in Requests, NEW o, NEW c, NEW s, Answer(r, o, c, s)
  PROVE  /\ pc'[r] = "reply" /\ reply'[r].set = s
         /\ reply'[r].outcome = o /\ reply'[r].code = c
         /\ \A q \in Requests \ {r} : pc'[q] = pc[q] /\ reply'[q] = reply[q]
BY DEF Typed, TypeOK, Answer, Go

LEMMA OthersGo ==
  ASSUME Typed, NEW r \in Requests, NEW p, Go(r, p)
  PROVE  pc'[r] = p /\ \A q \in Requests \ {r} : pc'[q] = pc[q]
BY DEF Typed, TypeOK, Go

LEMMA RefreshStaysReachable ==
  ASSUME Reachable, NEW r \in Requests,
         \/ RefreshAnswered(r) \/ RefreshAnswerLost(r)
         \/ RefreshRefused(r) \/ RefreshUnavailable(r)
  PROVE  SessionNotStranded'
<1>1. /\ Typed /\ fresh[r] = NoHandle /\ sent[r] # NoCookie
      /\ UNCHANGED <<jar, revokedAt, sent>>
  BY DEF RefreshAnswered, RefreshAnswerLost, RefreshRefused, RefreshUnavailable,
         Refreshing, Reachable, Custody, Typed, PhaseOK
<1>2. ASSUME NEW c \in {400, 401, 502}, AuthFailed(r, c, Keep)
      PROVE  \A q \in Requests \ {r} : pc'[q] = pc[q] /\ reply'[q] = reply[q]
  BY <1>1, <1>2, AuthFailedAnswers, OthersAnswer
<1>3. CASE RefreshRefused(r) \/ RefreshUnavailable(r)
  <2>1. UNCHANGED <<gen, fresh, stranded>>
    BY <1>3 DEF RefreshRefused, RefreshUnavailable
  <2>2. \A q \in Requests \ {r} : pc'[q] = pc[q] /\ reply'[q] = reply[q]
    BY <1>2, <1>3 DEF RefreshRefused, RefreshUnavailable
  <2>3. QED
    BY <1>1, <2>1, <2>2, JarStaysReachable
<1>4. ASSUME Rotate(sent[r].handle), UNCHANGED fresh, AuthFailed(r, 401, Keep) \/ AuthFailed(r, 502, Keep),
             stranded' = stranded \cup {sent[r].handle.family}
      PROVE  SessionNotStranded'
  <2>1. \A q \in Requests \ {r} : pc'[q] = pc[q] /\ reply'[q] = reply[q]
    BY <1>2, <1>4
  <2>2. QED
    BY <1>1, <1>4, <2>1, RotationStaysReachable
<1>5. ASSUME Rotate(sent[r].handle), Go(r, "delegate"), UNCHANGED <<reply, stranded>>,
             fresh' = [fresh EXCEPT ![r] =
                         [handle |-> Rotated(sent[r].handle), user |-> sent[r].user]]
      PROVE  SessionNotStranded'
  <2>1. pc'[r] = "delegate" /\ \A q \in Requests \ {r} : pc'[q] = pc[q]
    BY <1>1, <1>5, OthersGo
  <2>2. fresh'[r] = [handle |-> Rotated(sent[r].handle), user |-> sent[r].user]
        /\ \A q \in Requests \ {r} : fresh'[q] = fresh[q]
    BY <1>1, <1>5 DEF Typed, TypeOK
  <2>3. fresh'[r] # NoHandle
    <3>1. sent[r] \in Cookie /\ sent[r].handle \in Handle /\ sent[r].user \in Users
      BY <1>1 DEF Typed, TypeOK, Cookie
    <3>2. Rotated(sent[r].handle) \in Handle
      BY <1>1, <1>5, <3>1, Sentinels
      DEF Rotate, Live, Rotated, Handle, Typed, TypeOK
    <3>3. fresh'[r] \in Refreshed
      BY <2>2, <3>1, <3>2 DEF Refreshed
    <3>4. QED
      BY <3>3, Sentinels
  <2>4. QED
    BY <1>1, <1>5, <2>1, <2>2, <2>3, RotationStaysReachable
<1>6. QED
  BY <1>3, <1>4, <1>5 DEF RefreshAnswered, RefreshAnswerLost

\* Once a request has custody, whatever it answers brings the handle home,
\* deletes the cookie, or reports the family lost.
LEMMA DelegateStaysReachable ==
  ASSUME Reachable, NEW r \in Requests, DelegateGranted(r) \/ DelegateFailed(r)
  PROVE  SessionNotStranded'
<1>1. /\ Typed /\ fresh[r] # NoHandle
      /\ UNCHANGED <<jar, gen, revokedAt, fresh>>
  BY DEF DelegateGranted, DelegateFailed, Delegating, auth, Reachable, Custody,
         Typed, PhaseOK
<1>2. CASE DelegateGranted(r)
  <2>1. pc'[r] # "reply" /\ \A q \in Requests \ {r} : pc'[q] = pc[q]
    BY <1>1, <1>2, OthersGo DEF DelegateGranted
  <2>2. QED
    BY <1>1, <1>2, <2>1, JarStaysReachable DEF DelegateGranted
<1>3. ASSUME NEW c \in {400, 401, 502}, Answer(r, "Failed", c, Keep), Strand(r)
      PROVE  SessionNotStranded'
  <2>1. fresh[r].handle.family \in stranded' /\ stranded \subseteq stranded'
    BY <1>1, <1>3 DEF Strand
  <2>2. \A q \in Requests \ {r} : pc'[q] = pc[q] /\ reply'[q] = reply[q]
    BY <1>1, <1>3, OthersAnswer
  <2>3. QED
    BY <1>1, <2>1, <2>2, JarStaysReachable
<1>4. ASSUME NEW c \in {400, 401, 502}, AuthFailed(r, c, RotatedSession(r, Never)),
             UNCHANGED stranded
      PROVE  SessionNotStranded'
  <2>1. RotatedSession(r, Never) # Keep
    BY <1>1, RotatedSessionType, Sentinels DEF Typed
  <2>2. /\ reply'[r].set # Keep
        /\ \A q \in Requests \ {r} : pc'[q] = pc[q] /\ reply'[q] = reply[q]
    BY <1>1, <1>4, <2>1, AuthFailedAnswers, OthersAnswer, Sentinels
  <2>3. QED
    BY <1>1, <1>4, <2>2, JarStaysReachable
<1>5. QED
  BY <1>2, <1>3, <1>4 DEF DelegateFailed

LEMMA CallStaysReachable ==
  ASSUME Reachable, NEW r \in Requests,
         \/ MutationSucceeds(r) \/ MutationRejected(r) \/ MutationUnanswered(r)
         \/ ReadAnswered(r) \/ CallbackProjected(r) \/ StatusResolved(r)
  PROVE  SessionNotStranded'
<1>1. Typed /\ UNCHANGED <<jar, gen, revokedAt, fresh>>
  BY DEF MutationSucceeds, MutationRejected, MutationUnanswered, ReadAnswered,
         CallbackProjected, StatusResolved, Calling, auth, Reachable, Custody
<1>2. ASSUME NEW o, NEW c, NEW s, Answer(r, o, c, s), stranded \subseteq stranded',
             \/ s # Keep \/ fresh[r] = NoHandle
             \/ fresh[r].handle.family \in stranded'
      PROVE  SessionNotStranded'
  <2>1. /\ reply'[r].set = s
        /\ \A q \in Requests \ {r} : pc'[q] = pc[q] /\ reply'[q] = reply[q]
    BY <1>1, <1>2, OthersAnswer
  <2>2. QED
    BY <1>1, <1>2, <2>1, JarStaysReachable
<1>3. CASE CallbackProjected(r)
  <2>1. fresh[r] # NoHandle /\ now \in Time
    BY <1>1, <1>3 DEF CallbackProjected, Calling, Typed, TypeOK, PhaseOK
  <2>2. RotatedSession(r, now) # Keep
    BY <1>1, <2>1, RotatedSessionType, Sentinels DEF Typed
  <2>3. QED
    BY <1>2, <1>3, <2>1, <2>2 DEF CallbackProjected, Strand
<1>4. CASE StatusResolved(r)
  <2>1. held[r] # Keep \/ fresh[r] = NoHandle
    BY <1>1, <1>4 DEF StatusResolved, Typed, PhaseOK
  <2>2. QED
    BY <1>2, <1>4, <2>1 DEF StatusResolved, past
<1>5. CASE \/ MutationSucceeds(r) \/ MutationRejected(r) \/ MutationUnanswered(r)
           \/ ReadAnswered(r)
  <2>1. held[r] # Keep
    BY <1>1, <1>5 DEF MutationSucceeds, MutationRejected, MutationUnanswered,
       ReadAnswered, Calling, Typed, PhaseOK
  <2>2. QED
    BY <1>2, <1>5, <2>1 DEF MutationSucceeds, MutationRejected,
       MutationUnanswered, ReadAnswered
<1>6. QED
  BY <1>3, <1>4, <1>5

LEMMA TimeoutStaysReachable ==
  ASSUME Reachable, NEW r \in Requests, Timeout(r)
  PROVE  SessionNotStranded'
<1>1. /\ Typed /\ UNCHANGED jar
      /\ \A q \in Requests \ {r} : /\ fresh'[q] = fresh[q] /\ pc'[q] = pc[q]
                                   /\ reply'[q] = reply[q]
  BY OthersAnswer DEF Timeout, Reachable, Custody, Typed, TypeOK
<1>2. now # Never
  BY <1>1, SentinelsAssumption DEF Typed, TypeOK, Time
<1>3. CASE pc[r] = "refresh" /\ Rotate(sent[r].handle)
           /\ stranded' = stranded \cup {sent[r].handle.family}
           /\ UNCHANGED revokedAt
  <2>1. sent[r] # NoCookie /\ fresh[r] = NoHandle
    BY <1>1, <1>3 DEF Typed, PhaseOK
  <2>2. QED
    BY <1>1, <1>3, <2>1, RotationStaysReachable
<1>4. CASE UNCHANGED gen /\ Strand(r)
  <2>1. /\ stranded \subseteq stranded'
        /\ fresh[r] = NoHandle \/ fresh[r].handle.family \in stranded'
    BY <1>4 DEF Strand
  <2>2. \A f \in Families : revokedAt'[f] = revokedAt[f] \/ revokedAt'[f] # Never
    BY <1>1, <1>2 DEF Timeout, OrphanedCall, auth, Typed, TypeOK
  <2>3. QED
    BY <1>1, <1>4, <2>1, <2>2, JarStaysReachable
<1>5. QED
  BY <1>3, <1>4 DEF Timeout, OrphanedCall, auth

LEMMA FinishStaysReachable ==
  ASSUME Reachable, NEW r \in Requests, Deliver(r) \/ Lose(r)
  PROVE  SessionNotStranded'
<1>1. /\ Typed /\ pc[r] = "reply" /\ UNCHANGED <<gen, revokedAt>>
      /\ \A q \in Requests \ {r} : /\ fresh'[q] = fresh[q] /\ pc'[q] = pc[q]
                                   /\ reply'[q] = reply[q]
  BY DEF Deliver, Lose, Finish, Go, auth, Reachable, Custody, Typed, TypeOK
<1>2. CASE Lose(r)
  <2>1. /\ UNCHANGED jar /\ stranded \subseteq stranded'
        /\ fresh[r] = NoHandle \/ fresh[r].handle.family \in stranded'
    BY <1>2 DEF Lose, Strand
  <2>2. QED
    BY <1>1, <2>1, JarStaysReachable
<1>3. CASE Deliver(r) /\ reply[r].set \notin {Keep, NoCookie}
  <2>1. jar' = reply[r].set /\ fresh[r] # NoHandle /\ jar'.handle = fresh[r].handle
    BY <1>3 DEF Deliver, Reachable, Custody, Typed, PhaseOK
  <2>2. fresh[r].handle.gen = gen[fresh[r].handle.family]
    BY <2>1 DEF Reachable, Custody, SingleCustody
  <2>3. QED
    BY <1>1, <2>1, <2>2 DEF SessionNotStranded, Live, Revoked
<1>4. CASE Deliver(r) /\ reply[r].set = NoCookie
  BY <1>4, Sentinels DEF Deliver, SessionNotStranded
<1>5. CASE Deliver(r) /\ reply[r].set = Keep
  <2>1. UNCHANGED <<jar, stranded>>
    BY <1>5 DEF Deliver
  <2>2. ASSUME NEW q \in Requests, NEW f, Carries(q, f) PROVE Carries(q, f)'
    <3>1. q # r
      BY <1>1, <1>5, <2>2 DEF Carries
    <3>2. QED
      BY <1>1, <2>2, <3>1 DEF Carries
  <2>3. QED
    BY <1>1, <2>1, <2>2 DEF Reachable, SessionNotStranded, Live, Revoked
<1>6. QED
  BY <1>2, <1>3, <1>4, <1>5

LEMMA NextReachable == Reachable /\ [Next]_vars => Reachable'
<1> SUFFICES ASSUME Reachable, [Next]_vars PROVE SessionNotStranded'
  BY NextCustody DEF Reachable
<1>1. Typed
  BY DEF Reachable, Custody
<1>2. ASSUME NEW r \in Requests, NEW k \in Traffic, Send(r, k)
      PROVE  SessionNotStranded'
  <2>1. fresh[r] = NoHandle /\ \A q \in Requests \ {r} : pc'[q] = pc[q]
    BY <1>1, <1>2, OthersGo DEF Send, Typed, PhaseOK
  <2>2. QED
    BY <1>2, <2>1, JarStaysReachable DEF Send, auth, past
<1>3. ASSUME NEW r \in Requests, Enter(r)
      PROVE  SessionNotStranded'
  <2>1. fresh[r] = NoHandle /\ UNCHANGED <<jar, gen, revokedAt, fresh, stranded>>
    BY <1>1, <1>3 DEF Enter, EnterMutate, EnterRead, EnterStatus, EnterLogout,
       EnterCallback, Entering, auth, past, Typed, PhaseOK
  <2>2. \A q \in Requests \ {r} : pc'[q] = pc[q] /\ reply'[q] = reply[q]
    BY <1>1, <1>3, OthersAnswer, OthersGo DEF Enter, EnterMutate, EnterRead,
       EnterStatus, EnterLogout, EnterCallback
  <2>3. QED
    BY <2>1, <2>2, JarStaysReachable
<1>4. ASSUME NEW r \in Requests, CallbackExchanged(r)
      PROVE  SessionNotStranded'
  <2>1. fresh[r] = NoHandle /\ UNCHANGED <<jar, gen, revokedAt, stranded>>
        /\ \A q \in Requests \ {r} : fresh'[q] = fresh[q]
    BY <1>1, <1>4 DEF CallbackExchanged, past, Typed, TypeOK, PhaseOK
  <2>2. \A q \in Requests \ {r} : pc'[q] = pc[q] /\ reply'[q] = reply[q]
    BY <1>1, <1>4, OthersAnswer, OthersGo DEF CallbackExchanged
  <2>3. QED
    BY <2>1, <2>2, JarStaysReachable
<1>5. ASSUME NEW r \in Requests, Logout(r)
      PROVE  SessionNotStranded'
  <2>1. fresh[r] = NoHandle /\ UNCHANGED <<jar, gen, fresh, stranded>>
    BY <1>1, <1>5 DEF Logout, past, Typed, PhaseOK
  <2>2. \A f \in Families : revokedAt'[f] = revokedAt[f] \/ revokedAt'[f] # Never
    BY <1>1, <1>5, SentinelsAssumption DEF Logout, Typed, TypeOK, Time
  <2>3. \A q \in Requests \ {r} : pc'[q] = pc[q] /\ reply'[q] = reply[q]
    BY <1>1, <1>5, OthersAnswer DEF Logout
  <2>4. QED
    BY <2>1, <2>2, <2>3, JarStaysReachable
<1>6. CASE Tick \/ (\E f \in Families : Revoke(f)) \/ UNCHANGED vars
  <2>1. /\ UNCHANGED <<jar, gen, fresh, pc, reply, stranded>>
        /\ \A f \in Families : revokedAt'[f] = revokedAt[f] \/ revokedAt'[f] # Never
    BY <1>1, <1>6, SentinelsAssumption
    DEF Tick, Revoke, vars, auth, past, Typed, TypeOK, Time
  <2>2. QED
    BY <1>1, <2>1, Shapes
    DEF Reachable, SessionNotStranded, Live, Revoked, Carries
<1>7. ASSUME NEW r \in Requests, Serve(r)
      PROVE  SessionNotStranded'
  BY <1>4, <1>5, <1>7, RefreshStaysReachable, DelegateStaysReachable,
     CallStaysReachable DEF Serve
<1>8. QED
  BY <1>2, <1>3, <1>6, <1>7, TimeoutStaysReachable, FinishStaysReachable DEF Next

\* The cookie in the jar is accepted, revoked, cut off by a loss on the way, or
\* about to be replaced: overlapping requests never leave it silently dead.
THEOREM BrowserIsNotStranded == Spec => []SessionNotStranded
<1>1. Init => Reachable
  BY InitCustody DEF Init, Reachable, SessionNotStranded, Live, Revoked,
     InitialCookies
<1>2. Reachable => SessionNotStranded
  BY DEF Reachable
<1>3. QED
  BY <1>1, <1>2, NextReachable, PTL DEF Spec

-----------------------------------------------------------------------------
(* Where cookies come from. *)

\* A cookie the web tier made for the handle in r's custody in this step.
Made(r, c) ==
  /\ fresh[r] # NoHandle
  /\ c.handle = fresh[r].handle /\ c.user = fresh[r].user
  /\ c.verified \in {Never, now}
  /\ \/ c.verified = Never
     \/ pc[r] = "api"
     \/ fresh[r].handle \in proved' /\ ~Revoked(fresh[r].handle.family)

Known(c) == c \in Cookies \cup {NoCookie, Keep} \/ \E r \in Requests : Made(r, c)

LEMMA RotatedIsMade ==
  ASSUME Typed, NEW r \in Requests, fresh[r] # NoHandle,
         NEW e \in {Never, now},
         \/ e = Never
         \/ pc[r] = "api"
         \/ fresh[r].handle \in proved' /\ ~Revoked(fresh[r].handle.family)
  PROVE  Made(r, RotatedSession(r, e))
BY RotatedSessionType DEF Made, Typed, TypeOK

\* An answer adds only the cookie it sets.
LEMMA AnswerKnown ==
  ASSUME Typed, NEW r \in Requests, NEW o, NEW c, NEW s, Answer(r, o, c, s),
         Known(s), UNCHANGED <<jar, sent, held>>
  PROVE  \A x \in Cookies' : Known(x)
<1>1. \A q \in Requests : reply'[q].set = s \/ reply'[q].set = reply[q].set
  BY OthersAnswer
<1>2. QED
  BY <1>1 DEF Cookies, Known

LEMMA UnchangedKnown ==
  ASSUME UNCHANGED <<jar, sent, held, reply>>
  PROVE  \A x \in Cookies' : Known(x)
BY DEF Cookies, Known

LEMMA ServeKnown ==
  ASSUME Typed, NEW r \in Requests, Serve(r)
  PROVE  \A x \in Cookies' : Known(x)
<1>1. now \in Time
  BY DEF Typed, TypeOK
<1>2. Known(Keep) /\ Known(NoCookie) /\ Known(held[r])
  BY DEF Known, Cookies
<1>3. CASE \/ RefreshAnswered(r) \/ RefreshAnswerLost(r)
           \/ RefreshRefused(r) \/ RefreshUnavailable(r)
  <2>1. UNCHANGED <<jar, sent, held>>
    BY <1>3 DEF RefreshAnswered, RefreshAnswerLost, RefreshRefused,
       RefreshUnavailable, Refreshing
  <2>2. UNCHANGED reply \/ \E c \in {400, 401, 502} : AuthFailed(r, c, Keep)
    BY <1>3 DEF RefreshAnswered, RefreshAnswerLost, RefreshRefused, RefreshUnavailable
  <2>3. QED
    BY <1>2, <2>1, <2>2, AuthFailedAnswers, AnswerKnown, UnchangedKnown
<1>4. CASE DelegateGranted(r)
  <2>1. /\ fresh[r] # NoHandle /\ fresh[r].handle \in proved'
        /\ ~Revoked(fresh[r].handle.family)
        /\ UNCHANGED <<jar, sent, reply>>
    BY <1>4 DEF DelegateGranted, Delegating, Typed, PhaseOK
  <2>2. Made(r, RotatedSession(r, now))
    BY <1>1, <2>1, RotatedIsMade
  <2>3. \A q \in Requests :
          held'[q] \in {held[q], Keep, RotatedSession(r, now)}
    BY <1>4 DEF DelegateGranted, Typed, TypeOK
  <2>4. QED
    BY <2>1, <2>2, <2>3 DEF Cookies, Known
<1>5. CASE DelegateFailed(r)
  <2>1. fresh[r] # NoHandle /\ UNCHANGED <<jar, sent, held>>
    BY <1>5 DEF DelegateFailed, Delegating, Typed, PhaseOK
  <2>2. Known(RotatedSession(r, Never))
    BY <2>1, RotatedIsMade DEF Known
  <2>3. PICK c \in {400, 401, 502} :
          Answer(r, "Failed", c, Keep) \/ AuthFailed(r, c, RotatedSession(r, Never))
    BY <1>5 DEF DelegateFailed
  <2>4. QED
    BY <1>2, <2>1, <2>2, <2>3, AuthFailedAnswers, AnswerKnown
<1>6. CASE CallbackProjected(r)
  <2>1. fresh[r] # NoHandle /\ pc[r] = "api" /\ UNCHANGED <<jar, sent, held>>
    BY <1>6 DEF CallbackProjected, Calling, Typed, PhaseOK
  <2>2. Known(RotatedSession(r, now))
    BY <1>1, <2>1, RotatedIsMade DEF Known
  <2>3. QED
    BY <1>2, <1>6, <2>1, <2>2, AnswerKnown DEF CallbackProjected
<1>7. CASE \/ MutationSucceeds(r) \/ MutationRejected(r) \/ MutationUnanswered(r)
           \/ ReadAnswered(r) \/ StatusResolved(r) \/ Logout(r)
  <2>1. UNCHANGED <<jar, sent, held>>
    BY <1>7 DEF MutationSucceeds, MutationRejected, MutationUnanswered,
       ReadAnswered, Calling, StatusResolved, Logout
  <2>2. \E o, c : Answer(r, o, c, held[r]) \/ Answer(r, o, c, NoCookie)
    BY <1>7 DEF MutationSucceeds, MutationRejected, MutationUnanswered,
       ReadAnswered, StatusResolved, Logout
  <2>3. QED
    BY <1>2, <2>1, <2>2, AnswerKnown
<1>8. CASE CallbackExchanged(r)
  <2>1. UNCHANGED <<jar, sent, held>>
    BY <1>8 DEF CallbackExchanged
  <2>2. UNCHANGED reply \/ \E c : Answer(r, "Failed", c, Keep)
    BY <1>8 DEF CallbackExchanged
  <2>3. QED
    BY <1>2, <2>1, <2>2, AnswerKnown, UnchangedKnown
<1>9. QED
  BY <1>3, <1>4, <1>5, <1>6, <1>7, <1>8 DEF Serve

\* Every cookie was there before the step or was made from a handle in custody.
LEMMA CookiesAreMade ==
  ASSUME Typed, [Next]_vars
  PROVE  \A x \in Cookies' : Known(x)
<1>1. Known(Keep) /\ Known(NoCookie)
  BY DEF Known
<1>2. ASSUME NEW r \in Requests, NEW k \in Traffic, Send(r, k)
      PROVE  \A x \in Cookies' : Known(x)
  <2>1. UNCHANGED <<jar, held, reply>> /\ \A q \in Requests : sent'[q] \in {sent[q], jar}
    BY <1>2 DEF Send, Typed, TypeOK
  <2>2. QED
    BY <2>1 DEF Cookies, Known
<1>3. ASSUME NEW r \in Requests, Enter(r)
      PROVE  \A x \in Cookies' : Known(x)
  <2>1. UNCHANGED <<jar, sent, held>>
    BY <1>3 DEF Enter, EnterMutate, EnterRead, EnterStatus, EnterLogout,
       EnterCallback, Entering
  <2>2. UNCHANGED reply \/ \E o, c : \E s \in {Keep, NoCookie} : Answer(r, o, c, s)
    BY <1>3 DEF Enter, EnterMutate, EnterRead, EnterStatus, EnterLogout, EnterCallback
  <2>3. QED
    BY <1>1, <2>1, <2>2, AnswerKnown, UnchangedKnown
<1>4. ASSUME NEW r \in Requests, Timeout(r)
      PROVE  \A x \in Cookies' : Known(x)
  <2>1. /\ UNCHANGED <<jar, sent>>
        /\ \A q \in Requests : held'[q] \in {held[q], Keep}
        /\ \A q \in Requests : reply'[q].set \in {reply[q].set, Keep}
    BY <1>4, OthersAnswer DEF Timeout, Typed, TypeOK
  <2>2. QED
    BY <2>1 DEF Cookies, Known
<1>5. ASSUME NEW r \in Requests, Deliver(r) \/ Lose(r)
      PROVE  \A x \in Cookies' : Known(x)
  <2>1. /\ jar' \in {jar, reply[r].set}
        /\ \A q \in Requests : /\ sent'[q] \in {sent[q], NoCookie}
                               /\ held'[q] \in {held[q], Keep}
                               /\ reply'[q].set \in {reply[q].set, Keep}
    BY <1>5 DEF Deliver, Lose, Finish, NoReply, Typed, TypeOK
  <2>2. QED
    BY <2>1 DEF Cookies, Known
<1>6. CASE Tick \/ (\E f \in Families : Revoke(f)) \/ UNCHANGED vars
  <2>1. UNCHANGED <<jar, sent, held, reply>>
    BY <1>6 DEF Tick, Revoke, vars
  <2>2. QED
    BY <2>1, UnchangedKnown
<1>7. QED
  BY <1>2, <1>3, <1>4, <1>5, <1>6, ServeKnown DEF Next

-----------------------------------------------------------------------------
(* Cookies name their owner. *)

Named ==
  /\ Typed /\ CookieNamesOwner
  /\ \A r \in Requests :
       fresh[r] # NoHandle => fresh[r].user = Owner[fresh[r].handle.family]

LEMMA NextNamed == Named /\ [Next]_vars => Named'
<1> SUFFICES ASSUME Named, [Next]_vars PROVE Named'
  OBVIOUS
<1>1. Typed
  BY DEF Named
<1>2. CookieNamesOwner'
  <2>1. ASSUME NEW x \in Cookies', Known(x) PROVE x.user = Owner[x.handle.family]
    BY <2>1 DEF Named, CookieNamesOwner, Known, Made, Cookies
  <2>2. QED
    BY <1>1, <2>1, CookiesAreMade DEF CookieNamesOwner
<1>3. ASSUME NEW r \in Requests, fresh'[r] # NoHandle, fresh'[r] # fresh[r]
      PROVE  fresh'[r].user = Owner[fresh'[r].handle.family]
  <2>1. PICK q \in Requests : RefreshAnswered(q) \/ CallbackExchanged(q)
    BY <1>1, <1>3 DEF Next, vars, Send, Enter, EnterMutate, EnterRead, EnterStatus,
       EnterLogout, EnterCallback, Entering, Serve, RefreshAnswerLost,
       RefreshRefused, RefreshUnavailable, Refreshing, DelegateGranted,
       DelegateFailed, Delegating, MutationSucceeds, MutationRejected,
       MutationUnanswered, ReadAnswered, CallbackProjected, Calling,
       StatusResolved, Logout, Timeout, Deliver, Lose, Finish, Revoke, Tick,
       Typed, TypeOK
  <2>2. CASE RefreshAnswered(q)
    <3>1. fresh' = [fresh EXCEPT ![q] =
            [handle |-> Rotated(sent[q].handle), user |-> sent[q].user]]
      BY <1>3, <2>2 DEF RefreshAnswered
    <3>2. r = q /\ fresh'[r] = [handle |-> Rotated(sent[q].handle), user |-> sent[q].user]
      BY <1>1, <1>3, <3>1 DEF Typed, TypeOK
    <3>3. sent[q] \in Cookies /\ sent[q].handle \in Handle
      BY <1>1, <2>2, Sentinels
      DEF RefreshAnswered, Refreshing, Typed, TypeOK, PhaseOK, Cookies, Cookie
    <3>4. Rotated(sent[q].handle).family = sent[q].handle.family
      BY <3>3 DEF Rotated, Handle
    <3>5. QED
      BY <3>2, <3>3, <3>4 DEF Named, CookieNamesOwner
  <2>3. CASE CallbackExchanged(q)
    <3>1. PICK f \in Families : fresh' = [fresh EXCEPT ![q] =
            [handle |-> [family |-> f, gen |-> 0], user |-> Owner[f]]]
      BY <1>3, <2>3 DEF CallbackExchanged
    <3>2. QED
      BY <1>1, <1>3, <3>1 DEF Typed, TypeOK
  <2>4. QED
    BY <2>1, <2>2, <2>3
<1>4. QED
  BY <1>1, <1>2, <1>3, NextTyped DEF Named

\* Whatever refresh answers say and sign-ins overlap, a session cookie names the
\* principal Shared Auth opened its family for.
THEOREM CookiesNameTheirOwner == Spec => []CookieNamesOwner
<1>1. Init => Named
  <2> SUFFICES ASSUME Init PROVE Named
    OBVIOUS
  <2>1. Cookies \subseteq {jar} \ {NoCookie} /\ \A r \in Requests : fresh[r] = NoHandle
    BY DEF Init, Cookies, NoReply
  <2>2. jar # NoCookie => jar.user = Owner[jar.handle.family]
    BY DEF Init, InitialCookies
  <2>3. QED
    BY <2>1, <2>2, InitTyped DEF Named, CookieNamesOwner
<1>2. Named => CookieNamesOwner
  BY DEF Named
<1>3. QED
  BY <1>1, <1>2, NextNamed, PTL DEF Spec

-----------------------------------------------------------------------------
(* Stamps are evidence. *)

Earned ==
  /\ Typed /\ VerifiedIsEarned
  /\ \A r \in Requests : pc[r] = "api" => fresh[r].handle \in proved

LEMMA NextEarned == Earned /\ [Next]_vars => Earned'
<1> SUFFICES ASSUME Earned, [Next]_vars PROVE Earned'
  OBVIOUS
<1>1. Typed
  BY DEF Earned
<1>2. proved \subseteq proved'
  BY DEF Next, vars, past, Send, Enter, EnterMutate, EnterRead, EnterStatus,
     EnterLogout, EnterCallback, Entering, Serve, RefreshAnswered, RefreshAnswerLost,
     RefreshRefused, RefreshUnavailable, Refreshing, DelegateGranted,
     DelegateFailed, Delegating, MutationSucceeds, MutationRejected,
     MutationUnanswered, ReadAnswered, CallbackProjected, Calling,
     StatusResolved, CallbackExchanged, Logout, Timeout, Deliver, Lose, Finish,
     Revoke, Tick
<1>3. VerifiedIsEarned'
  <2>1. ASSUME NEW x \in Cookies', Known(x), x.verified # Never
        PROVE  x.handle \in proved'
    BY <1>2, <2>1 DEF Earned, VerifiedIsEarned, Known, Made, Cookies
  <2>2. QED
    BY <1>1, <2>1, CookiesAreMade DEF VerifiedIsEarned
<1>4. ASSUME NEW r \in Requests, pc'[r] = "api", pc'[r] # pc[r] \/ fresh'[r] # fresh[r]
      PROVE  fresh'[r].handle \in proved'
  <2>1. ASSUME NEW q \in Requests, NEW o, NEW c, NEW s, Answer(q, o, c, s),
               UNCHANGED fresh \/ fresh' = [fresh EXCEPT ![q] = NoHandle]
        PROVE  FALSE
    BY <1>1, <1>4, <2>1, OthersAnswer DEF Typed, TypeOK
  <2>2. ASSUME NEW q \in Requests, NEW p, Go(q, p), p # "api",
               \A z \in Requests \ {q} : fresh'[z] = fresh[z]
        PROVE  FALSE
    BY <1>1, <1>4, <2>2, OthersGo
  <2>3. CASE UNCHANGED <<pc, fresh>>
    BY <1>4, <2>3
  <2>4. ASSUME NEW q \in Requests, NEW k \in Traffic, Send(q, k) PROVE FALSE
    BY <2>2, <2>4 DEF Send
  <2>5. ASSUME NEW q \in Requests, Enter(q) PROVE FALSE
    BY <2>1, <2>2, <2>5 DEF Enter, EnterMutate, EnterRead, EnterStatus,
       EnterLogout, EnterCallback, Entering
  <2>6. ASSUME NEW q \in Requests,
               \/ RefreshAnswerLost(q) \/ RefreshRefused(q) \/ RefreshUnavailable(q)
        PROVE  FALSE
    BY <2>1, <2>6, AuthFailedAnswers DEF RefreshAnswerLost, RefreshRefused,
       RefreshUnavailable
  <2>7. ASSUME NEW q \in Requests, RefreshAnswered(q) PROVE FALSE
    <3>1. CASE AuthFailed(q, 401, Keep) /\ UNCHANGED fresh
      BY <2>1, <3>1, AuthFailedAnswers
    <3>2. CASE Go(q, "delegate") /\ \A z \in Requests \ {q} : fresh'[z] = fresh[z]
      BY <2>2, <3>2
    <3>3. QED
      BY <1>1, <2>7, <3>1, <3>2 DEF RefreshAnswered, Typed, TypeOK
  <2>8. ASSUME NEW q \in Requests, DelegateFailed(q) PROVE FALSE
    BY <2>1, <2>8, AuthFailedAnswers DEF DelegateFailed, Delegating
  <2>9. ASSUME NEW q \in Requests, DelegateGranted(q)
        PROVE  fresh'[r].handle \in proved'
    <3>1. r = q /\ UNCHANGED fresh
      BY <1>1, <1>4, <2>9, OthersGo DEF DelegateGranted, Delegating
    <3>2. QED
      BY <2>9, <3>1 DEF DelegateGranted
  <2>10. ASSUME NEW q \in Requests,
                \/ MutationSucceeds(q) \/ MutationRejected(q) \/ MutationUnanswered(q)
                \/ ReadAnswered(q) \/ CallbackProjected(q) \/ StatusResolved(q) \/ Logout(q)
         PROVE  FALSE
    BY <2>1, <2>10 DEF MutationSucceeds, MutationRejected, MutationUnanswered,
       ReadAnswered, CallbackProjected, Calling, StatusResolved, Logout
  <2>11. ASSUME NEW q \in Requests, CallbackExchanged(q) PROVE FALSE
    <3>1. CASE UNCHANGED fresh /\ \E c : Answer(q, "Failed", c, Keep)
      BY <2>1, <3>1
    <3>2. CASE Go(q, "delegate") /\ \A z \in Requests \ {q} : fresh'[z] = fresh[z]
      BY <2>2, <3>2
    <3>3. QED
      BY <1>1, <2>11, <3>1, <3>2 DEF CallbackExchanged, Typed, TypeOK
  <2>12. ASSUME NEW q \in Requests, Timeout(q) PROVE FALSE
    BY <2>1, <2>12 DEF Timeout
  <2>13. ASSUME NEW q \in Requests, Deliver(q) \/ Lose(q) PROVE FALSE
    BY <1>1, <2>2, <2>13 DEF Deliver, Lose, Finish, Typed, TypeOK
  <2>14. CASE Tick \/ (\E f \in Families : Revoke(f)) \/ UNCHANGED vars
    BY <2>3, <2>14 DEF Tick, Revoke, vars
  <2>15. QED
    BY <2>4, <2>5, <2>6, <2>7, <2>8, <2>9, <2>10, <2>11, <2>12, <2>13, <2>14
    DEF Next, Serve
<1>5. QED
  BY <1>1, <1>2, <1>3, <1>4, NextTyped DEF Earned

\* Only a successful delegation of that very handle stamps a cookie verified: a
\* failed or interrupted one cannot open the probe's fast path.
THEOREM StampsAreEvidence == Spec => []VerifiedIsEarned
<1>1. Init => Earned
  <2> SUFFICES ASSUME Init PROVE Earned
    OBVIOUS
  <2>1. Cookies \subseteq {jar} \ {NoCookie} /\ \A r \in Requests : pc[r] = "idle"
    BY DEF Init, Cookies, NoReply
  <2>2. jar # NoCookie /\ jar.verified # Never => jar.handle \in proved
    BY DEF Init
  <2>3. QED
    BY <2>1, <2>2, InitTyped DEF Earned, VerifiedIsEarned
<1>2. Earned => VerifiedIsEarned
  BY DEF Earned
<1>3. QED
  BY <1>1, <1>2, NextEarned, PTL DEF Spec

-----------------------------------------------------------------------------
(* Verdicts are true. *)

Truthful ==
  /\ Typed /\ MutationVerdictIsTrue
  /\ \A r \in applied : pc[r] = "reply"

\* What a response may say, given what the API committed.
Fits(r, o, c) ==
  /\ o = "Applied" => r \in applied'
  /\ r \in applied' => o = "Applied" \/ c \in {408, 502}

\* A step that answers r, or moves it on, and touches no other mutation.
LEMMA VerdictStep ==
  ASSUME Truthful, NEW r \in Requests,
         applied' \ {r} = applied \ {r},
         \/ \E o, c, s : Answer(r, o, c, s) /\ Fits(r, o, c)
         \/ \E p : Go(r, p) /\ p # "reply" /\ r \notin applied' /\ UNCHANGED reply
  PROVE  MutationVerdictIsTrue' /\ \A q \in applied' : pc'[q] = "reply"
<1>1. \A q \in Requests \ {r} : pc'[q] = pc[q] /\ reply'[q] = reply[q]
  BY OthersAnswer, OthersGo DEF Truthful
<1>2. \A q \in Requests \ {r} : q \in applied' <=> q \in applied
  OBVIOUS
<1>3. \A q \in applied' \ {r} : q \in applied /\ q \in Requests \ {r}
  BY DEF Truthful, Typed, TypeOK
<1>4. CASE \E o, c, s : Answer(r, o, c, s) /\ Fits(r, o, c)
  <2>1. /\ pc'[r] = "reply"
        /\ reply'[r].outcome = "Applied" => r \in applied'
        /\ r \in applied' => reply'[r].outcome = "Applied" \/ reply'[r].code \in {408, 502}
    BY <1>4, OthersAnswer DEF Fits, Truthful
  <2>2. QED
    BY <1>1, <1>2, <1>3, <2>1 DEF Truthful, MutationVerdictIsTrue
<1>5. CASE \E p : Go(r, p) /\ p # "reply" /\ r \notin applied' /\ UNCHANGED reply
  <2>1. pc'[r] # "reply" /\ r \notin applied'
    BY <1>5, OthersGo DEF Truthful
  <2>2. QED
    BY <1>1, <1>2, <1>3, <2>1 DEF Truthful, MutationVerdictIsTrue
<1>6. QED
  BY <1>4, <1>5

\* An answer that claims nothing, to a request whose mutation was not committed.
LEMMA ModestAnswer ==
  ASSUME Truthful, NEW r \in Requests, pc[r] # "reply", UNCHANGED applied,
         NEW o, NEW c, NEW s, Answer(r, o, c, s), o # "Applied"
  PROVE  MutationVerdictIsTrue' /\ \A q \in applied' : pc'[q] = "reply"
<1>1. Fits(r, o, c)
  BY DEF Fits, Truthful
<1>2. QED
  BY <1>1, VerdictStep

LEMMA Onward ==
  ASSUME Truthful, NEW r \in Requests, pc[r] # "reply", UNCHANGED <<applied, reply>>,
         NEW p, Go(r, p), p # "reply"
  PROVE  MutationVerdictIsTrue' /\ \A q \in applied' : pc'[q] = "reply"
BY VerdictStep DEF Truthful

\* Refused authentication never claims success, whichever handler reports it.
LEMMA AuthFailedClaimsNothing ==
  ASSUME NEW r \in Requests, NEW c, NEW s, AuthFailed(r, c, s)
  PROVE  \E o, d, v : Answer(r, o, d, v) /\ o # "Applied"
BY DEF AuthFailed, ContinuityFailure

LEMMA NextTruthful == Truthful /\ [Next]_vars => Truthful'
<1> SUFFICES ASSUME Truthful, [Next]_vars
             PROVE  MutationVerdictIsTrue' /\ \A q \in applied' : pc'[q] = "reply"
  BY NextTyped DEF Truthful
<1> DEFINE Goal == MutationVerdictIsTrue' /\ \A q \in applied' : pc'[q] = "reply"
<1>1. ASSUME NEW r \in Requests, NEW k \in Traffic, Send(r, k) PROVE Goal
  BY <1>1, Onward DEF Send, past
<1>2. ASSUME NEW r \in Requests, Enter(r) PROVE Goal
  BY <1>2, Onward, ModestAnswer DEF Enter, EnterMutate, EnterRead, EnterStatus,
     EnterLogout, EnterCallback, Entering, past
<1>3. ASSUME NEW r \in Requests,
             \/ RefreshAnswered(r) \/ RefreshAnswerLost(r)
             \/ RefreshRefused(r) \/ RefreshUnavailable(r)
      PROVE  Goal
  <2>1. pc[r] # "reply" /\ UNCHANGED applied
    BY <1>3 DEF RefreshAnswered, RefreshAnswerLost, RefreshRefused,
       RefreshUnavailable, Refreshing
  <2>2. \/ Go(r, "delegate") /\ UNCHANGED reply
        \/ \E c : AuthFailed(r, c, Keep)
    BY <1>3 DEF RefreshAnswered, RefreshAnswerLost, RefreshRefused, RefreshUnavailable
  <2>3. QED
    BY <2>1, <2>2, Onward, AuthFailedClaimsNothing, ModestAnswer
<1>4. ASSUME NEW r \in Requests, DelegateGranted(r) \/ DelegateFailed(r) PROVE Goal
  <2>1. pc[r] # "reply" /\ UNCHANGED applied
    BY <1>4 DEF DelegateGranted, DelegateFailed, Delegating
  <2>2. \/ \E p : Go(r, p) /\ p # "reply" /\ UNCHANGED reply
        \/ \E c, s : AuthFailed(r, c, s) \/ Answer(r, "Failed", c, s)
    BY <1>4 DEF DelegateGranted, DelegateFailed
  <2>3. QED
    BY <2>1, <2>2, Onward, AuthFailedClaimsNothing, ModestAnswer
<1>5. ASSUME NEW r \in Requests, MutationSucceeds(r) PROVE Goal
  <2>1. Fits(r, "Applied", 303)
    BY <1>5 DEF MutationSucceeds, Fits
  <2>2. QED
    BY <1>5, <2>1, VerdictStep DEF MutationSucceeds
<1>6. ASSUME NEW r \in Requests, MutationUnanswered(r) PROVE Goal
  <2>1. Fits(r, "Failed", 502)
    BY DEF Fits
  <2>2. QED
    BY <1>6, <2>1, VerdictStep DEF MutationUnanswered
<1>7. ASSUME NEW r \in Requests,
             \/ MutationRejected(r) \/ ReadAnswered(r) \/ CallbackProjected(r)
             \/ StatusResolved(r) \/ CallbackExchanged(r) \/ Logout(r)
      PROVE  Goal
  <2>1. pc[r] # "reply" /\ UNCHANGED applied
    BY <1>7 DEF MutationRejected, ReadAnswered, CallbackProjected, Calling,
       StatusResolved, CallbackExchanged, Logout, past
  <2>2. \/ \E p : Go(r, p) /\ p # "reply" /\ UNCHANGED reply
        \/ \E o, c, s : Answer(r, o, c, s) /\ o # "Applied"
    BY <1>7 DEF MutationRejected, ReadAnswered, CallbackProjected,
       StatusResolved, CallbackExchanged, Logout
  <2>3. QED
    BY <2>1, <2>2, Onward, ModestAnswer
<1>8. ASSUME NEW r \in Requests, Timeout(r) PROVE Goal
  <2>1. applied' \ {r} = applied \ {r}
    BY <1>8 DEF Timeout, OrphanedCall
  <2>2. Fits(r, "Timeout", 408)
    BY DEF Fits
  <2>3. QED
    BY <1>8, <2>1, <2>2, VerdictStep DEF Timeout
<1>9. ASSUME NEW r \in Requests, Deliver(r) \/ Lose(r) PROVE Goal
  <2>1. applied' = applied \ {r} /\ pc'[r] # "reply"
        /\ \A q \in Requests \ {r} : pc'[q] = pc[q] /\ reply'[q] = reply[q]
    BY <1>9 DEF Deliver, Lose, Finish, Go, Truthful, Typed, TypeOK
  <2>2. QED
    BY <2>1 DEF Truthful, Typed, TypeOK, MutationVerdictIsTrue
<1>10. CASE Tick \/ (\E f \in Families : Revoke(f)) \/ UNCHANGED vars
  <2>1. UNCHANGED <<pc, reply, applied>>
    BY <1>10 DEF Tick, Revoke, vars, past
  <2>2. QED
    BY <2>1 DEF Truthful, MutationVerdictIsTrue
<1>11. QED
  BY <1>1, <1>2, <1>3, <1>4, <1>5, <1>6, <1>7, <1>8, <1>9, <1>10 DEF Next, Serve

\* An applied verdict means the registry committed, and a mutation it committed
\* is never reported refused: only 408 and 502 leave the user in doubt.
THEOREM VerdictsAreTrue == Spec => []MutationVerdictIsTrue
<1>1. Init => Truthful
  BY InitTyped DEF Init, Truthful, MutationVerdictIsTrue
<1>2. Truthful => MutationVerdictIsTrue
  BY DEF Truthful
<1>3. QED
  BY <1>1, <1>2, NextTruthful, PTL DEF Spec

-----------------------------------------------------------------------------
(* Revocation is noticed. *)

Cadence == IF RecheckAfter > 1 THEN RecheckAfter ELSE 1

\* The family was not revoked before the request was handled.
Consulted(r, f) == Revoked(f) => revokedAt[f] >= began[r]

\* A stamp is no older evidence than the skew between replicas and the tick a
\* callback takes from its delegation to its cookie.
StampOK(c) ==
  c.verified # Never =>
    /\ c.verified <= now + MaxSkew
    /\ LET f == c.handle.family
       IN  Revoked(f) => revokedAt[f] >= c.verified - MaxSkew - 1

\* Why a request may go on: the authority was asked after it began, or its
\* cookie was stamped lately enough when it began.
RequestOK(r) ==
  /\ pc[r] \in Handling => began[r] <= now /\ now <= began[r] + 1
  /\ pc[r] = "exchange" => kind[r] = "callback"
  /\ pc[r] = "delegate" /\ kind[r] # "callback" =>
       sent[r] # NoCookie /\ fresh[r].handle.family = sent[r].handle.family
  /\ pc[r] = "api" => Consulted(r, fresh[r].handle.family)
  /\ pc[r] = "resolve" =>
       /\ sent[r] # NoCookie
       /\ fresh[r] # NoHandle => Consulted(r, sent[r].handle.family)
       /\ fresh[r] = NoHandle =>
            sent[r].verified # Never /\ began[r] - sent[r].verified < Cadence

Noticed ==
  Typed /\ (\A c \in Cookies : StampOK(c)) /\ \A r \in Requests : RequestOK(r)

\* What a step does to the clock and to revocations.
LEMMA WorldMoves ==
  ASSUME Typed, [Next]_vars
  PROVE  /\ now' \in {now, now + 1} /\ now \in Nat
         /\ \A f \in Families : revokedAt'[f] \in {revokedAt[f], now}
         /\ \A f \in Families : Revoked(f) => revokedAt'[f] = revokedAt[f]
         /\ \A f \in Families : revokedAt[f] \in Nat \cup {Never}
<1>1. /\ now \in Nat /\ revokedAt \in [Families -> Time \cup {Never}]
      /\ \A f \in Families : revokedAt[f] \in Nat \cup {Never}
  BY Sentinels DEF Typed, TypeOK, Time
<1>2. CASE UNCHANGED <<now, revokedAt>>
  BY <1>1, <1>2
<1>3. ASSUME NEW f \in Families, ~Revoked(f), now' = now,
             revokedAt' = [revokedAt EXCEPT ![f] = now]
      PROVE  /\ \A g \in Families : revokedAt'[g] \in {revokedAt[g], now}
             /\ \A g \in Families : Revoked(g) => revokedAt'[g] = revokedAt[g]
  BY <1>1, <1>3
<1>4. CASE Tick
  BY <1>1, <1>4 DEF Tick, auth
<1>5. ASSUME NEW f \in Families, Revoke(f)
      PROVE  ~Revoked(f) /\ now' = now /\ revokedAt' = [revokedAt EXCEPT ![f] = now]
  BY <1>5 DEF Revoke
<1>6. ASSUME NEW r \in Requests, pc[r] = "revoke", Live(sent[r].handle)
      PROVE  sent[r].handle.family \in Families /\ ~Revoked(sent[r].handle.family)
  BY <1>6, Shapes DEF Typed, PhaseOK, Live
<1>7. ASSUME NEW r \in Requests, Logout(r) \/ Timeout(r)
      PROVE  \/ UNCHANGED <<now, revokedAt>>
             \/ \E f \in Families :
                  ~Revoked(f) /\ now' = now /\ revokedAt' = [revokedAt EXCEPT ![f] = now]
  BY <1>6, <1>7 DEF Logout, Timeout, OrphanedCall, auth
<1>8. ASSUME \/ \E r \in Requests, k \in Traffic : Send(r, k)
             \/ \E r \in Requests : Enter(r) \/ Deliver(r) \/ Lose(r)
             \/ UNCHANGED vars
      PROVE  UNCHANGED <<now, revokedAt>>
  BY <1>8 DEF Send, Enter, EnterMutate, EnterRead, EnterStatus, EnterLogout,
     EnterCallback, Entering, Deliver, Lose, Finish, vars, auth
<1>9. ASSUME NEW r \in Requests, Serve(r), ~Logout(r)
      PROVE  UNCHANGED <<now, revokedAt>>
  BY <1>9 DEF Serve, RefreshAnswered, RefreshAnswerLost, RefreshRefused,
     RefreshUnavailable, Refreshing, DelegateGranted, DelegateFailed, Delegating,
     MutationSucceeds, MutationRejected, MutationUnanswered, ReadAnswered,
     CallbackProjected, Calling, StatusResolved, CallbackExchanged, auth
<1>10. QED
  BY <1>1, <1>2, <1>3, <1>4, <1>5, <1>7, <1>8, <1>9 DEF Next

\* Stamps stay good, and the new ones are.
LEMMA StampsStayGood ==
  ASSUME Noticed, [Next]_vars
  PROVE  \A c \in Cookies' : StampOK(c)'
<1>1. Typed
  BY DEF Noticed
<1>2. MaxSkew \in Nat
  BY ConstantsAssumption
<1>3. /\ \A c \in Cookies : c \in Cookie
      /\ \A r \in Requests : fresh[r] # NoHandle => fresh[r].handle \in Handle
      /\ \A c \in Cookie : /\ c.verified \in Nat \cup {Never}
                           /\ c.handle.family \in Families
  <2>1. \A r \in Requests : reply[r].set \in Cookie \cup {NoCookie, Keep}
    BY <1>1 DEF Typed, TypeOK, Reply
  <2>2. \A c \in Cookies : c \in Cookie
    BY <1>1, <2>1 DEF Cookies, Typed, TypeOK
  <2>3. \A c \in Cookie : /\ c.verified \in Nat \cup {Never}
                          /\ c.handle.family \in Families
    BY Sentinels DEF Cookie, Handle, Time
  <2>4. QED
    BY <1>1, <2>2, <2>3, Shapes
<1>4. ASSUME NEW c \in Cookies, c \in Cookies' PROVE StampOK(c)'
  <2> DEFINE f == c.handle.family
  <2>1. f \in Families /\ c.verified \in Nat \cup {Never} /\ StampOK(c)
    BY <1>3 DEF Noticed
  <2>2. QED
    BY <1>1, <1>2, <2>1, WorldMoves, SentinelsAssumption DEF StampOK, Revoked
<1>5. ASSUME NEW r \in Requests, NEW c, Made(r, c), c.verified # Never
      PROVE  StampOK(c)'
  <2> DEFINE f == c.handle.family
  <2>1. f \in Families /\ c.verified = now /\ fresh[r] # NoHandle
        /\ c.handle = fresh[r].handle
    BY <1>1, <1>5, Shapes DEF Made
  <2>2. Revoked(f) => revokedAt[f] >= now - 1
    <3>1. CASE pc[r] = "api"
      <4>1. began[r] \in Nat /\ revokedAt[f] \in Nat \cup {Never} /\ now \in Nat
        BY <1>1, <2>1, Sentinels DEF Typed, TypeOK, Time
      <4>2. Consulted(r, f) /\ now <= began[r] + 1
        BY <2>1, <3>1 DEF Noticed, RequestOK, Handling
      <4>3. QED
        BY <4>1, <4>2 DEF Consulted, Revoked
    <3>2. CASE ~Revoked(fresh[r].handle.family)
      BY <2>1, <3>2
    <3>3. QED
      BY <1>5, <3>1, <3>2 DEF Made
  <2>3. QED
    BY <1>1, <1>2, <2>1, <2>2, WorldMoves, SentinelsAssumption DEF StampOK, Revoked
<1>6. QED
  <2>1. ASSUME NEW c \in Cookies', Known(c) PROVE StampOK(c)'
    <3>1. c \notin {NoCookie, Keep}
      BY DEF Cookies
    <3>2. QED
      BY <1>4, <1>5, <2>1, <3>1 DEF Known, StampOK
  <2>2. QED
    BY <1>1, <2>1, CookiesAreMade

\* A request the step does not move keeps its reason to go on.
LEMMA UnmovedStaysOK ==
  ASSUME Noticed, [Next]_vars, NEW r \in Requests,
         pc'[r] = pc[r], kind'[r] = kind[r], began'[r] = began[r],
         sent'[r] = sent[r], fresh'[r] = fresh[r],
         now' # now => (pc[r] \in Handling => began[r] = now)
  PROVE  RequestOK(r)'
<1>1. Typed /\ RequestOK(r) /\ began[r] \in Nat
  BY Sentinels DEF Noticed, Typed, TypeOK, Time
<1>2. pc[r] \in Handling => began'[r] <= now' /\ now' <= began'[r] + 1
  BY <1>1, WorldMoves DEF RequestOK
<1>3. ASSUME NEW f \in Families, Consulted(r, f), pc[r] \in Handling
      PROVE  Consulted(r, f)'
  BY <1>1, <1>3, WorldMoves DEF Consulted, Revoked, RequestOK
<1>4. /\ fresh[r] # NoHandle => fresh[r].handle.family \in Families
      /\ sent[r] # NoCookie => sent[r].handle.family \in Families
      /\ pc[r] = "api" => fresh[r] # NoHandle
  BY <1>1, Shapes DEF Typed, PhaseOK
<1>5. {"delegate", "api", "resolve", "exchange"} \subseteq Handling
  BY DEF Handling
<1>6. QED
  BY <1>1, <1>2, <1>3, <1>4, <1>5 DEF RequestOK

\* What is not being handled needs no reason.
LEMMA RestingIsOK ==
  ASSUME NEW r \in Requests, pc'[r] \notin Handling
  PROVE  RequestOK(r)'
BY DEF RequestOK, Handling

LEMMA AuthFailedRests ==
  ASSUME Typed, NEW r \in Requests, NEW c, NEW s, AuthFailed(r, c, s)
  PROVE  pc'[r] = "reply"
BY OthersAnswer DEF AuthFailed, ContinuityFailure

LEMMA MovedIsOK ==
  ASSUME Noticed, [Next]_vars, NEW r \in Requests, Enter(r) \/ Serve(r)
  PROVE  RequestOK(r)'
<1>1. Typed /\ RequestOK(r) /\ began[r] \in Nat /\ now \in Nat
  BY Sentinels DEF Noticed, Typed, TypeOK, Time
<1>2. CASE pc'[r] \notin Handling
  BY <1>2, RestingIsOK
<1>3. ASSUME Enter(r), pc'[r] \in Handling
      PROVE  RequestOK(r)'
  <2>1. /\ pc[r] = "sent" /\ UNCHANGED <<now, sent, fresh, kind>>
        /\ began' = [began EXCEPT ![r] = now]
    BY <1>3 DEF Enter, EnterMutate, EnterRead, EnterStatus, EnterLogout,
       EnterCallback, Entering
  <2>2. began'[r] = now /\ fresh[r] = NoHandle
    BY <1>1, <2>1 DEF Typed, TypeOK, PhaseOK
  <2>3. \/ pc'[r] \in {"refresh", "revoke"}
        \/ pc'[r] = "exchange" /\ kind[r] = "callback"
        \/ pc'[r] = "resolve" /\ Active(sent[r]) /\ RecentlyVerified(sent[r])
    BY <1>1, <1>3, OthersAnswer, OthersGo DEF Enter, EnterMutate, EnterRead,
       EnterStatus, EnterLogout, EnterCallback, Entering, Handling
  <2>4. QED
    BY <1>1, <2>1, <2>2, <2>3 DEF RequestOK, Active, RecentlyVerified, Cadence
<1>4. ASSUME RefreshAnswered(r), pc'[r] \in Handling
      PROVE  RequestOK(r)'
  <2>1. pc'[r] = "delegate"
    BY <1>1, <1>4, OthersGo, AuthFailedRests DEF RefreshAnswered, Handling
  <2>2. /\ pc[r] = "refresh" /\ sent[r] # NoCookie
        /\ UNCHANGED <<now, sent, began, kind>>
    BY <1>1, <1>4 DEF RefreshAnswered, Refreshing, Typed, PhaseOK
  <2>3. fresh'[r].handle = Rotated(sent[r].handle)
    <3>1. ~AuthFailed(r, 401, Keep)
      BY <1>1, <2>1, AuthFailedRests
    <3>2. QED
      BY <1>1, <1>4, <3>1 DEF RefreshAnswered, Typed, TypeOK
  <2>4. Rotated(sent[r].handle).family = sent[r].handle.family
    BY <1>1, <2>2, Shapes DEF Rotated, Handle
  <2>5. began[r] <= now /\ now <= began[r] + 1
    BY <1>1, <2>2 DEF RequestOK, Handling
  <2>6. QED
    BY <2>1, <2>2, <2>3, <2>4, <2>5 DEF RequestOK
<1>5. ASSUME CallbackExchanged(r), pc'[r] \in Handling
      PROVE  RequestOK(r)'
  <2>1. pc'[r] = "delegate"
    BY <1>1, <1>5, OthersGo, OthersAnswer DEF CallbackExchanged, Handling
  <2>2. /\ pc[r] = "exchange" /\ UNCHANGED <<now, sent, began, kind>>
    BY <1>5 DEF CallbackExchanged
  <2>3. kind[r] = "callback" /\ began[r] <= now /\ now <= began[r] + 1
    BY <1>1, <2>2 DEF RequestOK, Handling
  <2>4. QED
    BY <2>1, <2>2, <2>3 DEF RequestOK
<1>6. ASSUME DelegateGranted(r)
      PROVE  RequestOK(r)'
  <2>1. /\ pc[r] = "delegate" /\ ~Revoked(fresh[r].handle.family)
        /\ fresh[r] # NoHandle
        /\ UNCHANGED <<now, revokedAt, sent, began, kind, fresh>>
    BY <1>1, <1>6 DEF DelegateGranted, Delegating, auth, Typed, PhaseOK
  <2>2. pc'[r] = (IF kind[r] = "status" THEN "resolve" ELSE "api")
    BY <1>1, <1>6, OthersGo DEF DelegateGranted
  <2>3. began[r] <= now /\ now <= began[r] + 1
    BY <1>1, <2>1 DEF RequestOK, Handling
  <2>4. kind[r] = "status" =>
          sent[r] # NoCookie /\ fresh[r].handle.family = sent[r].handle.family
    BY <1>1, <2>1 DEF RequestOK
  <2>5. ~Revoked(fresh[r].handle.family)'
    BY <2>1 DEF Revoked
  <2>6. Consulted(r, fresh[r].handle.family)'
    BY <2>5 DEF Consulted
  <2>7. kind[r] = "status" => Consulted(r, sent[r].handle.family)'
    BY <2>1, <2>4 DEF Consulted, Revoked
  <2>8. QED
    BY <2>1, <2>2, <2>3, <2>4, <2>6, <2>7 DEF RequestOK
<1>7. ASSUME \/ RefreshAnswerLost(r) \/ RefreshRefused(r) \/ RefreshUnavailable(r)
             \/ DelegateFailed(r) \/ MutationSucceeds(r) \/ MutationRejected(r)
             \/ MutationUnanswered(r) \/ ReadAnswered(r) \/ CallbackProjected(r)
             \/ StatusResolved(r) \/ Logout(r)
      PROVE  pc'[r] = "reply"
  <2>1. \/ \E c, s : AuthFailed(r, c, s)
        \/ \E o, c, s : Answer(r, o, c, s)
    BY <1>7 DEF RefreshAnswerLost, RefreshRefused, RefreshUnavailable,
       DelegateFailed, MutationSucceeds, MutationRejected, MutationUnanswered,
       ReadAnswered, CallbackProjected, StatusResolved, Logout
  <2>2. QED
    BY <1>1, <2>1, AuthFailedRests, OthersAnswer
<1>8. "reply" \notin Handling
  BY DEF Handling
<1>9. QED
  BY <1>2, <1>3, <1>4, <1>5, <1>6, <1>7, <1>8 DEF Serve

LEMMA NextNoticed == Noticed /\ [Next]_vars => Noticed'
<1> SUFFICES ASSUME Noticed, [Next]_vars, NEW r \in Requests PROVE RequestOK(r)'
  BY NextTyped, StampsStayGood DEF Noticed
<1>1. Typed
  BY DEF Noticed
<1>2. ASSUME NEW q \in Requests, Enter(q) \/ Serve(q)
      PROVE  RequestOK(r)'
  <2>1. CASE q = r
    BY <1>2, <2>1, MovedIsOK
  <2>2. CASE q # r
    <3>1. CASE Enter(q)
      <4>1. /\ UNCHANGED <<now, kind, sent, fresh>>
            /\ began'[r] = began[r]
        BY <1>1, <2>2, <3>1 DEF Enter, EnterMutate, EnterRead, EnterStatus,
           EnterLogout, EnterCallback, Entering, Typed, TypeOK
      <4>2. pc'[r] = pc[r]
        BY <1>1, <2>2, <3>1, OthersGo, OthersAnswer DEF Enter, EnterMutate,
           EnterRead, EnterStatus, EnterLogout, EnterCallback, Entering
      <4>3. QED
        BY <4>1, <4>2, UnmovedStaysOK
    <3>2. CASE Serve(q)
      <4>1. UNCHANGED <<now, kind, sent, began>> /\ fresh'[r] = fresh[r]
        BY <1>1, <2>2, <3>2 DEF Serve, RefreshAnswered, RefreshAnswerLost,
           RefreshRefused, RefreshUnavailable, Refreshing, DelegateGranted,
           DelegateFailed, Delegating, MutationSucceeds, MutationRejected,
           MutationUnanswered, ReadAnswered, CallbackProjected, Calling,
           StatusResolved, CallbackExchanged, Logout, Typed, TypeOK
      <4>2. \/ \E p : Go(q, p)
            \/ \E o, c, s : Answer(q, o, c, s)
            \/ \E c, s : AuthFailed(q, c, s)
        BY <3>2 DEF Serve, RefreshAnswered, RefreshAnswerLost,
           RefreshRefused, RefreshUnavailable, DelegateGranted,
           DelegateFailed, MutationSucceeds, MutationRejected,
           MutationUnanswered, ReadAnswered, CallbackProjected,
           StatusResolved, CallbackExchanged, Logout
      <4>3. pc'[r] = pc[r]
        BY <1>1, <2>2, <4>2, OthersGo, OthersAnswer DEF AuthFailed, ContinuityFailure
      <4>4. QED
        BY <4>1, <4>3, UnmovedStaysOK
    <3>3. QED
      BY <1>2, <3>1, <3>2
  <2>3. QED
    BY <2>1, <2>2
<1>3. ASSUME NEW q \in Requests,
             (\E k \in Traffic : Send(q, k)) \/ Timeout(q) \/ Deliver(q) \/ Lose(q)
      PROVE  RequestOK(r)'
  <2>1. /\ now' = now
        /\ \A p \in Requests \ {q} :
             /\ pc'[p] = pc[p] /\ kind'[p] = kind[p] /\ began'[p] = began[p]
             /\ sent'[p] = sent[p] /\ fresh'[p] = fresh[p]
        /\ pc'[q] \in {"sent", "reply", "idle"}
    BY <1>1, <1>3 DEF Send, Timeout, Deliver, Lose, Finish, Go, Answer, Typed, TypeOK
  <2>2. {"sent", "reply", "idle"} \cap Handling = {}
    BY DEF Handling
  <2>3. QED
    BY <2>1, <2>2, UnmovedStaysOK, RestingIsOK
<1>4. CASE Tick \/ (\E f \in Families : Revoke(f)) \/ UNCHANGED vars
  <2>1. /\ UNCHANGED <<pc, kind, began, sent, fresh>>
        /\ now' # now => (pc[r] \in Handling => began[r] = now)
    BY <1>4 DEF Tick, Revoke, vars
  <2>2. QED
    BY <2>1, UnmovedStaysOK
<1>5. QED
  BY <1>2, <1>3, <1>4 DEF Next

\* Only the account read of the status probe says that the browser is signed in.
LEMMA OnlyResolveAuthenticates ==
  ASSUME Typed, [Next]_vars, NEW r \in Requests, Answers(r),
         reply'[r].outcome = "Authenticated"
  PROVE  StatusResolved(r)
<1>1. ASSUME NEW q \in Requests, NEW o, NEW c, NEW s, Answer(q, o, c, s)
      PROVE  q = r /\ o = "Authenticated"
  BY <1>1, OthersAnswer DEF Answers
<1>2. ASSUME NEW q \in Requests, NEW c, NEW s, AuthFailed(q, c, s)
      PROVE  FALSE
  BY <1>1, <1>2 DEF AuthFailed, ContinuityFailure
<1>3. ASSUME NEW q \in Requests, NEW p, Go(q, p)
      PROVE  q = r /\ p = "reply"
  BY <1>3, OthersGo DEF Answers
<1>4. ASSUME NEW q \in Requests, NEW k \in Traffic, Send(q, k) PROVE FALSE
  BY <1>3, <1>4 DEF Send
<1>5. ASSUME NEW q \in Requests, Enter(q) PROVE FALSE
  BY <1>1, <1>3, <1>5 DEF Enter, EnterMutate, EnterRead, EnterStatus, EnterLogout,
     EnterCallback
<1>6. ASSUME NEW q \in Requests, Timeout(q) \/ Deliver(q) \/ Lose(q) PROVE FALSE
  BY <1>1, <1>3, <1>6 DEF Timeout, Deliver, Lose, Finish
<1>7. ASSUME NEW q \in Requests, Serve(q) PROVE StatusResolved(r)
  BY <1>1, <1>2, <1>3, <1>7 DEF Serve, RefreshAnswered, RefreshAnswerLost,
     RefreshRefused, RefreshUnavailable, DelegateGranted, DelegateFailed,
     MutationSucceeds, MutationRejected, MutationUnanswered, ReadAnswered,
     CallbackProjected, StatusResolved, CallbackExchanged, Logout
<1>8. CASE Tick \/ (\E f \in Families : Revoke(f)) \/ UNCHANGED vars
  BY <1>8 DEF Tick, Revoke, vars, Answers
<1>9. QED
  BY <1>4, <1>5, <1>6, <1>7, <1>8 DEF Next

\* However many requests overlap and whatever times out, the probe reports a
\* revoked family signed in no longer than the recheck cadence, the skew between
\* replicas and two ticks.
THEOREM RevocationDoesNotLinger == Spec => RevocationIsNoticed
<1>1. Init => Noticed
  <2> SUFFICES ASSUME Init PROVE Noticed
    OBVIOUS
  <2>1. Cookies \subseteq {jar} \ {NoCookie} /\ \A r \in Requests : pc[r] = "idle"
    BY DEF Init, Cookies, NoReply
  <2>2. jar # NoCookie => StampOK(jar)
    BY ConstantsAssumption, SentinelsAssumption
    DEF Init, InitialCookies, StampOK, Revoked
  <2>3. QED
    BY <2>1, <2>2, InitTyped DEF Noticed, RequestOK, Handling
<1>2. Noticed /\ [Next]_vars => [ \A r \in Requests :
        (Answers(r) /\ reply'[r].outcome = "Authenticated"
           /\ Revoked(sent[r].handle.family)) =>
          now - revokedAt[sent[r].handle.family]
            < (IF RecheckAfter > 1 THEN RecheckAfter ELSE 1) + MaxSkew + 2 ]_vars
  <2> SUFFICES ASSUME Noticed, [Next]_vars, NEW r \in Requests, Answers(r),
                      reply'[r].outcome = "Authenticated",
                      Revoked(sent[r].handle.family)
               PROVE  now - revokedAt[sent[r].handle.family]
                        < (IF RecheckAfter > 1 THEN RecheckAfter ELSE 1) + MaxSkew + 2
    OBVIOUS
  <2> DEFINE f == sent[r].handle.family
  <2>1. Typed /\ pc[r] = "resolve"
    BY OnlyResolveAuthenticates DEF Noticed, StatusResolved
  <2>2. /\ RequestOK(r) /\ began[r] \in Nat /\ now \in Nat /\ sent[r] # NoCookie
        /\ now <= began[r] + 1
    BY <2>1, Sentinels DEF Noticed, Typed, TypeOK, Time, RequestOK, Handling
  <2>3. /\ f \in Families /\ revokedAt[f] \in Nat /\ MaxSkew \in Nat
        /\ RecheckAfter \in Nat
    BY <2>1, <2>2, Shapes, WorldMoves, ConstantsAssumption DEF Revoked
  <2>4. CASE fresh[r] # NoHandle
    BY <2>1, <2>2, <2>3, <2>4 DEF RequestOK, Consulted
  <2>5. CASE fresh[r] = NoHandle
    <3>1. /\ sent[r].verified # Never
          /\ began[r] - sent[r].verified < (IF RecheckAfter > 1 THEN RecheckAfter ELSE 1)
      BY <2>1, <2>2, <2>5 DEF RequestOK, Cadence
    <3>2. sent[r] \in Cookies /\ sent[r].verified \in Nat
      BY <2>1, <2>2, <3>1, Sentinels DEF Cookies, Typed, TypeOK, Cookie, Time
    <3>3. revokedAt[f] >= sent[r].verified - MaxSkew - 1
      BY <3>1, <3>2 DEF Noticed, StampOK
    <3>4. QED
      BY <2>2, <2>3, <3>1, <3>2, <3>3
  <2>6. QED
    BY <2>4, <2>5
<1>3. QED
  BY <1>1, <1>2, NextNoticed, PTL DEF Spec, RevocationIsNoticed

-----------------------------------------------------------------------------
(* One request at a time. *)

OneSlot == \E r : Requests = {r}

\* Nothing changes the jar while the only request is under way.
Serial ==
  /\ Reachable
  /\ \A r \in Requests : /\ pc[r] # "idle" => sent[r] = jar
                         /\ pc[r] = "revoke" => kind[r] = "logout"

LEMMA NextSerial ==
  ASSUME NEW r, Requests = {r}
  PROVE  Serial /\ [Next]_vars => Serial'
<1> SUFFICES ASSUME Serial, [Next]_vars
             PROVE  /\ pc'[r] # "idle" => sent'[r] = jar'
                    /\ pc'[r] = "revoke" => kind'[r] = "logout"
  BY NextReachable DEF Serial
<1>1. Typed /\ r \in Requests
  BY DEF Serial, Reachable, Custody
<1>2. ASSUME NEW k \in Traffic, Send(r, k)
      PROVE  pc'[r] = "sent" /\ sent'[r] = jar'
  BY <1>1, <1>2 DEF Send, Go, Typed, TypeOK
<1>3. ASSUME Enter(r) \/ Serve(r) \/ Timeout(r)
      PROVE  pc[r] # "idle" /\ UNCHANGED <<sent, jar, kind>>
  BY <1>3 DEF Enter, EnterMutate, EnterRead, EnterStatus, EnterLogout,
     EnterCallback, Entering, Serve, RefreshAnswered, RefreshAnswerLost,
     RefreshRefused, RefreshUnavailable, Refreshing, DelegateGranted,
     DelegateFailed, Delegating, MutationSucceeds, MutationRejected,
     MutationUnanswered, ReadAnswered, CallbackProjected, Calling,
     StatusResolved, CallbackExchanged, Logout, Timeout, Handling
<1>4. ASSUME Enter(r), pc'[r] = "revoke"
      PROVE  kind[r] = "logout"
  BY <1>1, <1>4, OthersGo, OthersAnswer DEF Enter, EnterMutate, EnterRead,
     EnterStatus, EnterLogout, EnterCallback, Entering
<1>5. ASSUME Serve(r) \/ Timeout(r)
      PROVE  pc'[r] # "revoke"
  <2>1. \/ \E p \in {"delegate", "resolve", "api"} : Go(r, p)
        \/ \E o, c, s : Answer(r, o, c, s)
        \/ \E c, s : AuthFailed(r, c, s)
    BY <1>5 DEF Serve, RefreshAnswered, RefreshAnswerLost, RefreshRefused,
       RefreshUnavailable, DelegateGranted, DelegateFailed, MutationSucceeds,
       MutationRejected, MutationUnanswered, ReadAnswered, CallbackProjected,
       StatusResolved, CallbackExchanged, Logout, Timeout
  <2>2. QED
    BY <1>1, <2>1, OthersGo, OthersAnswer, AuthFailedRests
<1>6. ASSUME Deliver(r) \/ Lose(r) PROVE pc'[r] = "idle"
  BY <1>1, <1>6, OthersGo DEF Deliver, Lose, Finish
<1>7. CASE Tick \/ (\E f \in Families : Revoke(f)) \/ UNCHANGED vars
  BY <1>1, <1>7 DEF Tick, Revoke, vars, Serial
<1>8. QED
  BY <1>1, <1>2, <1>3, <1>4, <1>5, <1>6, <1>7 DEF Next, Serial

\* A browser that keeps one request in flight loses its cookie to the status
\* probe only when the session is over, because it expired, was revoked, was cut
\* off by a lost response or was refused delegation, or when another replica's
\* clock dated the cookie ahead; an outage never costs the session.
THEOREM ProbeSparesLiveSessions ==
  OneSlot /\ Spec => ProbeClearsOnlyDeadSessions
<1>1. Init => Serial
  BY InitCustody DEF Init, Reachable, SessionNotStranded, Live, Revoked,
     InitialCookies, Serial
<1>2. OneSlot /\ Serial /\ [Next]_vars => [ \A r \in Requests :
        (Answers(r) /\ kind[r] = "status" /\ reply'[r].set = NoCookie) =>
          \/ Expired(sent[r]) \/ DatedAhead(sent[r])
          \/ Revoked(sent[r].handle.family)
          \/ sent[r].handle.family \in stranded'
          \/ r \in denied' ]_vars
  <2> SUFFICES ASSUME OneSlot, Serial, [Next]_vars, NEW r \in Requests, Answers(r), kind[r] = "status",
                      reply'[r].set = NoCookie
               PROVE  \/ Expired(sent[r]) \/ DatedAhead(sent[r])
                      \/ Revoked(sent[r].handle.family)
                      \/ sent[r].handle.family \in stranded'
                      \/ r \in denied'
    OBVIOUS
  <2>1. Typed /\ Requests = {r}
    BY DEF OneSlot, Serial, Reachable, Custody
  <2>2. ASSUME NEW o, NEW c, NEW s, Answer(r, o, c, s) PROVE s = NoCookie
    BY <2>1, <2>2, OthersAnswer
  <2>3. ASSUME NEW p, Go(r, p) PROVE p = "reply"
    BY <2>1, <2>3, OthersGo DEF Answers
  <2>4. ASSUME NEW c, AuthFailed(r, c, Keep) PROVE c \in {400, 401, 403}
    BY <2>2, <2>4, Sentinels DEF AuthFailed, ContinuityFailure
  <2>5. ASSUME NEW k \in Traffic, Send(r, k) PROVE FALSE
    BY <2>3, <2>5 DEF Send
  <2>6. ASSUME Enter(r) PROVE Expired(sent[r]) \/ DatedAhead(sent[r])
    <3>1. sent[r] # NoCookie /\ ~Active(sent[r])
      BY <2>2, <2>3, <2>6, Sentinels DEF Enter, EnterMutate, EnterRead, EnterStatus,
         EnterLogout, EnterCallback, Entering
    <3>2. sent[r].issued \in Int /\ now \in Int /\ SessionMaxAge \in Nat
      BY <2>1, <3>1, ConstantsAssumption DEF Typed, TypeOK, Cookie, Time
    <3>3. QED
      BY <3>1, <3>2 DEF Active, Expired, DatedAhead
  <2>7. ASSUME RefreshAnswered(r) PROVE sent[r].handle.family \in stranded'
    BY <2>3, <2>7 DEF RefreshAnswered
  <2>8. ASSUME RefreshAnswerLost(r) \/ RefreshUnavailable(r) PROVE FALSE
    BY <2>4, <2>8 DEF RefreshAnswerLost, RefreshUnavailable
  <2>9. ASSUME RefreshRefused(r)
        PROVE  \/ Revoked(sent[r].handle.family)
               \/ sent[r].handle.family \in stranded'
    <3>1. sent[r] = jar /\ jar # NoCookie /\ ~Live(jar.handle) /\ stranded' = stranded
      BY <2>1, <2>9 DEF RefreshRefused, Refreshing, Serial, Typed, PhaseOK
    <3>2. ~ \E q \in Requests : Carries(q, jar.handle.family)
      BY <2>1, <2>9 DEF Carries, RefreshRefused, Refreshing, Typed, PhaseOK
    <3>3. QED
      BY <3>1, <3>2 DEF Serial, Reachable, SessionNotStranded
  <2>10. ASSUME \/ DelegateGranted(r) \/ MutationSucceeds(r)
                \/ MutationRejected(r) \/ MutationUnanswered(r) \/ ReadAnswered(r)
                \/ CallbackProjected(r)
         PROVE  FALSE
    BY <2>3, <2>10 DEF DelegateGranted, MutationSucceeds,
       MutationRejected, MutationUnanswered, ReadAnswered, CallbackProjected, Calling
  <2>11. ASSUME DelegateFailed(r) PROVE r \in denied'
    <3>1. PICK code \in {400, 401, 502} :
            /\ AuthFailed(r, code, RotatedSession(r, Never))
            /\ denied' = IF code = 502 THEN denied ELSE denied \cup {r}
      BY <2>11 DEF DelegateFailed
    <3>2. RotatedSession(r, Never) # NoCookie
      BY <2>1, <2>11, RotatedSessionType, Sentinels
         DEF DelegateFailed, Delegating, Typed, PhaseOK
    <3>3. code # 502
      BY <2>2, <3>1, <3>2 DEF AuthFailed, ContinuityFailure
    <3>4. QED
      BY <3>1, <3>3
  <2>15. ASSUME StatusResolved(r) \/ CallbackExchanged(r) \/ Logout(r) PROVE FALSE
    <3>1. held[r] # NoCookie
      BY <2>1, Sentinels DEF Typed, TypeOK
    <3>2. ~Logout(r)
      BY <2>1 DEF Logout, Serial
    <3>3. QED
      BY <2>2, <2>3, <2>15, <3>1, <3>2, Sentinels DEF StatusResolved, CallbackExchanged
  <2>12. ASSUME Timeout(r) \/ Deliver(r) \/ Lose(r) PROVE FALSE
    BY <2>2, <2>3, <2>12, Sentinels DEF Timeout, Deliver, Lose, Finish
  <2>13. CASE Tick \/ (\E f \in Families : Revoke(f)) \/ UNCHANGED vars
    BY <2>13 DEF Tick, Revoke, vars, Answers
  <2>16. QED
    BY <2>1, <2>5, <2>6, <2>7, <2>8, <2>9, <2>10, <2>11, <2>15, <2>12, <2>13
       DEF Next, Serve
<1>3. OneSlot /\ Serial /\ [Next]_vars => Serial'
  BY NextSerial DEF OneSlot
<1>4. OneSlot => OneSlot'
  BY DEF OneSlot
<1>5. QED
  BY <1>1, <1>2, <1>3, <1>4, PTL DEF Spec, ProbeClearsOnlyDeadSessions
=============================================================================
