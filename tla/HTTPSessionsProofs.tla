-------------------------- MODULE HTTPSessionsProofs --------------------------
(***************************************************************************)
(* The safety properties of the sessions of HTTP requests for any number   *)
(* of clients, requests, sessions and contexts.  SessionInv is inductive;  *)
(* each property follows from one of its parts.                            *)
(***************************************************************************)
EXTENDS HTTPSessions, TLAPS

-----------------------------------------------------------------------------
(* The inductive invariant.                                                 *)

\* A request that is not idle has a client; it holds only sessions made for
\* this client, and a client holds only a cookie of its own.
OwnerInv ==
  /\ \A k \in Clients : cookie[k] # None => owner[cookie[k]] = k
  /\ \A r \in Requests :
       /\ pc[r] # "idle" => client[r] \in Clients
       /\ session[r] # None => pc[r] # "idle" /\ owner[session[r]] = client[r]
       /\ pc[r] \in {"attach", "opened", "release"} => session[r] # None

Running == {"attach", "using", "opened", "add", "release"}

\* A request holds a context of its own from TakeContext or NewContext until
\* ReleaseContext; from UpdateContext on it remembers a session of its client.
ContextInv ==
  /\ \A r \in Requests :
       /\ pc[r] \in Running \cup {"session"} <=> context[r] # None
       /\ pc[r] \in Running =>
            current[context[r]] # None /\ owner[current[context[r]]] = client[r]
       /\ pc[r] = "using" => attached[context[r]] # None
  /\ ContextIsExclusive

Known(s) == s \in fSessions \cup expired

\* The session manager knows what it may hand out: the cookies, what a request
\* found by its cookie, and what a context ran before its response is written.
KnownInv ==
  /\ CookieIsRegistered
  /\ \A r \in Requests :
       /\ pc[r] = "expired" => session[r] \in expired
       /\ pc[r] \in {"retain", "session", "attach", "release", "respond"} /\ session[r] # None
            => Known(session[r])
       /\ pc[r] \in {"attach", "using", "opened", "release"} => Known(current[context[r]])

SessionInv == TypeOK /\ OwnerInv /\ ContextInv /\ KnownInv

-----------------------------------------------------------------------------
(* Every step keeps it.                                                     *)

\* Every step keeps the types; a context that runs a script has a storage, and
\* a request that gives a session to a context has one.
LEMMA TypeStep ==
  ASSUME SessionInv, [Next]_vars
  PROVE  TypeOK'
<1> USE SessionAssumption DEF SessionInv
<1>1. ASSUME NEW r \in Requests, RequestNext(r)
      PROVE  TypeOK'
  <2>1. CASE SendRequest(r)
    BY <2>1 DEF SendRequest, Goto, TypeOK, Steps,
       sessionVars, contextVars, requestVars
  <2>2. CASE RetainSessionFromCookie(r)
    BY <2>2 DEF RetainSessionFromCookie, Goto, TypeOK, Steps,
       sessionVars, contextVars, requestVars
  <2>3. CASE RemoveSession(r)
    BY <2>3 DEF RemoveSession, Goto, TypeOK, Steps,
       sessionVars, contextVars, requestVars
  <2>4. CASE TakeContext(r)
    BY <2>4 DEF TakeContext, Goto, TypeOK, Steps,
       sessionVars, contextVars, requestVars
  <2>5. CASE NewContext(r)
    BY <2>5 DEF NewContext, Goto, TypeOK, Steps,
       sessionVars, contextVars, requestVars
  <2>6. CASE RetainFails(r)
    BY <2>6 DEF RetainFails, Goto, TypeOK, Steps,
       sessionVars, contextVars, requestVars
  <2>7. CASE MakeDefaultSession(r)
    BY <2>7 DEF MakeDefaultSession, Makes, Made, TypeOK, Steps,
       sessionVars, contextVars, requestVars
  <2>8. CASE UpdateContext(r)
    BY <2>8 DEF UpdateContext, SetUAGSession, Goto, TypeOK, Steps,
       sessionVars, contextVars, requestVars
  <2>9. CASE RetainJSContextEnds(r)
    BY <2>9 DEF RetainJSContextEnds, AttachesStorage, Goto, TypeOK, Steps, OwnerInv,
       ContextInv, Running,
       sessionVars, contextVars, requestVars
  <2>10. CASE StoreItem(r)
    BY <2>10 DEF StoreItem, TypeOK, Steps, OwnerInv, ContextInv, Running,
       sessionVars, contextVars, requestVars
  <2>11. CASE ChangeSession(r)
    BY <2>11 DEF ChangeSession, Makes, Made, Goto, TypeOK, Steps,
       sessionVars, contextVars, requestVars
  <2>12. CASE SetNewSession(r)
    BY <2>12 DEF SetNewSession, SetUAGSession, Goto, TypeOK, Steps,
       sessionVars, contextVars, requestVars
  <2>13. CASE AddSession(r)
    BY <2>13 DEF AddSession, AttachesStorage, Goto, TypeOK, Steps, OwnerInv,
       ContextInv, Running,
       sessionVars, contextVars, requestVars
  <2>14. CASE ReleaseJSContext(r)
    BY <2>14 DEF ReleaseJSContext, Goto, TypeOK, Steps, OwnerInv, ContextInv, Running,
       sessionVars, contextVars, requestVars
  <2>15. CASE ReleaseContext(r)
    BY <2>15 DEF ReleaseContext, Forgets, Goto, TypeOK, Steps, OwnerInv, ContextInv,
       Running,
       sessionVars, contextVars, requestVars
  <2>16. CASE Respond(r)
    BY <2>16 DEF Respond, Goto, TypeOK, Steps,
       sessionVars, contextVars, requestVars
  <2>17. QED
    BY <1>1, <2>1, <2>2, <2>3, <2>4, <2>5, <2>6, <2>7, <2>8, <2>9, <2>10, <2>11, <2>12,
       <2>13, <2>14, <2>15, <2>16 DEF RequestNext
<1>2. ASSUME NEW s \in Sessions, Expire(s)
      PROVE  TypeOK'
  BY <1>2 DEF Expire, TypeOK, Steps, contextVars, requestVars
<1>3. ASSUME NEW c \in Contexts, DestroyContext(c)
      PROVE  TypeOK'
  BY <1>3 DEF DestroyContext, Forgets, TypeOK, Steps, sessionVars, requestVars
<1>4. CASE UNCHANGED vars
  BY <1>4 DEF vars, TypeOK, Steps, sessionVars, contextVars, requestVars
<1>5. QED
  BY <1>1, <1>2, <1>3, <1>4 DEF Next, Done

\* A new session belongs to the client of the request that makes it; RetainJSContext
\* and ReleaseJSContext only pass on sessions of this client.
LEMMA OwnerStep ==
  ASSUME SessionInv, [Next]_vars
  PROVE  OwnerInv'
<1> USE SessionAssumption DEF SessionInv
<1>1. ASSUME NEW r \in Requests, RequestNext(r)
      PROVE  OwnerInv'
  <2>1. CASE SendRequest(r)
    BY <2>1 DEF SendRequest, Goto, TypeOK, OwnerInv,
       sessionVars, contextVars, requestVars
  <2>2. CASE RetainSessionFromCookie(r)
    BY <2>2 DEF RetainSessionFromCookie, Goto, TypeOK, OwnerInv,
       sessionVars, contextVars, requestVars
  <2>3. CASE RemoveSession(r)
    BY <2>3 DEF RemoveSession, Goto, TypeOK, OwnerInv,
       sessionVars, contextVars, requestVars
  <2>4. CASE TakeContext(r)
    BY <2>4 DEF TakeContext, Goto, TypeOK, OwnerInv,
       sessionVars, contextVars, requestVars
  <2>5. CASE NewContext(r)
    BY <2>5 DEF NewContext, Goto, TypeOK, OwnerInv,
       sessionVars, contextVars, requestVars
  <2>6. CASE RetainFails(r)
    BY <2>6 DEF RetainFails, Goto, TypeOK, OwnerInv,
       sessionVars, contextVars, requestVars
  <2>7. CASE MakeDefaultSession(r)
    BY <2>7 DEF MakeDefaultSession, Makes, Made, TypeOK, OwnerInv,
       sessionVars, contextVars, requestVars
  <2>8. CASE UpdateContext(r)
    BY <2>8 DEF UpdateContext, SetUAGSession, Goto, TypeOK, OwnerInv,
       sessionVars, contextVars, requestVars
  <2>9. CASE RetainJSContextEnds(r)
    BY <2>9 DEF RetainJSContextEnds, AttachesStorage, Goto, TypeOK, OwnerInv,
       sessionVars, contextVars, requestVars
  <2>10. CASE StoreItem(r)
    BY <2>10 DEF StoreItem, TypeOK, OwnerInv,
       sessionVars, contextVars, requestVars
  <2>11. CASE ChangeSession(r)
    BY <2>11 DEF ChangeSession, Makes, Made, Goto, TypeOK, OwnerInv,
       sessionVars, contextVars, requestVars
  <2>12. CASE SetNewSession(r)
    BY <2>12 DEF SetNewSession, SetUAGSession, Goto, TypeOK, OwnerInv,
       sessionVars, contextVars, requestVars
  <2>13. CASE AddSession(r)
    BY <2>13 DEF AddSession, AttachesStorage, Goto, TypeOK, OwnerInv,
       sessionVars, contextVars, requestVars
  <2>14. CASE ReleaseJSContext(r)
    BY <2>14 DEF ReleaseJSContext, Goto, TypeOK, OwnerInv, ContextInv, Running,
       sessionVars, contextVars, requestVars
  <2>15. CASE ReleaseContext(r)
    BY <2>15 DEF ReleaseContext, Forgets, Goto, TypeOK, OwnerInv,
       sessionVars, contextVars, requestVars
  <2>16. CASE Respond(r)
    BY <2>16 DEF Respond, Goto, TypeOK, OwnerInv,
       sessionVars, contextVars, requestVars
  <2>17. QED
    BY <1>1, <2>1, <2>2, <2>3, <2>4, <2>5, <2>6, <2>7, <2>8, <2>9, <2>10, <2>11, <2>12,
       <2>13, <2>14, <2>15, <2>16 DEF RequestNext
<1>2. ASSUME NEW s \in Sessions, Expire(s)
      PROVE  OwnerInv'
  BY <1>2 DEF Expire, TypeOK, OwnerInv, contextVars, requestVars
<1>3. ASSUME NEW c \in Contexts, DestroyContext(c)
      PROVE  OwnerInv'
  BY <1>3 DEF DestroyContext, Forgets, TypeOK, OwnerInv, sessionVars, requestVars
<1>4. CASE UNCHANGED vars
  BY <1>4 DEF vars, TypeOK, OwnerInv, sessionVars, contextVars, requestVars
<1>5. QED
  BY <1>1, <1>2, <1>3, <1>4 DEF Next, Done

\* A context is taken when nobody holds it, and UpdateContext replaces whatever
\* session it remembers.
LEMMA ContextStep ==
  ASSUME SessionInv, [Next]_vars
  PROVE  ContextInv'
<1> USE SessionAssumption DEF SessionInv
<1>1. ASSUME NEW r \in Requests, RequestNext(r)
      PROVE  ContextInv'
  <2>1. CASE SendRequest(r)
    BY <2>1 DEF SendRequest, Goto, TypeOK, OwnerInv, ContextInv, ContextIsExclusive,
       Running,
       sessionVars, contextVars, requestVars
  <2>2. CASE RetainSessionFromCookie(r)
    BY <2>2 DEF RetainSessionFromCookie, Goto, TypeOK, OwnerInv, ContextInv,
       ContextIsExclusive, Running,
       sessionVars, contextVars, requestVars
  <2>3. CASE RemoveSession(r)
    BY <2>3 DEF RemoveSession, Goto, TypeOK, OwnerInv, ContextInv, ContextIsExclusive,
       Running,
       sessionVars, contextVars, requestVars
  <2>4. CASE TakeContext(r)
    BY <2>4 DEF TakeContext, Goto, TypeOK, OwnerInv, ContextInv, ContextIsExclusive,
       Running,
       sessionVars, contextVars, requestVars
  <2>5. CASE NewContext(r)
    BY <2>5 DEF NewContext, Goto, TypeOK, OwnerInv, ContextInv, ContextIsExclusive,
       Running,
       sessionVars, contextVars, requestVars
  <2>6. CASE RetainFails(r)
    BY <2>6 DEF RetainFails, Goto, TypeOK, OwnerInv, ContextInv, ContextIsExclusive,
       Running,
       sessionVars, contextVars, requestVars
  <2>7. CASE MakeDefaultSession(r)
    BY <2>7 DEF MakeDefaultSession, Makes, Made, TypeOK, OwnerInv, ContextInv,
       ContextIsExclusive, Running,
       sessionVars, contextVars, requestVars
  <2>8. CASE UpdateContext(r)
    BY <2>8 DEF UpdateContext, SetUAGSession, Goto, TypeOK, OwnerInv, ContextInv,
       ContextIsExclusive, Running,
       sessionVars, contextVars, requestVars
  <2>9. CASE RetainJSContextEnds(r)
    BY <2>9 DEF RetainJSContextEnds, AttachesStorage, Goto, TypeOK, OwnerInv,
       ContextInv, ContextIsExclusive, Running,
       sessionVars, contextVars, requestVars
  <2>10. CASE StoreItem(r)
    BY <2>10 DEF StoreItem, TypeOK, OwnerInv, ContextInv, ContextIsExclusive, Running,
       sessionVars, contextVars, requestVars
  <2>11. CASE ChangeSession(r)
    BY <2>11 DEF ChangeSession, Makes, Made, Goto, TypeOK, OwnerInv, ContextInv,
       ContextIsExclusive, Running,
       sessionVars, contextVars, requestVars
  <2>12. CASE SetNewSession(r)
    BY <2>12 DEF SetNewSession, SetUAGSession, Goto, TypeOK, OwnerInv, ContextInv,
       ContextIsExclusive, Running,
       sessionVars, contextVars, requestVars
  <2>13. CASE AddSession(r)
    BY <2>13 DEF AddSession, AttachesStorage, Goto, TypeOK, OwnerInv, ContextInv,
       ContextIsExclusive, Running,
       sessionVars, contextVars, requestVars
  <2>14. CASE ReleaseJSContext(r)
    BY <2>14 DEF ReleaseJSContext, Goto, TypeOK, OwnerInv, ContextInv,
       ContextIsExclusive, Running,
       sessionVars, contextVars, requestVars
  <2>15. CASE ReleaseContext(r)
    BY <2>15 DEF ReleaseContext, Forgets, Goto, TypeOK, OwnerInv, ContextInv,
       ContextIsExclusive, Running,
       sessionVars, contextVars, requestVars
  <2>16. CASE Respond(r)
    BY <2>16 DEF Respond, Goto, TypeOK, OwnerInv, ContextInv, ContextIsExclusive, Running,
       sessionVars, contextVars, requestVars
  <2>17. QED
    BY <1>1, <2>1, <2>2, <2>3, <2>4, <2>5, <2>6, <2>7, <2>8, <2>9, <2>10, <2>11, <2>12,
       <2>13, <2>14, <2>15, <2>16 DEF RequestNext
<1>2. ASSUME NEW s \in Sessions, Expire(s)
      PROVE  ContextInv'
  BY <1>2 DEF Expire, TypeOK, OwnerInv, ContextInv, ContextIsExclusive, Running,
       contextVars, requestVars
<1>3. ASSUME NEW c \in Contexts, DestroyContext(c)
      PROVE  ContextInv'
  BY <1>3 DEF DestroyContext, Forgets, TypeOK, OwnerInv, ContextInv,
       ContextIsExclusive, Running, sessionVars, requestVars
<1>4. CASE UNCHANGED vars
  BY <1>4 DEF vars, TypeOK, OwnerInv, ContextInv, ContextIsExclusive, Running,
       sessionVars, contextVars, requestVars
<1>5. QED
  BY <1>1, <1>2, <1>3, <1>4 DEF Next, Done

\* login() and logout() add their session before it can reach a cookie, and only
\* an expired session is removed.
LEMMA KnownStep ==
  ASSUME SessionInv, [Next]_vars
  PROVE  KnownInv'
<1> USE SessionAssumption DEF SessionInv
<1>1. ASSUME NEW r \in Requests, RequestNext(r)
      PROVE  KnownInv'
  <2>1. CASE SendRequest(r)
    BY <2>1 DEF SendRequest, Goto, TypeOK, OwnerInv, ContextInv, KnownInv,
       CookieIsRegistered, Known, Running,
       sessionVars, contextVars, requestVars
  <2>2. CASE RetainSessionFromCookie(r)
    BY <2>2 DEF RetainSessionFromCookie, Goto, TypeOK, OwnerInv, ContextInv, KnownInv,
       CookieIsRegistered, Known, Running,
       sessionVars, contextVars, requestVars
  <2>3. CASE RemoveSession(r)
    BY <2>3 DEF RemoveSession, Goto, TypeOK, OwnerInv, ContextInv, KnownInv,
       CookieIsRegistered, Known, Running,
       sessionVars, contextVars, requestVars
  <2>4. CASE TakeContext(r)
    BY <2>4 DEF TakeContext, Goto, TypeOK, OwnerInv, ContextInv, KnownInv,
       CookieIsRegistered, Known, Running,
       sessionVars, contextVars, requestVars
  <2>5. CASE NewContext(r)
    BY <2>5 DEF NewContext, Goto, TypeOK, OwnerInv, ContextInv, KnownInv,
       CookieIsRegistered, Known, Running,
       sessionVars, contextVars, requestVars
  <2>6. CASE RetainFails(r)
    BY <2>6 DEF RetainFails, Goto, TypeOK, OwnerInv, ContextInv, KnownInv,
       CookieIsRegistered, Known, Running,
       sessionVars, contextVars, requestVars
  <2>7. CASE MakeDefaultSession(r)
    BY <2>7 DEF MakeDefaultSession, Makes, Made, TypeOK, OwnerInv, ContextInv,
       KnownInv, CookieIsRegistered, Known, Running,
       sessionVars, contextVars, requestVars
  <2>8. CASE UpdateContext(r)
    BY <2>8 DEF UpdateContext, SetUAGSession, Goto, TypeOK, OwnerInv, ContextInv,
       KnownInv, CookieIsRegistered, Known, Running,
       sessionVars, contextVars, requestVars
  <2>9. CASE RetainJSContextEnds(r)
    BY <2>9 DEF RetainJSContextEnds, AttachesStorage, Goto, TypeOK, OwnerInv,
       ContextInv, KnownInv, CookieIsRegistered, Known, Running,
       sessionVars, contextVars, requestVars
  <2>10. CASE StoreItem(r)
    BY <2>10 DEF StoreItem, TypeOK, OwnerInv, ContextInv, KnownInv, CookieIsRegistered,
       Known, Running,
       sessionVars, contextVars, requestVars
  <2>11. CASE ChangeSession(r)
    BY <2>11 DEF ChangeSession, Makes, Made, Goto, TypeOK, OwnerInv, ContextInv,
       KnownInv, CookieIsRegistered, Known, Running,
       sessionVars, contextVars, requestVars
  <2>12. CASE SetNewSession(r)
    BY <2>12 DEF SetNewSession, SetUAGSession, Goto, TypeOK, OwnerInv, ContextInv,
       ContextIsExclusive, KnownInv, CookieIsRegistered, Known, Running,
       sessionVars, contextVars, requestVars
  <2>13. CASE AddSession(r)
    BY <2>13 DEF AddSession, AttachesStorage, Goto, TypeOK, OwnerInv, ContextInv,
       KnownInv, CookieIsRegistered, Known, Running,
       sessionVars, contextVars, requestVars
  <2>14. CASE ReleaseJSContext(r)
    BY <2>14 DEF ReleaseJSContext, Goto, TypeOK, OwnerInv, ContextInv, KnownInv,
       CookieIsRegistered, Known, Running,
       sessionVars, contextVars, requestVars
  <2>15. CASE ReleaseContext(r)
    BY <2>15 DEF ReleaseContext, Forgets, Goto, TypeOK, OwnerInv, ContextInv,
       ContextIsExclusive, KnownInv, CookieIsRegistered, Known, Running,
       sessionVars, contextVars, requestVars
  <2>16. CASE Respond(r)
    BY <2>16 DEF Respond, Goto, TypeOK, OwnerInv, ContextInv, KnownInv,
       CookieIsRegistered, Known, Running,
       sessionVars, contextVars, requestVars
  <2>17. QED
    BY <1>1, <2>1, <2>2, <2>3, <2>4, <2>5, <2>6, <2>7, <2>8, <2>9, <2>10, <2>11, <2>12,
       <2>13, <2>14, <2>15, <2>16 DEF RequestNext
<1>2. ASSUME NEW s \in Sessions, Expire(s)
      PROVE  KnownInv'
  BY <1>2 DEF Expire, TypeOK, OwnerInv, ContextInv, KnownInv, CookieIsRegistered,
       Known, Running, contextVars, requestVars
<1>3. ASSUME NEW c \in Contexts, DestroyContext(c)
      PROVE  KnownInv'
  BY <1>3 DEF DestroyContext, Forgets, TypeOK, OwnerInv, ContextInv,
       ContextIsExclusive, KnownInv, CookieIsRegistered, Known, Running, sessionVars, requestVars
<1>4. CASE UNCHANGED vars
  BY <1>4 DEF vars, TypeOK, OwnerInv, ContextInv, KnownInv, CookieIsRegistered, Known,
       Running, sessionVars, contextVars, requestVars
<1>5. QED
  BY <1>1, <1>2, <1>3, <1>4 DEF Next, Done

-----------------------------------------------------------------------------
(* The theorems.                                                            *)

\* The invariant holds in every reachable state: no retain, script, login,
\* logout, release, expiration or deletion of a context breaks it.
THEOREM SessionInvariance == Spec => []SessionInv
<1>1. Init => SessionInv
  BY SessionAssumption DEF Init, SessionInv, TypeOK, Steps, OwnerInv, ContextInv,
     ContextIsExclusive, KnownInv, CookieIsRegistered, Known, Running
<1>2. SessionInv /\ [Next]_vars => SessionInv'
  BY TypeStep, OwnerStep, ContextStep, KnownStep DEF SessionInv
<1>3. QED
  BY <1>1, <1>2, PTL DEF Spec

\* The storage a script writes to, the session a context hands over and every
\* other variable stay within their types.
THEOREM SessionTypeCorrect == Spec => []TypeOK
<1>1. SessionInv => TypeOK
  BY DEF SessionInv
<1>2. QED
  BY <1>1, SessionInvariance, PTL

\* A script runs in a session made for the client of its request, although the
\* pooled context arrives with the session of the last request it served.
THEOREM OwnSession == Spec => []ScriptRunsInOwnSession
<1>1. SessionInv => ScriptRunsInOwnSession
  BY DEF SessionInv, ContextInv, Running, ScriptRunsInOwnSession
<1>2. QED
  BY <1>1, SessionInvariance, PTL

\* The session manager knows the session of every cookie a client was given.
THEOREM CookiesAreRegistered == Spec => []CookieIsRegistered
<1>1. SessionInv => CookieIsRegistered
  BY DEF SessionInv, KnownInv
<1>2. QED
  BY <1>1, SessionInvariance, PTL

\* No two requests run in one context, and none in a context at rest, however
\* stale the address is that their session prefers.
THEOREM ExclusiveContext == Spec => []ContextIsExclusive
<1>1. SessionInv => ContextIsExclusive
  BY DEF SessionInv, ContextInv
<1>2. QED
  BY <1>1, SessionInvariance, PTL
=============================================================================
