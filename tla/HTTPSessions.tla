------------------------------ MODULE HTTPSessions ------------------------------
(***************************************************************************)
(* The session of an HTTP request: VRIAServerProject::RetainJSContext and  *)
(* ReleaseJSContext, VRIAHTTPSessionManager, and SetUAGSession of the      *)
(* JavaScript runtime context.  A request finds its session by the cookie  *)
(* of its client, or gets a default one, and runs in a pooled JavaScript   *)
(* context that still remembers the session it ran before.                 *)
(*                                                                         *)
(* CUAGSession is external: the code in src/ shows that a session is a     *)
(* default one or not, owns a storage object that is empty or not, may     *)
(* expire, and remembers its last JavaScript context by its address.       *)
(***************************************************************************)
EXTENDS Naturals, FiniteSets

CONSTANTS Clients,   \* HTTP clients, each with one WASID cookie
          Requests,  \* request threads
          Sessions,  \* bound: the CUAGSession objects ever made
          Contexts,  \* addresses of VJSGlobalContext objects
          None       \* no session, no context, no client

ASSUME SessionAssumption == None \notin Clients \cup Sessions \cup Contexts

VARIABLES
  fSessions,   \* the session manager's map
  isDefault,   \* sessions that are default ones
  expired,     \* sessions whose lifetime is over
  storage,     \* per session: its storage object, named by who made it
  filled,      \* storage objects that are not empty
  lastContext, \* per session: GetLastUsedJSContext
  owner,       \* history: the client for whose request the session was made
  cookie,      \* per client: the cookie it sends
  unused,      \* the contexts at rest in the pool
  current,     \* per context: fCurrentUAGSession
  attached,    \* per context: the storage behind its sessionStorage
  pc, client,   \* per request: where it is, who sent it
  session, prefered, context  \* per request: what it retains

sessionVars == <<fSessions, isDefault, expired, storage, filled, lastContext, owner>>
contextVars == <<unused, current, attached>>
requestVars == <<pc, client, session, prefered, context>>
vars == <<sessionVars, cookie, contextVars, requestVars>>

Steps == {"idle", "received", "expired", "retain", "session", "opened",
          "add", "attach", "using", "release", "respond"}

TypeOK ==
  /\ fSessions \subseteq Sessions /\ isDefault \subseteq Sessions
  /\ expired \subseteq Sessions /\ filled \subseteq Sessions
  /\ storage \in [Sessions -> Sessions]
  /\ lastContext \in [Sessions -> Contexts \cup {None}]
  /\ owner \in [Sessions -> Clients \cup {None}]
  /\ cookie \in [Clients -> Sessions \cup {None}]
  /\ unused \subseteq Contexts
  /\ current \in [Contexts -> Sessions \cup {None}]
  /\ attached \in [Contexts -> Sessions \cup {None}]
  /\ pc \in [Requests -> Steps] /\ client \in [Requests -> Clients \cup {None}]
  /\ session \in [Requests -> Sessions \cup {None}]
  /\ prefered \in [Requests -> Contexts \cup {None}]
  /\ context \in [Requests -> Contexts \cup {None}]

Init ==
  /\ fSessions = {} /\ isDefault = {} /\ expired = {} /\ filled = {}
  /\ storage = [s \in Sessions |-> s]
  /\ lastContext = [s \in Sessions |-> None] /\ owner = [s \in Sessions |-> None]
  /\ cookie = [k \in Clients |-> None]
  /\ unused = {}
  /\ current = [c \in Contexts |-> None] /\ attached = [c \in Contexts |-> None]
  /\ pc = [r \in Requests |-> "idle"] /\ client = [r \in Requests |-> None]
  /\ session = [r \in Requests |-> None] /\ prefered = [r \in Requests |-> None]
  /\ context = [r \in Requests |-> None]

Goto(r, step) == pc' = [pc EXCEPT ![r] = step]
Made(s) == owner[s] # None

\* Bound: a session is left for every request that may have to make one.
SessionsLeft ==
  Cardinality({r \in Requests : pc[r] \in {"received", "expired", "retain", "session"}})
    < Cardinality({s \in Sessions : ~Made(s)})

-----------------------------------------------------------------------------
(* RetainJSContext.                                                         *)

\* The client sends a request with its cookie; the server handles it later.
SendRequest(r) ==
  /\ pc[r] = "idle" /\ SessionsLeft
  /\ \E k \in Clients : /\ client' = [client EXCEPT ![r] = k]
                        /\ session' = [session EXCEPT ![r] = cookie[k]]
  /\ Goto(r, "received")
  /\ UNCHANGED <<sessionVars, cookie, contextVars, prefered, context>>

\* RetainSessionFromCookie, hasExpired and GetLastUsedJSContext.
RetainSessionFromCookie(r) ==
  LET s == IF session[r] \in fSessions THEN session[r] ELSE None
  IN /\ pc[r] = "received"
     /\ session' = [session EXCEPT ![r] = s]
     /\ IF s \in expired
        THEN Goto(r, "expired") /\ UNCHANGED prefered
        ELSE /\ Goto(r, "retain")
             /\ prefered' = [prefered EXCEPT ![r] = IF s = None THEN None ELSE lastContext[s]]
     /\ UNCHANGED <<sessionVars, cookie, contextVars, client, context>>

RemoveSession(r) ==
  /\ pc[r] = "expired"
  /\ fSessions' = fSessions \ {session[r]}
  /\ session' = [session EXCEPT ![r] = None]
  /\ Goto(r, "retain")
  /\ UNCHANGED <<isDefault, expired, storage, filled, lastContext, owner, cookie,
                 contextVars, client, prefered, context>>

\* The pool prefers the context the session ran in last, then any unused one.
TakeContext(r) ==
  /\ pc[r] = "retain"
  /\ \E c \in unused :
       /\ prefered[r] \in unused => c = prefered[r]
       /\ unused' = unused \ {c}
       /\ context' = [context EXCEPT ![r] = c]
  /\ Goto(r, "session")
  /\ UNCHANGED <<sessionVars, cookie, current, attached, client, session, prefered>>

\* A new context, with inReusable false or none unused, may have the address of
\* one that was destroyed.
NewContext(r) ==
  /\ pc[r] = "retain"
  /\ \E c \in Contexts \ (unused \cup {context[x] : x \in Requests}) :
       context' = [context EXCEPT ![r] = c]
  /\ Goto(r, "session")
  /\ UNCHANGED <<sessionVars, cookie, contextVars, client, session, prefered>>

\* The pool is disabled: the request is not served.
RetainFails(r) ==
  /\ pc[r] = "retain"
  /\ session' = [session EXCEPT ![r] = None]
  /\ prefered' = [prefered EXCEPT ![r] = None]
  /\ client' = [client EXCEPT ![r] = None]
  /\ Goto(r, "idle")
  /\ UNCHANGED <<sessionVars, cookie, contextVars, context>>

\* A new session object of the directory, for request r.
Makes(r, s) ==
  /\ ~Made(s)
  /\ owner' = [owner EXCEPT ![s] = client[r]]
  /\ session' = [session EXCEPT ![r] = s]

\* MakeDefaultSession and AddSession when the cookie gave no session.
MakeDefaultSession(r) ==
  /\ pc[r] = "session" /\ session[r] = None
  /\ \E s \in Sessions : /\ Makes(r, s)
                         /\ isDefault' = isDefault \cup {s}
                         /\ fSessions' = fSessions \cup {s}
  /\ UNCHANGED <<expired, storage, filled, lastContext, cookie, contextVars, pc, client,
                 prefered, context>>

\* SetUAGSession, first part: the session the context ran before hands its
\* storage on when it is a default one and not empty.
SetUAGSession(r) ==
  LET c == context[r]
      old == current[c]
  IN /\ storage' = IF old \in isDefault /\ storage[old] \in filled
                   THEN [storage EXCEPT ![session[r]] = storage[old]] ELSE storage
     /\ current' = [current EXCEPT ![c] = session[r]]

\* SetUAGSession, last part: the property sessionStorage of the global object.
AttachesStorage(r) ==
  attached' = [attached EXCEPT ![context[r]] = storage[current[context[r]]]]

\* Seeded fault: a context that already has a session is not updated.
KeepSession(r) ==
  /\ pc[r] = "session" /\ session[r] # None
  /\ IF current[context[r]] = None THEN SetUAGSession(r) ELSE UNCHANGED <<storage, current>>
  /\ Goto(r, "attach")
  /\ UNCHANGED <<fSessions, isDefault, expired, filled, lastContext, owner, cookie,
                 unused, attached, client, session, prefered, context>>

\* "Update the context with this session".
UpdateContext(r) ==
  /\ pc[r] = "session" /\ session[r] # None
  /\ SetUAGSession(r)
  /\ Goto(r, "attach")
  /\ UNCHANGED <<fSessions, isDefault, expired, filled, lastContext, owner, cookie,
                 unused, attached, client, session, prefered, context>>

\* The end of SetUAGSession, and SetLastUsedJSContext.
RetainJSContextEnds(r) ==
  /\ pc[r] = "attach"
  /\ AttachesStorage(r)
  /\ lastContext' = [lastContext EXCEPT ![session[r]] = context[r]]
  /\ Goto(r, "using")
  /\ UNCHANGED <<fSessions, isDefault, expired, storage, filled, owner, cookie, unused,
                 current, client, session, prefered, context>>

-----------------------------------------------------------------------------
(* The script, and the end of the session's lifetime.                       *)

StoreItem(r) ==
  /\ pc[r] = "using"
  /\ filled' = filled \cup {attached[context[r]]}
  /\ UNCHANGED <<fSessions, isDefault, expired, storage, lastContext, owner, cookie,
                 contextVars, requestVars>>

\* login() opens a session, logout() makes a default one: both then call
\* SetUAGSession(session, true).
ChangeSession(r) ==
  /\ pc[r] = "using" /\ SessionsLeft
  /\ \E s \in Sessions : Makes(r, s) /\ isDefault' \in {isDefault, isDefault \cup {s}}
  /\ Goto(r, "opened")
  /\ UNCHANGED <<fSessions, expired, storage, filled, lastContext, cookie, contextVars, client,
                 prefered, context>>

SetNewSession(r) ==
  /\ pc[r] = "opened"
  /\ SetUAGSession(r)
  /\ Goto(r, "add")
  /\ UNCHANGED <<fSessions, isDefault, expired, filled, lastContext, owner, cookie,
                 unused, attached, client, session, prefered, context>>

\* Seeded fault: the session is not added, the default of addSession.
AddNothing(r) ==
  /\ pc[r] = "add"
  /\ AttachesStorage(r)
  /\ Goto(r, "using")
  /\ UNCHANGED <<sessionVars, cookie, unused, current, client, session, prefered, context>>

\* AddSession of fCurrentUAGSession, and the end of SetUAGSession.
AddSession(r) ==
  /\ pc[r] = "add"
  /\ fSessions' = fSessions \cup {current[context[r]]}
  /\ AttachesStorage(r)
  /\ Goto(r, "using")
  /\ UNCHANGED <<isDefault, expired, storage, filled, lastContext, owner, cookie, unused,
                 current, client, session, prefered, context>>

Expire(s) ==
  /\ s \in fSessions \ expired
  /\ expired' = expired \cup {s}
  /\ UNCHANGED <<fSessions, isDefault, storage, filled, lastContext, owner, cookie,
                 contextVars, requestVars>>

-----------------------------------------------------------------------------
(* ReleaseJSContext.                                                        *)

\* What a destroyed context knew is gone.
Forgets(c) == /\ current' = [current EXCEPT ![c] = None]
              /\ attached' = [attached EXCEPT ![c] = None]

\* RetainUAGSession of the context, and SetCookie in the response.
ReleaseJSContext(r) ==
  /\ pc[r] = "using"
  /\ session' = [session EXCEPT ![r] = current[context[r]]]
  /\ Goto(r, "release")
  /\ UNCHANGED <<sessionVars, cookie, contextVars, client, prefered, context>>

\* Seeded fault: the context given back is the one the session preferred.
ReleasePrefered(r) ==
  /\ pc[r] = "release"
  /\ \/ unused' = unused \cup {prefered[r]} /\ UNCHANGED <<current, attached>>
     \/ Forgets(context[r]) /\ UNCHANGED unused
  /\ context' = [context EXCEPT ![r] = None]
  /\ prefered' = [prefered EXCEPT ![r] = None]
  /\ Goto(r, "respond")
  /\ UNCHANGED <<sessionVars, cookie, client, session>>

\* The pool keeps the context, which remembers its session, or destroys it.
ReleaseContext(r) ==
  /\ pc[r] = "release"
  /\ \/ unused' = unused \cup {context[r]} /\ UNCHANGED <<current, attached>>
     \/ Forgets(context[r]) /\ UNCHANGED unused
  /\ context' = [context EXCEPT ![r] = None]
  /\ prefered' = [prefered EXCEPT ![r] = None]
  /\ Goto(r, "respond")
  /\ UNCHANGED <<sessionVars, cookie, client, session>>

\* The client receives the response and its cookie, or the response is lost.
Respond(r) ==
  /\ pc[r] = "respond"
  /\ \/ cookie' = [cookie EXCEPT ![client[r]] = session[r]]
     \/ UNCHANGED cookie
  /\ session' = [session EXCEPT ![r] = None]
  /\ client' = [client EXCEPT ![r] = None]
  /\ Goto(r, "idle")
  /\ UNCHANGED <<sessionVars, contextVars, prefered, context>>

\* Clear() of the pool, or a change of an included file, destroys a context.
DestroyContext(c) ==
  /\ c \in unused
  /\ unused' = unused \ {c}
  /\ Forgets(c)
  /\ UNCHANGED <<sessionVars, cookie, requestVars>>

-----------------------------------------------------------------------------
RequestNext(r) ==
  \/ SendRequest(r) \/ RetainSessionFromCookie(r) \/ RemoveSession(r)
  \/ TakeContext(r) \/ NewContext(r) \/ RetainFails(r)
  \/ MakeDefaultSession(r) \/ UpdateContext(r) \/ RetainJSContextEnds(r)
  \/ StoreItem(r) \/ ChangeSession(r) \/ SetNewSession(r) \/ AddSession(r)
  \/ ReleaseJSContext(r) \/ ReleaseContext(r) \/ Respond(r)

\* All the sessions of the bound have been made and every request is answered.
Done == (\A r \in Requests : pc[r] = "idle") /\ ~SessionsLeft /\ UNCHANGED vars

Next == \/ \E r \in Requests : RequestNext(r)
        \/ \E s \in Sessions : Expire(s)
        \/ \E c \in Contexts : DestroyContext(c)
        \/ Done

Spec == Init /\ [][Next]_vars

-----------------------------------------------------------------------------
(* Properties.                                                              *)

\* A context of the pool remembers the session of its last request, yet a
\* script runs in a session that was made for its own client, from the end of
\* RetainJSContext until the cookie is set.
ScriptRunsInOwnSession ==
  \A r \in Requests : pc[r] \in {"using", "opened", "add", "release"} =>
    owner[current[context[r]]] = client[r]

\* The session manager knows the session of every cookie a client was given,
\* unless its lifetime is over: the next request of the client finds it.
CookieIsRegistered ==
  \A k \in Clients : cookie[k] # None => cookie[k] \in fSessions \cup expired

\* The context a session prefers is an address that may have been destroyed or
\* taken by somebody else: no two requests run in one context for all that.
ContextIsExclusive ==
  \A r \in Requests : context[r] # None =>
    /\ context[r] \notin unused
    /\ \A x \in Requests \ {r} : context[x] # context[r]

\* "Update the context with this session": RetainJSContext leaves the storage
\* of the session as it is.
RetainKeepsStorage ==
  [][\A r \in Requests : pc[r] = "session" /\ pc'[r] = "attach" => storage' = storage]_vars
================================================================================
