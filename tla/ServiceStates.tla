------------------------------ MODULE ServiceStates ------------------------------
(***************************************************************************)
(* The services of an application: the JavaScript modules dataStore, rpc   *)
(* and webApp keep the state of each service in the storage of the         *)
(* application and enable the native services; the application tells them  *)
(* by messages that it starts, stops, or reloads its catalog, and that its *)
(* HTTP server has started or will stop.  A message is handled in a        *)
(* JavaScript context of its own, on the thread that posts it: the main    *)
(* task and the request threads may handle messages at the same time.      *)
(*                                                                         *)
(* External: registration of the services (projectBootStrap.js), and the   *)
(* HTTP server project, which may refuse a request handler and never fails *)
(* to remove one that it has.                                              *)
(***************************************************************************)
EXTENDS Naturals

CONSTANTS Main,      \* the main task: starts and stops the application
          Requests,  \* request threads: reload, start HTTP, run scripts
          Services,  \* the services that are registered
          AutoStart, \* those whose settings say autoStart
          None       \* no service, no message

ASSUME ServicesAssumption ==
  /\ Main \notin Requests
  /\ Services \subseteq {"dataStore", "rpc", "webApp"}
  /\ AutoStart \subseteq Services
  /\ None \notin Services

VARIABLES
  stored,      \* the item 'services' of the application's storage: the states
  enabled,     \* the native services whose handler pointers are set
  installed,   \* the request handlers the HTTP server project has
  attached,    \* VDataService::fDatabase is not NULL
  poolEnabled, \* the context pool of the application is enabled
  processing,  \* the HTTP server is started
  running,     \* fState.started
  at,          \* per thread: what it does when no message is being handled
  phase,       \* per thread: where it is in a message
  message, todo, service, copy, \* per thread: of the message being handled
  savedEnabled, clearEnabled,   \* per thread: flags saved by a reload, by a Clear
  mishaps      \* history: what has gone wrong so far

stateVars == <<stored, enabled, installed, attached>>
flagVars == <<poolEnabled, processing, running>>
messageVars == <<phase, message, todo, service, copy>>
savedVars == <<savedEnabled, clearEnabled>>
vars == <<stateVars, flagVars, at, messageVars, savedVars, mishaps>>

Threads == Requests \cup {Main}
States == {"new", "STOPPED", "STARTED", "PAUSED"}
Messages == {"applicationWillStart", "applicationWillStop", "httpServerDidStart",
             "httpServerWillStop", "catalogWillReload", "catalogDidReload",
             "start", "stop"}
Phases == {"none", "next", "init", "enable", "test", "read", "write"}
Places == {"idle", "autoStart", "started", "stopHTTP", "stopProcessing", "disablePool",
           "clear", "cleared", "haltHTTP", "detach", "disable", "drop", "dropped",
           "close", "reopen", "attach", "restore", "announce", "unlock"}
Mishaps == {"collided", "overwritten", "intruded", "lost", "refused", "late"}
Blank == [s \in Services |-> "new"]

HandlersOf(s) == CASE s = "dataStore" -> {"rest"}
                   [] s = "rpc"       -> {"methods", "proxy"}
                   [] s = "webApp"    -> {"pages"}

TypeOK ==
  /\ stored \in [Services -> States]
  /\ enabled \subseteq Services
  /\ installed \subseteq {"rest", "methods", "proxy", "pages"}
  /\ attached \in BOOLEAN /\ poolEnabled \in BOOLEAN
  /\ processing \in BOOLEAN /\ running \in BOOLEAN
  /\ at \in [Threads -> Places] /\ phase \in [Threads -> Phases]
  /\ message \in [Threads -> Messages \cup {None}]
  /\ todo \in [Threads -> SUBSET Services]
  /\ service \in [Threads -> Services \cup {None}]
  /\ copy \in [Threads -> [Services -> States]]
  /\ savedEnabled \in [Threads -> BOOLEAN] /\ clearEnabled \in [Threads -> BOOLEAN]
  /\ mishaps \subseteq Mishaps

\* The application has been opened, with or without a database, and the
\* bootstrap has registered the services.
Init ==
  /\ stored = Blank /\ enabled = {} /\ installed = {}
  /\ attached \in BOOLEAN
  /\ poolEnabled = FALSE /\ processing = FALSE /\ running = FALSE
  /\ at = [t \in Threads |-> "idle"] /\ phase = [t \in Threads |-> "none"]
  /\ message = [t \in Threads |-> None] /\ todo = [t \in Threads |-> {}]
  /\ service = [t \in Threads |-> None]
  /\ copy = [t \in Threads |-> Blank]
  /\ savedEnabled = [t \in Threads |-> FALSE]
  /\ clearEnabled = [t \in Threads |-> FALSE]
  /\ mishaps = {}

-----------------------------------------------------------------------------
(* What a service does with a message.                                      *)

\* Seeded fault: the start of the HTTP server is not listened to.
CommandWithoutResume(m, s) ==
  CASE m = "applicationWillStart" /\ s \in AutoStart -> "start"
    [] m = "start"                                   -> "start"
    [] m \in {"applicationWillStop", "stop"}         -> "stop"
    [] m = "httpServerWillStop"                      -> "pause"
    [] m = "catalogWillReload" /\ s = "dataStore"    -> "pause"
    [] m = "catalogDidReload" /\ s = "dataStore"     -> "resume"
    [] OTHER                                         -> "nothing"

\* The function of the service that postMessage calls; scripts call start and
\* stop themselves.
Command(m, s) ==
  CASE m = "applicationWillStart" /\ s \in AutoStart -> "start"
    [] m = "start"                                   -> "start"
    [] m \in {"applicationWillStop", "stop"}         -> "stop"
    [] m = "httpServerWillStop"                      -> "pause"
    [] m = "httpServerDidStart"                      -> "resume"
    [] m = "catalogWillReload" /\ s = "dataStore"    -> "pause"
    [] m = "catalogDidReload" /\ s = "dataStore"     -> "resume"
    [] OTHER                                         -> "nothing"

\* The state in which start, stop, pause and resume do something ...
Allows(c, state) ==
  \/ c = "start"  /\ state = "STOPPED"
  \/ c = "stop"   /\ state \in {"STARTED", "PAUSED"}
  \/ c = "pause"  /\ state = "STARTED"
  \/ c = "resume" /\ state = "PAUSED"

\* Seeded fault: a state that no function of the service knows.
ReachedRunning(c) ==
  CASE c = "stop" -> "STOPPED" [] c = "pause" -> "PAUSED" [] OTHER -> "RUNNING"

\* ... and the state they leave.
Reached(c) == CASE c = "stop" -> "STOPPED" [] c = "pause" -> "PAUSED" [] OTHER -> "STARTED"

Enables(c) == c \in {"start", "resume"}
Doing(t) == Command(message[t], service[t])
Handling(t) == phase[t] # "none"
Told(m) == {s \in Services : Command(m, s) # "nothing"}

\* A thread is between the load of a service's state and its last save.
InHand(t, s) == service[t] = s

-----------------------------------------------------------------------------
(* The messages.                                                            *)

Enters(t, m, services) ==
  /\ phase' = [phase EXCEPT ![t] = "next"]
  /\ message' = [message EXCEPT ![t] = m]
  /\ todo' = [todo EXCEPT ![t] = services]
  /\ UNCHANGED <<service, copy>>

\* _PostServicesMessage: a disabled pool gives no context and the message is
\* lost; mishaps notes it if it mattered.  Then the thread goes on to step.
Post(t, m, step) ==
  /\ at' = [at EXCEPT ![t] = step]
  /\ \/ poolEnabled /\ Enters(t, m, Told(m)) /\ UNCHANGED mishaps
     \/ /\ ~poolEnabled
        /\ mishaps' = mishaps \cup
             IF \/ \E s \in Told(m) : Allows(Command(m, s), stored[s])
                \/ \E u \in Threads \ {t} : Handling(u)
             THEN {"lost"} ELSE {}
        /\ UNCHANGED messageVars

\* A script calls start() or stop() of a service.
ScriptCalls(t) ==
  /\ at[t] = "idle" /\ ~Handling(t) /\ poolEnabled /\ t # Main
  /\ \E m \in {"start", "stop"}, s \in Services : Enters(t, m, {s})
  /\ UNCHANGED <<stateVars, flagVars, at, savedVars, mishaps>>

\* The next service, in any order; _loadContext reads the states.
LoadContext(t) ==
  /\ phase[t] = "next"
  /\ \E s \in todo[t] :
       /\ todo' = [todo EXCEPT ![t] = @ \ {s}]
       /\ \/ /\ stored[s] = "new"
             /\ phase' = [phase EXCEPT ![t] = "init"]
             /\ service' = [service EXCEPT ![t] = s]
             /\ copy' = [copy EXCEPT ![t] = stored]
          \/ /\ Allows(Command(message[t], s), stored[s])
             /\ phase' = [phase EXCEPT ![t] = "enable"]
             /\ service' = [service EXCEPT ![t] = s]
             /\ UNCHANGED copy
          \/ /\ stored[s] # "new" /\ ~Allows(Command(message[t], s), stored[s])
             /\ UNCHANGED <<phase, service, copy>>
       /\ mishaps' = mishaps \cup
            IF \E u \in Threads \ {t} : InHand(u, s) THEN {"collided"} ELSE {}
  /\ UNCHANGED <<stateVars, flagVars, at, message, savedVars>>

\* setItem: all states are written back as they were read, but for one.
WriteBack(t, state) ==
  /\ stored' = [copy[t] EXCEPT ![service[t]] = state]
  /\ copy' = [copy EXCEPT ![t] = Blank]
  /\ mishaps' = mishaps \cup
       IF \E s \in Services \ {service[t]} : copy[t][s] # stored[s]
       THEN {"overwritten"} ELSE {}

\* _loadContext of a service without a state.
InitializeContext(t) ==
  /\ phase[t] = "init"
  /\ WriteBack(t, "STOPPED")
  /\ \/ /\ Allows(Doing(t), "STOPPED")
        /\ phase' = [phase EXCEPT ![t] = "enable"]
        /\ UNCHANGED service
     \/ /\ ~Allows(Doing(t), "STOPPED")
        /\ phase' = [phase EXCEPT ![t] = "next"]
        /\ service' = [service EXCEPT ![t] = None]
  /\ UNCHANGED <<enabled, installed, attached, flagVars, at, message, todo, savedVars>>

\* Seeded fault: the first handler stays.
RPCHandlersKeepsFirst(methodsAdded, proxyAdded) ==
  IF methodsAdded THEN (IF proxyAdded THEN HandlersOf("rpc") ELSE {"methods"}) ELSE {}

\* The two request handlers of the RPC service: the first is removed again
\* when the second cannot be added.
RPCHandlers(methodsAdded, proxyAdded) ==
  IF methodsAdded /\ proxyAdded THEN HandlersOf("rpc") ELSE {}

\* The handlers that enabling a service may install.
Added(s) ==
  CASE s = "rpc"       -> {RPCHandlers(first, second) : first, second \in BOOLEAN}
    [] s = "dataStore" -> IF attached THEN {HandlersOf(s), {}} ELSE {{}}
    [] s = "webApp"    -> {HandlersOf(s)}

\* The data service is enabled while a reload has it paused.
Intrudes(t) == service[t] = "dataStore" /\ \E r \in Requests \ {t} : at[r] = "detach"

\* A service is enabled by a script after the application told it to stop.
Late == \/ at[Main] \in {"stopHTTP", "stopProcessing", "disablePool", "clear", "cleared"}
        \/ at[Main] \in {"idle", "haltHTTP"} /\ ~running

\* SetEnabled(true): nothing when the service is enabled.
Enable(t) ==
  /\ phase[t] = "enable" /\ Enables(Doing(t))
  /\ \E added \in IF service[t] \in enabled THEN {{}} ELSE Added(service[t]) :
       /\ installed' = installed \cup added
       /\ enabled' = IF HandlersOf(service[t]) \subseteq added
                     THEN enabled \cup {service[t]} ELSE enabled
  /\ mishaps' = mishaps \cup (IF service[t] \in enabled' THEN {} ELSE {"refused"})
                        \cup (IF Intrudes(t) THEN {"intruded"} ELSE {})
                        \cup (IF Late THEN {"late"} ELSE {})
  /\ phase' = [phase EXCEPT ![t] = "test"]
  /\ UNCHANGED <<stored, attached, flagVars, at, message, todo, service, copy, savedVars>>

\* SetEnabled(false).
Disable(t) ==
  /\ phase[t] = "enable" /\ ~Enables(Doing(t))
  /\ enabled' = enabled \ {service[t]}
  /\ installed' = IF service[t] \in enabled THEN installed \ HandlersOf(service[t])
                                            ELSE installed
  /\ phase' = [phase EXCEPT ![t] = "test"]
  /\ UNCHANGED <<stored, attached, flagVars, at, message, todo, service, copy, savedVars,
                 mishaps>>

\* Seeded fault: the state is saved although the handler was refused.
TestNothing(t) ==
  /\ phase[t] = "test"
  /\ phase' = [phase EXCEPT ![t] = "read"]
  /\ UNCHANGED <<stateVars, flagVars, at, message, todo, service, copy, savedVars, mishaps>>

\* The read of the property enabled: it may not be what was asked for.
TestEnabled(t) ==
  /\ phase[t] = "test"
  /\ \/ /\ service[t] \in enabled <=> Enables(Doing(t))
        /\ phase' = [phase EXCEPT ![t] = "read"]
        /\ UNCHANGED service
     \/ /\ ~(service[t] \in enabled <=> Enables(Doing(t)))
        /\ phase' = [phase EXCEPT ![t] = "next"]
        /\ service' = [service EXCEPT ![t] = None]
  /\ UNCHANGED <<stateVars, flagVars, at, message, todo, copy, savedVars, mishaps>>

\* _saveContext reads all states again ...
SaveContextReads(t) ==
  /\ phase[t] = "read"
  /\ copy' = [copy EXCEPT ![t] = stored]
  /\ phase' = [phase EXCEPT ![t] = "write"]
  /\ UNCHANGED <<stateVars, flagVars, at, message, todo, service, savedVars, mishaps>>

\* ... and writes them back with its own.
SaveContextWrites(t) ==
  /\ phase[t] = "write"
  /\ WriteBack(t, Reached(Doing(t)))
  /\ phase' = [phase EXCEPT ![t] = "next"]
  /\ service' = [service EXCEPT ![t] = None]
  /\ UNCHANGED <<enabled, installed, attached, flagVars, at, message, todo, savedVars>>

\* The last service has been told; the context is released.
MessageEnds(t) ==
  /\ phase[t] = "next" /\ todo[t] = {}
  /\ phase' = [phase EXCEPT ![t] = "none"]
  /\ message' = [message EXCEPT ![t] = None]
  /\ UNCHANGED <<stateVars, flagVars, at, todo, service, copy, savedVars, mishaps>>

HandleMessage(t) ==
  \/ LoadContext(t) \/ InitializeContext(t) \/ Enable(t) \/ Disable(t) \/ TestEnabled(t)
  \/ SaveContextReads(t) \/ SaveContextWrites(t) \/ MessageEnds(t)

-----------------------------------------------------------------------------
(* The HTTP server.                                                         *)

\* _StartHTTPServer: up to five attempts, which succeed or not.
StartProcessing(t, step) ==
  \/ /\ ~processing
     /\ processing' = TRUE
     /\ Post(t, "httpServerDidStart", step)
  \/ /\ processing' = processing
     /\ at' = [at EXCEPT ![t] = step]
     /\ UNCHANGED <<messageVars, mishaps>>

\* A request thread starts the HTTP server.
StartHTTPServer(t) ==
  /\ at[t] = "idle" /\ ~Handling(t) /\ t # Main
  /\ ~processing /\ StartProcessing(t, "idle")
  /\ UNCHANGED <<stateVars, poolEnabled, running, savedVars>>

\* The message by which a request thread asks the main task to stop it.
StopHTTPServer(t) ==
  /\ at[t] = "idle" /\ ~Handling(t) /\ t = Main /\ processing
  /\ Post(t, "httpServerWillStop", "haltHTTP")
  /\ UNCHANGED <<stateVars, flagVars, savedVars>>

HTTPServerStops(t) ==
  /\ at[t] = "haltHTTP" /\ ~Handling(t)
  /\ processing' = FALSE
  /\ at' = [at EXCEPT ![t] = "idle"]
  /\ UNCHANGED <<stateVars, poolEnabled, running, messageVars, savedVars, mishaps>>

-----------------------------------------------------------------------------
(* Clear of the context pool: no context is in use when it ends.            *)

ClearDisables(t) ==
  /\ clearEnabled' = [clearEnabled EXCEPT ![t] = poolEnabled]
  /\ poolEnabled' = FALSE

ClearEnds(t) ==
  /\ \A u \in Threads \ {t} : ~Handling(u)
  /\ poolEnabled' = clearEnabled[t]
  /\ clearEnabled' = [clearEnabled EXCEPT ![t] = FALSE]

-----------------------------------------------------------------------------
(* Start and Stop of the application, on the main task.                     *)

Start(t) ==
  /\ t = Main /\ at[t] = "idle" /\ ~Handling(t) /\ ~running
  /\ poolEnabled' = TRUE
  /\ at' = [at EXCEPT ![t] = "autoStart"]
  /\ Enters(t, "applicationWillStart", Told("applicationWillStart"))
  /\ UNCHANGED <<stateVars, processing, running, savedVars, mishaps>>

\* GetHTTPServerStarted, a setting: the server is started or not.
AutoStartHTTPServer(t) ==
  /\ at[t] = "autoStart" /\ ~Handling(t)
  /\ StartProcessing(t, "started")
  /\ UNCHANGED <<stateVars, poolEnabled, running, savedVars>>

StartEnds(t) ==
  /\ at[t] = "started" /\ ~Handling(t)
  /\ running' = TRUE
  /\ at' = [at EXCEPT ![t] = "idle"]
  /\ UNCHANGED <<stateVars, poolEnabled, processing, messageVars, savedVars, mishaps>>

\* Seeded fault: the services are not told.
StopSilently(t) ==
  /\ t = Main /\ at[t] = "idle" /\ ~Handling(t) /\ running
  /\ at' = [at EXCEPT ![t] = "stopHTTP"]
  /\ UNCHANGED <<stateVars, flagVars, messageVars, savedVars, mishaps>>

Stop(t) ==
  /\ t = Main /\ at[t] = "idle" /\ ~Handling(t) /\ running
  /\ Post(t, "applicationWillStop", "stopHTTP")
  /\ UNCHANGED <<stateVars, flagVars, savedVars>>

StopTellsHTTP(t) ==
  /\ at[t] = "stopHTTP" /\ ~Handling(t)
  /\ \/ processing /\ Post(t, "httpServerWillStop", "stopProcessing")
     \/ /\ ~processing
        /\ at' = [at EXCEPT ![t] = "disablePool"]
        /\ UNCHANGED <<messageVars, mishaps>>
  /\ UNCHANGED <<stateVars, flagVars, savedVars>>

StopStopsHTTP(t) ==
  /\ at[t] = "stopProcessing" /\ ~Handling(t)
  /\ processing' = FALSE
  /\ at' = [at EXCEPT ![t] = "disablePool"]
  /\ UNCHANGED <<stateVars, poolEnabled, running, messageVars, savedVars, mishaps>>

StopDisablesPool(t) ==
  /\ at[t] = "disablePool"
  /\ poolEnabled' = FALSE
  /\ at' = [at EXCEPT ![t] = "clear"]
  /\ UNCHANGED <<stateVars, processing, running, messageVars, savedVars, mishaps>>

StopClears(t) ==
  /\ at[t] = "clear"
  /\ ClearDisables(t)
  /\ at' = [at EXCEPT ![t] = "cleared"]
  /\ UNCHANGED <<stateVars, processing, running, messageVars, savedEnabled, mishaps>>

StopEnds(t) ==
  /\ at[t] = "cleared"
  /\ ClearEnds(t)
  /\ running' = FALSE
  /\ at' = [at EXCEPT ![t] = "idle"]
  /\ UNCHANGED <<stateVars, processing, messageVars, savedEnabled, mishaps>>

-----------------------------------------------------------------------------
(* ReloadCatalog, for a request to the HTTP server, one at a time.          *)

Reloads(t) == at[t] \in {"detach", "disable", "drop", "dropped", "close", "reopen",
                         "attach", "restore", "announce", "unlock"}

ReloadCatalog(t) ==
  /\ at[t] = "idle" /\ ~Handling(t) /\ t # Main /\ processing
  /\ \A u \in Threads : ~Reloads(u)
  /\ Post(t, "catalogWillReload", "detach")
  /\ UNCHANGED <<stateVars, flagVars, savedVars>>

\* Seeded fault: the services have not handled the message yet.
DetachAtOnce(t) ==
  /\ at[t] = "detach"
  /\ attached' = FALSE
  /\ at' = [at EXCEPT ![t] = IF attached THEN "disable" ELSE "reopen"]
  /\ UNCHANGED <<stored, enabled, installed, flagVars, messageVars, savedVars, mishaps>>

\* SetDatabase( NULL), when a database is open.
DetachDatabase(t) ==
  /\ at[t] = "detach" /\ ~Handling(t)
  /\ attached' = FALSE
  /\ at' = [at EXCEPT ![t] = IF attached THEN "disable" ELSE "reopen"]
  /\ UNCHANGED <<stored, enabled, installed, flagVars, messageVars, savedVars, mishaps>>

\* The pool is disabled, before the database is closed and before it is opened.
DisablePool(t) ==
  /\ at[t] \in {"disable", "reopen"}
  /\ savedEnabled' = [savedEnabled EXCEPT ![t] = poolEnabled]
  /\ poolEnabled' = FALSE
  /\ at' = [at EXCEPT ![t] = IF @ = "disable" THEN "drop" ELSE "attach"]
  /\ UNCHANGED <<stateVars, processing, running, messageVars, clearEnabled, mishaps>>

DropAllJSContexts(t) ==
  /\ at[t] = "drop"
  /\ ClearDisables(t)
  /\ at' = [at EXCEPT ![t] = "dropped"]
  /\ UNCHANGED <<stateVars, processing, running, messageVars, savedEnabled, mishaps>>

DropEnds(t) ==
  /\ at[t] = "dropped"
  /\ ClearEnds(t)
  /\ at' = [at EXCEPT ![t] = "close"]
  /\ UNCHANGED <<stateVars, processing, running, messageVars, savedEnabled, mishaps>>

\* _OpenDatabase and SetDatabase( fDatabase), unless it cannot be opened.
OpenDatabase(t) ==
  /\ at[t] = "attach"
  /\ attached' \in BOOLEAN
  /\ at' = [at EXCEPT ![t] = "restore"]
  /\ UNCHANGED <<stored, enabled, installed, flagVars, messageVars, savedVars, mishaps>>

RestorePool(t) ==
  /\ at[t] \in {"close", "restore"}
  /\ poolEnabled' = savedEnabled[t]
  /\ savedEnabled' = [savedEnabled EXCEPT ![t] = FALSE]
  /\ at' = [at EXCEPT ![t] = IF @ = "close" THEN "reopen" ELSE "announce"]
  /\ UNCHANGED <<stateVars, processing, running, messageVars, clearEnabled, mishaps>>

AnnounceReload(t) ==
  /\ at[t] = "announce"
  /\ Post(t, "catalogDidReload", "unlock")
  /\ UNCHANGED <<stateVars, flagVars, savedVars>>

ReloadEnds(t) ==
  /\ at[t] = "unlock" /\ ~Handling(t)
  /\ at' = [at EXCEPT ![t] = "idle"]
  /\ UNCHANGED <<stateVars, flagVars, messageVars, savedVars, mishaps>>

Operate(t) ==
  \/ ScriptCalls(t) \/ StartHTTPServer(t) \/ StopHTTPServer(t) \/ HTTPServerStops(t)
  \/ Start(t) \/ AutoStartHTTPServer(t) \/ StartEnds(t)
  \/ Stop(t) \/ StopTellsHTTP(t) \/ StopStopsHTTP(t) \/ StopDisablesPool(t)
  \/ StopClears(t) \/ StopEnds(t)
  \/ ReloadCatalog(t) \/ DetachDatabase(t) \/ DisablePool(t) \/ DropAllJSContexts(t)
  \/ DropEnds(t) \/ OpenDatabase(t) \/ RestorePool(t) \/ AnnounceReload(t) \/ ReloadEnds(t)

Next == \E t \in Threads : HandleMessage(t) \/ Operate(t)

Spec == Init /\ [][Next]_vars

-----------------------------------------------------------------------------
(* Properties.                                                              *)

Quiet == \A t \in Threads : at[t] = "idle" /\ ~Handling(t)

\* The state in the storage says what the native service is, whatever was
\* refused on the way and in whatever order messages and scripts come.  Two
\* things break it: two threads at work on the same service, and a save that
\* puts back an older state of another service, for want of the lock.
StatesAgree ==
  mishaps \cap {"collided", "overwritten"} = {} =>
     \A s \in Services : (\A t \in Threads : ~InHand(t, s)) =>
        (s \in enabled <=> stored[s] = "STARTED")

\* The HTTP server project has the handlers of the enabled services and no
\* other, also when a handler was refused: both of the RPC service, or none.
HandlersMatch == installed = UNION {HandlersOf(s) : s \in enabled}

\* SetDatabase asserts that the data service has no request handler: there is
\* none unless the pause was lost in a disabled pool, another thread enabled
\* the service in between, or its state in the storage was wrong.
NoHandlerWithoutDatabase ==
  "dataStore" \in enabled /\ ~attached =>
     mishaps \cap {"collided", "overwritten", "intruded", "lost"} # {}

\* A service that is left paused will be resumed by the start of the HTTP
\* server, unless a resume was refused or lost, or its state was wrong.
PausedIsOwed ==
  Quiet /\ processing /\ mishaps \cap {"collided", "overwritten", "lost", "refused"} = {} =>
     \A s \in Services : stored[s] # "PAUSED"

\* A stopped application leaves no service enabled, although its services were
\* told in the middle of a start, a reload or a restart of the HTTP server.
ServicesStop ==
  Quiet /\ ~running /\ mishaps \cap {"collided", "overwritten", "late", "lost"} = {} =>
     enabled = {}

-----------------------------------------------------------------------------
(* The inductive invariant behind StatesAgree.                              *)

Agrees(s) == s \in enabled <=> stored[s] = "STARTED"

\* A thread has a service in hand between the load and the save, and handles no
\* message in the middle of a Stop's or a reload's own work.
HandInv ==
  \A t \in Threads :
    /\ service[t] = None <=> phase[t] \in {"none", "next"}
    /\ at[t] \in {"disablePool", "clear", "cleared", "disable", "drop", "dropped", "close",
                  "reopen", "attach", "restore", "announce"} => phase[t] = "none"

\* What a thread knows of the service in its hand.
Knows(t) ==
  CASE phase[t] = "init"   -> stored[service[t]] = "new" /\ Agrees(service[t])
    [] phase[t] = "enable" -> Allows(Doing(t), stored[service[t]]) /\ Agrees(service[t])
    [] phase[t] = "test"   -> /\ Allows(Doing(t), stored[service[t]])
                              /\ \/ Agrees(service[t])
                                 \/ service[t] \in enabled <=> Enables(Doing(t))
    [] phase[t] \in {"read", "write"} ->
                              /\ Allows(Doing(t), stored[service[t]])
                              /\ service[t] \in enabled <=> Enables(Doing(t))
    [] OTHER -> TRUE

\* Until threads collide or overwrite a state, every service is in one hand, whose
\* thread knows its state, or in none and its states agree.
AgreeInv ==
  mishaps \cap {"collided", "overwritten"} = {} =>
    /\ \A t, u \in Threads : t # u /\ service[t] # None => service[t] # service[u]
    /\ \A t \in Threads : Knows(t)
    /\ \A s \in Services : (\A t \in Threads : ~InHand(t, s)) => Agrees(s)

-----------------------------------------------------------------------------
(* What is known of the order of messages, behind the other properties.     *)

\* Only the main task starts and stops, one request thread reloads, and each knows
\* which message it handles.
OrderInv ==
  /\ \A t \in Threads : ~Handling(t) => todo[t] = {}
  /\ \A t \in Threads : Reloads(t) => t # Main
  /\ \A t \in Threads : ~Reloads(t) /\ at[t] # "idle" => t = Main
  /\ \A r, t \in Threads : Reloads(r) /\ Reloads(t) => r = t
  /\ \A t \in Threads : Handling(t) =>
       /\ at[t] = "detach" <=> message[t] = "catalogWillReload"
       /\ at[t] = "stopHTTP" => message[t] = "applicationWillStop"
       /\ message[t] = "httpServerWillStop" => at[t] \in {"haltHTTP", "stopProcessing"}

\* The message has not come to this service yet.
Pending(t, s) ==
  \/ s \in todo[t]
  \/ service[t] = s /\ phase[t] \in {"init", "enable"}

\* From the message of the reload until the database is open again, the data service
\* is off, or about to be told.
DatabaseInv ==
  mishaps \cap {"collided", "overwritten", "intruded", "lost"} = {} =>
    /\ "dataStore" \in enabled => attached
    /\ \A r \in Threads :
         /\ at[r] \in {"disable", "drop", "dropped", "close", "reopen", "attach"} => ~attached
         /\ at[r] = "detach" /\ "dataStore" \in enabled => Pending(r, "dataStore")

\* The application has told its services to stop, and they have been told.
Stopped ==
  \/ at[Main] \in {"stopProcessing", "disablePool", "clear", "cleared"}
  \/ at[Main] \in {"idle", "haltHTTP"} /\ ~running

\* From the message of the stop until the next start, no service is on, but those
\* that are about to be told.
StopInv ==
  mishaps \cap {"collided", "overwritten", "late", "lost"} = {} =>
    /\ at[Main] = "stopHTTP" => \A s \in enabled : Pending(Main, s)
    /\ Stopped => enabled = {}

\* A service that is paused will be resumed: by the start of an HTTP server that is
\* stopped or about to be, by the end of a reload, or by a message under way.
Resumes(t, s) ==
  /\ Command(message[t], s) = "resume"
  /\ s \in todo[t] \/ service[t] = s
Owed(s) ==
  \/ ~processing
  \/ at[Main] \in {"haltHTTP", "stopProcessing"}
  \/ s = "dataStore" /\ \E r \in Threads : Reloads(r) /\ at[r] # "unlock"
  \/ \E t \in Threads : Resumes(t, s)
OwedInv ==
  mishaps \cap {"collided", "overwritten", "lost", "refused"} = {} =>
    /\ \A t \in Threads : phase[t] = "test" /\ Enables(Doing(t)) => service[t] \in enabled
    /\ \A s \in Services : stored[s] = "PAUSED" => Owed(s)
================================================================================
