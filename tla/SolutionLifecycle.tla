---------------------------- MODULE SolutionLifecycle ----------------------------
(***************************************************************************)
(* The life of the current solution.  The main task of the server takes    *)
(* messages one by one: it opens a solution in place of the current one,   *)
(* closes it when the server quits, and flushes the data cache.  Meanwhile *)
(* requests run scripts in the contexts of the applications, and a script  *)
(* asks for the applications, or asks to close the solution, under the     *)
(* mutexes that the main task holds while it starts and stops.             *)
(*                                                                         *)
(* A thread's own sections of a mutex are single steps, so a mutex is      *)
(* described by whether the main task has it.  A solution that is closed   *)
(* is forgotten: the variables describe the one that is open, and gone the *)
(* threads that still run in an application of a former one.  The handshake *)
(* of Clear is in JSContextPool, the messages to the services are in       *)
(* ServiceStates, and the registration of one context in CatalogReload.    *)
(*                                                                         *)
(* External: opening the files of a solution, the HTTP server, and the     *)
(* scripts, which end unless they wait for a mutex.                        *)
(***************************************************************************)
EXTENDS Naturals

CONSTANTS Requests,     \* the threads of requests
          Applications, \* the applications a solution may have
          Opens,        \* how often a solution may be asked for
          None          \* no application

ASSUME LifecycleAssumption == Opens \in Nat /\ None \notin Applications

VARIABLES
  current,       \* fSolution is not NULL
  opened, started, applications,   \* of the solution: fState, fApplicationsCollection
  appOpened, appStarted, creation, \* applications: fState, fContextCreationEnabled
  http, enabled, \* applications whose HTTP server, whose pool are enabled
  kept,          \* per application: the unused contexts, each the set of its registrations
  solutionMutex, applicationsMutex, \* fSolutionMutex, fApplicationsMutex: had by the main task
  main, purpose, todo, step, subject, failed, \* where the main task is
  messages, quit, flushEnabled, flushes,      \* the messages that wait for it
  place, app, registered, \* per request: where it is, its application, its registrations
  late,          \* history: requests in a pool that was disabled in the middle of a retain
  gone,          \* requests whose application has been closed
  leaked,        \* registrations of contexts that nobody can release any more
  openings, crashed \* history: how often a solution was asked for; a deleted pool was used

solutionVars == <<current, opened, started, applications>>
appVars == <<appOpened, appStarted, creation, http, enabled>>
mutexVars == <<solutionMutex, applicationsMutex>>
mainVars == <<main, purpose, todo, step, subject, failed>>
messageVars == <<messages, quit, flushEnabled, flushes, openings>>
requestVars == <<place, app, registered>>
historyVars == <<late, gone, leaked, crashed>>
vars == <<solutionVars, appVars, kept, mutexVars, mainVars, messageVars, requestVars,
          historyVars>>

Places == {"idle", "tested", "attached", "running", "asksApplications", "asksSolution",
           "detach"}
InPool == {"tested", "attached", "running", "asksApplications", "asksSolution"}
Mains == {"idle", "stop", "stopping", "close", "closing", "release", "open", "start",
          "starting", "startup", "ended"}

TypeOK ==
  /\ current \in BOOLEAN /\ opened \in BOOLEAN /\ started \in BOOLEAN
  /\ applications \subseteq Applications /\ appOpened \subseteq Applications
  /\ appStarted \subseteq Applications /\ creation \subseteq Applications
  /\ http \subseteq Applications /\ enabled \subseteq Applications
  /\ kept \in [Applications -> SUBSET SUBSET Applications]
  /\ solutionMutex \in BOOLEAN /\ applicationsMutex \in BOOLEAN
  /\ main \in Mains /\ purpose \in {"open", "undo", "quit"}
  /\ todo \subseteq Applications
  /\ step \in {"none", "stop", "clear", "drain"} /\ subject \in Applications \cup {None}
  /\ failed \in BOOLEAN /\ quit \in BOOLEAN /\ flushEnabled \in BOOLEAN
  /\ messages \in 0..Opens /\ openings \in 0..Opens /\ flushes \in 0..Opens
  /\ place \in [Requests -> Places] /\ app \in [Requests -> Applications \cup {None}]
  /\ registered \in [Requests -> SUBSET Applications]
  /\ late \subseteq Requests /\ gone \subseteq Requests
  /\ leaked \subseteq Applications /\ crashed \in BOOLEAN

\* The server has been asked to open its first solution.
Init ==
  /\ current = FALSE /\ opened = FALSE /\ started = FALSE
  /\ applications = {} /\ appOpened = {} /\ appStarted = {} /\ creation = {}
  /\ http = {} /\ enabled = {}
  /\ kept = [a \in Applications |-> {}]
  /\ solutionMutex = FALSE /\ applicationsMutex = FALSE
  /\ main = "idle" /\ purpose = "open" /\ todo = {} /\ step = "none" /\ subject = None
  /\ failed = FALSE
  /\ messages = (IF Opens > 0 THEN 1 ELSE 0) /\ openings = messages
  /\ quit = FALSE /\ flushEnabled = FALSE /\ flushes = 0
  /\ place = [t \in Requests |-> "idle"] /\ app = [t \in Requests |-> None]
  /\ registered = [t \in Requests |-> {}]
  /\ late = {} /\ gone = {} /\ leaked = {} /\ crashed = FALSE

-----------------------------------------------------------------------------
(* Requests.                                                                *)

Goes(t, where) == place' = [place EXCEPT ![t] = where]

\* The request is over.
Leaves(t) ==
  /\ Goes(t, "idle")
  /\ app' = [app EXCEPT ![t] = None]
  /\ registered' = [registered EXCEPT ![t] = {}]
  /\ late' = late \ {t} /\ gone' = gone \ {t}

\* A request reaches an application; RetainContext tests fEnabled.
Request(t) ==
  /\ place[t] = "idle"
  /\ \E a \in http \cap enabled :
       /\ app' = [app EXCEPT ![t] = a]
       /\ Goes(t, "tested")
  /\ UNCHANGED <<solutionVars, appVars, kept, mutexVars, mainVars, messageVars, registered,
                 historyVars>>

\* The first section of RetainContext: an unused context.
TakeUnused(t) ==
  /\ place[t] = "tested" /\ t \notin gone
  /\ \E c \in kept[app[t]] :
       /\ registered' = [registered EXCEPT ![t] = c]
       /\ kept' = [kept EXCEPT ![app[t]] = @ \ {c}]
  /\ Goes(t, "running")
  /\ UNCHANGED <<solutionVars, appVars, mutexVars, mainVars, messageVars, app, historyVars>>

\* Or else a new one.  AttachSolution copies the applications under the mutex and
\* registers with those that create contexts.
AttachSolution(t) ==
  /\ place[t] = "tested" /\ t \notin gone
  /\ kept[app[t]] = {} /\ ~applicationsMutex
  /\ registered' = [registered EXCEPT ![t] = applications \cap creation]
  /\ Goes(t, "attached")
  /\ UNCHANGED <<solutionVars, appVars, kept, mutexVars, mainVars, messageVars, app,
                 historyVars>>

\* The second section: the context is used.
RegisterContext(t) ==
  /\ place[t] = "attached" /\ t \notin gone
  /\ Goes(t, "running")
  /\ UNCHANGED <<solutionVars, appVars, kept, mutexVars, mainVars, messageVars, app,
                 registered, historyVars>>

\* The pool has been deleted in the middle of RetainContext: the program may crash.
UseDeletedPool(t) ==
  /\ place[t] \in {"tested", "attached"} /\ t \in gone
  /\ crashed' \in BOOLEAN
  /\ Leaves(t)
  /\ UNCHANGED <<solutionVars, appVars, kept, mutexVars, mainVars, messageVars, leaked>>

\* The script reads solution.applications or calls getApplicationByName ...
AskApplications(t) ==
  /\ place[t] = "running" /\ Goes(t, "asksApplications")
  /\ UNCHANGED <<solutionVars, appVars, kept, mutexVars, mainVars, messageVars, app,
                 registered, historyVars>>

\* ... and gets its answer; a former solution has a mutex of its own.
GetApplications(t) ==
  /\ place[t] = "asksApplications"
  /\ applicationsMutex => t \in gone
  /\ Goes(t, "running")
  /\ UNCHANGED <<solutionVars, appVars, kept, mutexVars, mainVars, messageVars, app,
                 registered, historyVars>>

\* The script calls solution.close ...
AskSolution(t) ==
  /\ place[t] = "running" /\ Goes(t, "asksSolution")
  /\ UNCHANGED <<solutionVars, appVars, kept, mutexVars, mainVars, messageVars, app,
                 registered, historyVars>>

\* A solution is asked for, as long as Opens allows.
PostOpen ==
  IF openings < Opens THEN openings' = openings + 1 /\ messages' = messages + 1
                      ELSE UNCHANGED <<openings, messages>>

\* ... and learns whether its solution is the current one: then the default one is
\* opened in its place.  A former solution is closed already: no application is left
\* registered with the context, and Close returns.
IsCurrentSolution(t) ==
  /\ place[t] = "asksSolution" /\ ~solutionMutex
  /\ IF current /\ t \notin gone THEN PostOpen ELSE UNCHANGED <<openings, messages>>
  /\ Goes(t, "running")
  /\ UNCHANGED <<solutionVars, appVars, kept, mutexVars, mainVars, quit, flushEnabled,
                 flushes, app, registered, historyVars>>

\* The script calls solution.quitServer.
QuitAsynchronously(t) ==
  /\ place[t] = "running" /\ quit' = TRUE
  /\ UNCHANGED <<solutionVars, appVars, kept, mutexVars, mainVars, messages, flushEnabled,
                 flushes, openings, requestVars, historyVars>>

\* ReleaseContext: the context is kept, or it is not.
ReleaseContext(t) ==
  /\ place[t] = "running" /\ t \notin gone
  /\ \/ /\ kept[app[t]] = {}
        /\ kept' = [kept EXCEPT ![app[t]] = {registered[t]}]
        /\ Leaves(t)
     \/ /\ Goes(t, "detach")
        /\ UNCHANGED <<kept, app, registered, late, gone>>
  /\ UNCHANGED <<solutionVars, appVars, mutexVars, mainVars, messageVars, leaked, crashed>>

\* ReleaseJSContext does nothing when the application has no pool any more.
ReleaseWithoutPool(t) ==
  /\ place[t] = "running" /\ t \in gone
  /\ leaked' = leaked \cup registered[t]
  /\ Leaves(t)
  /\ UNCHANGED <<solutionVars, appVars, kept, mutexVars, mainVars, messageVars, crashed>>

\* Seeded fault: the registrations stay.
DetachNothing(t) ==
  /\ place[t] = "detach"
  /\ applicationsMutex => t \in gone
  /\ Goes(t, "idle")
  /\ UNCHANGED <<solutionVars, appVars, kept, mutexVars, mainVars, messageVars, app,
                 registered, historyVars>>

\* DetachSolution, outside the pool's mutex.
DetachSolution(t) ==
  /\ place[t] = "detach"
  /\ applicationsMutex => t \in gone
  /\ Leaves(t)
  /\ UNCHANGED <<solutionVars, appVars, kept, mutexVars, mainVars, messageVars, leaked,
                 crashed>>

\* What a request does without being asked to.
Proceeds(t) ==
  \/ TakeUnused(t) \/ AttachSolution(t) \/ RegisterContext(t) \/ UseDeletedPool(t)
  \/ GetApplications(t) \/ IsCurrentSolution(t) \/ ReleaseContext(t) \/ ReleaseWithoutPool(t)
  \/ DetachSolution(t)

-----------------------------------------------------------------------------
(* Stop, Start and Close of one application, on the main task.              *)

UsedIn(a) == {t \in Requests \ gone : app[t] = a /\ place[t] \in InPool \ {"tested", "attached"}}

\* The HTTP server is stopped and the pool disabled; Clear is called.
StopApplication ==
  /\ step = "stop"
  /\ IF subject \in appStarted
     THEN /\ http' = http \ {subject} /\ enabled' = enabled \ {subject}
          /\ late' = late \cup {t \in Requests \ gone :
                                   app[t] = subject /\ place[t] \in {"tested", "attached"}}
          /\ step' = "clear"
          /\ UNCHANGED subject
     ELSE /\ step' = "none" /\ subject' = None
          /\ UNCHANGED <<http, enabled, late>>
  /\ UNCHANGED <<solutionVars, appOpened, appStarted, creation, kept, mutexVars, main, purpose,
                 todo, failed, messageVars, requestVars, gone, leaked, crashed>>

\* Seeded fault: the used contexts are not waited for.
ClearAtOnce ==
  /\ step = "clear"
  /\ kept' = [kept EXCEPT ![subject] = {}]
  /\ appStarted' = appStarted \ {subject}
  /\ step' = "none" /\ subject' = None
  /\ UNCHANGED <<solutionVars, appOpened, creation, http, enabled, mutexVars, main, purpose,
                 todo, failed, messageVars, requestVars, historyVars>>

\* Clear returns when no context is used, and has destroyed the others.
ClearEnds ==
  /\ step = "clear" /\ UsedIn(subject) = {}
  /\ kept' = [kept EXCEPT ![subject] = {}]
  /\ appStarted' = appStarted \ {subject}
  /\ step' = "none" /\ subject' = None
  /\ UNCHANGED <<solutionVars, appOpened, creation, http, enabled, mutexVars, main, purpose,
                 todo, failed, messageVars, requestVars, historyVars>>

\* Close waits until no context is registered ...
CloseApplication(a) ==
  /\ todo' = todo \ {a}
  /\ IF a \in appOpened /\ a \notin appStarted
     THEN /\ creation' = creation \ {a}
          /\ step' = "drain" /\ subject' = a
     ELSE UNCHANGED <<creation, step, subject>>

\* ... and deletes the pool.
DrainEnds ==
  /\ step = "drain"
  /\ \A t \in Requests : subject \notin registered[t]
  /\ \A a \in Applications : \A c \in kept[a] : subject \notin c
  /\ subject \notin leaked
  /\ leaked' = leaked \cup UNION kept[subject]
  /\ kept' = [kept EXCEPT ![subject] = {}]
  /\ gone' = gone \cup {t \in Requests : app[t] = subject /\ place[t] # "idle"}
  /\ appOpened' = appOpened \ {subject}
  /\ enabled' = enabled \ {subject}
  /\ step' = "none" /\ subject' = None
  /\ UNCHANGED <<solutionVars, appStarted, creation, http, mutexVars, main, purpose, todo,
                 failed, messageVars, requestVars, late, crashed>>

-----------------------------------------------------------------------------
(* The solution, on the main task.                                          *)

Enters(where) == main' = where /\ UNCHANGED <<purpose, step, subject, failed>>

\* _OpenSolutionAsCurrentSolution: the current solution is stopped first, outside
\* the mutex.
OpenSolutionAsCurrentSolution ==
  /\ main = "idle" /\ messages > 0
  /\ messages' = messages - 1
  /\ purpose' = "open"
  /\ IF current THEN main' = "stop" /\ UNCHANGED solutionMutex
                ELSE main' = "open" /\ solutionMutex' = TRUE
  /\ UNCHANGED <<solutionVars, appVars, kept, applicationsMutex, todo, step, subject, failed,
                 quit, flushEnabled, flushes, openings, requestVars, historyVars>>

\* DoQuit and _CloseCurrentSolution: everything is done inside the mutex.
CloseCurrentSolution ==
  /\ main = "idle" /\ quit
  /\ purpose' = "quit"
  /\ IF current THEN main' = "stop" /\ solutionMutex' = TRUE
                ELSE main' = "ended" /\ UNCHANGED solutionMutex
  /\ UNCHANGED <<solutionVars, appVars, kept, applicationsMutex, todo, step, subject, failed,
                 messageVars, requestVars, historyVars>>

\* Seeded fault: the message posts two others.
FlushDataCacheTwice ==
  /\ main = "idle" /\ flushes > 0
  /\ flushes' = IF flushEnabled THEN flushes + 1 ELSE flushes - 1
  /\ UNCHANGED <<solutionVars, appVars, kept, mutexVars, mainVars, messages, quit,
                 flushEnabled, openings, requestVars, historyVars>>

\* The message posts itself again while the flush is enabled.
FlushDataCache ==
  /\ main = "idle" /\ flushes > 0
  /\ flushes' = IF flushEnabled THEN flushes ELSE flushes - 1
  /\ UNCHANGED <<solutionVars, appVars, kept, mutexVars, mainVars, messages, quit,
                 flushEnabled, openings, requestVars, historyVars>>

Stop ==
  /\ main = "stop"
  /\ IF started
     THEN main' = "stopping" /\ todo' = applications /\ flushEnabled' = FALSE
     ELSE main' = "close" /\ UNCHANGED <<todo, flushEnabled>>
  /\ UNCHANGED <<solutionVars, appVars, kept, mutexVars, purpose, step, subject, failed,
                 messages, quit, flushes, openings, requestVars, historyVars>>

StopNext ==
  /\ main = "stopping" /\ step = "none"
  /\ \E a \in todo : subject' = a /\ todo' = todo \ {a}
  /\ step' = "stop"
  /\ UNCHANGED <<solutionVars, appVars, kept, mutexVars, main, purpose, failed, messageVars,
                 requestVars, historyVars>>

StopEnds ==
  /\ main = "stopping" /\ step = "none" /\ todo = {}
  /\ started' = FALSE
  /\ Enters("close")
  /\ UNCHANGED <<current, opened, applications, appVars, kept, mutexVars, todo, messageVars,
                 requestVars, historyVars>>

\* Close, inside the mutex.
Close ==
  /\ main = "close"
  /\ solutionMutex' = TRUE
  /\ IF opened /\ ~started THEN Enters("closing") /\ todo' = applications
                           ELSE Enters("release") /\ UNCHANGED todo
  /\ UNCHANGED <<solutionVars, appVars, kept, applicationsMutex, messageVars, requestVars,
                 historyVars>>

CloseNext ==
  /\ main = "closing" /\ step = "none"
  /\ \E a \in todo : CloseApplication(a)
  /\ UNCHANGED <<solutionVars, appOpened, appStarted, http, enabled, kept, mutexVars, main,
                 purpose, failed, messageVars, requestVars, historyVars>>

CloseEnds ==
  /\ main = "closing" /\ step = "none" /\ todo = {}
  /\ applications' = {} /\ opened' = FALSE
  /\ Enters("release")
  /\ UNCHANGED <<current, started, appVars, kept, mutexVars, todo, messageVars, requestVars,
                 historyVars>>

\* When the opening failed, the default solution may be asked for; when it was the
\* first one, the server quits.
OpeningFails ==
  /\ Enters("idle") /\ solutionMutex' = FALSE
  /\ PostOpen \/ UNCHANGED <<openings, messages>>
  /\ quit' = (quit \/ openings = 1)
  /\ UNCHANGED <<flushEnabled, flushes>>

\* ReleaseRefCountable( &fSolution).
ReleaseSolution ==
  /\ main = "release"
  /\ current' = FALSE
  /\ \/ purpose = "open" /\ Enters("open") /\ UNCHANGED <<solutionMutex, messageVars>>
     \/ purpose = "undo" /\ OpeningFails
     \/ /\ purpose = "quit" /\ Enters("ended")
        /\ solutionMutex' = FALSE /\ UNCHANGED messageVars
  /\ UNCHANGED <<opened, started, applications, appVars, kept, applicationsMutex, todo,
                 requestVars, historyVars>>

\* No solution is made of the file.
OpenSolutionFails ==
  /\ main = "open"
  /\ OpeningFails
  /\ UNCHANGED <<solutionVars, appVars, kept, applicationsMutex, todo, requestVars,
                 historyVars>>

\* Some applications are opened, and it is an error or not that some are not.
OpenSolution ==
  /\ main = "open"
  /\ opened' = TRUE
  /\ \E opening \in SUBSET Applications :
       applications' = opening /\ appOpened' = opening /\ creation' = opening
  /\ purpose' \in {"open", "undo"}
  /\ main' = IF purpose' = "open" THEN "start" ELSE "close"
  /\ UNCHANGED <<current, started, appStarted, http, enabled, kept, mutexVars, todo, step,
                 subject, failed, messageVars, requestVars, historyVars>>

Start ==
  /\ main = "start"
  /\ applicationsMutex' = TRUE
  /\ main' = "starting" /\ todo' = applications /\ failed' = FALSE
  /\ UNCHANGED <<solutionVars, appVars, kept, solutionMutex, purpose, step, subject,
                 messageVars, requestVars, historyVars>>

\* It failed: it is stopped, and the loop goes on if the settings ignore errors.
FailedToStart(a) ==
  /\ step' = "stop" /\ subject' = a
  /\ failed' \in BOOLEAN

StartApplication ==
  /\ main = "starting" /\ step = "none" /\ ~failed
  /\ \E a \in todo :
       /\ todo' = todo \ {a}
       /\ appStarted' = appStarted \cup {a} /\ enabled' = enabled \cup {a}
       /\ http' \in {http, http \cup {a}}
       /\ FailedToStart(a) \/ UNCHANGED <<step, subject, failed>>
  /\ UNCHANGED <<solutionVars, appOpened, creation, kept, mutexVars, main, purpose,
                 messageVars, requestVars, historyVars>>

StartGoesOn ==
  /\ main = "starting" /\ step = "none" /\ (todo = {} \/ failed)
  /\ todo' = IF failed THEN {} ELSE applications \cap appStarted
  /\ Enters("startup")
  /\ UNCHANGED <<solutionVars, appVars, kept, mutexVars, messageVars, requestVars,
                 historyVars>>

\* OnStartup: the bootstrap of an application.
OnStartup ==
  /\ main = "startup" /\ step = "none" /\ ~failed
  /\ \E a \in todo :
       /\ todo' = todo \ {a}
       /\ FailedToStart(a) \/ UNCHANGED <<step, subject, failed>>
  /\ UNCHANGED <<solutionVars, appVars, kept, mutexVars, main, purpose, messageVars,
                 requestVars, historyVars>>

\* Seeded fault: a solution that started with errors is not stopped.
StartEndsWithoutStop ==
  /\ main = "startup" /\ step = "none" /\ (todo = {} \/ failed)
  /\ applicationsMutex' = FALSE
  /\ flushEnabled' = TRUE /\ flushes' = IF flushEnabled THEN flushes ELSE flushes + 1
  /\ started' = TRUE /\ todo' = {} /\ failed' = FALSE
  /\ current' \in {~failed, FALSE}
  /\ IF current' THEN main' = "idle" /\ solutionMutex' = FALSE /\ UNCHANGED purpose
                 ELSE main' = "close" /\ purpose' = "undo" /\ UNCHANGED solutionMutex
  /\ UNCHANGED <<opened, applications, appVars, kept, step, subject, messages, quit, openings,
                 requestVars, historyVars>>

\* The flush is enabled in any case, and the debugger's settings may be in error too; a
\* solution that started with errors is stopped again, and closed, inside the mutex.
StartEnds ==
  /\ main = "startup" /\ step = "none" /\ (todo = {} \/ failed)
  /\ applicationsMutex' = FALSE
  /\ flushEnabled' = TRUE /\ flushes' = IF flushEnabled THEN flushes ELSE flushes + 1
  /\ started' = TRUE /\ todo' = {} /\ failed' = FALSE
  /\ current' \in {~failed, FALSE}
  /\ IF current' THEN main' = "idle" /\ solutionMutex' = FALSE /\ UNCHANGED purpose
                 ELSE main' = "stop" /\ purpose' = "undo" /\ UNCHANGED solutionMutex
  /\ UNCHANGED <<opened, applications, appVars, kept, step, subject, messages, quit, openings,
                 requestVars, historyVars>>

\* What the main task does in the middle of a message.
MainProceeds ==
  \/ StopApplication \/ ClearEnds \/ DrainEnds
  \/ Stop \/ StopNext \/ StopEnds \/ Close \/ CloseNext \/ CloseEnds \/ ReleaseSolution
  \/ OpenSolutionFails \/ OpenSolution \/ Start \/ StartApplication \/ StartGoesOn
  \/ OnStartup \/ StartEnds

Next ==
  /\ ~crashed
  /\ \/ MainProceeds
     \/ OpenSolutionAsCurrentSolution \/ CloseCurrentSolution \/ FlushDataCache
     \/ \E t \in Requests :
          Proceeds(t) \/ Request(t) \/ AskApplications(t) \/ AskSolution(t)
          \/ QuitAsynchronously(t)

\* The main task and the requests go on; scripts end, for they ask for something
\* only so often.  Nobody has to send a request, or a message.
Fairness ==
  /\ WF_vars(~crashed /\ MainProceeds)
  /\ \A t \in Requests : WF_vars(~crashed /\ Proceeds(t))
  /\ \A t \in Requests : SF_vars(~crashed /\ (ReleaseContext(t) \/ ReleaseWithoutPool(t)))

Spec == Init /\ [][Next]_vars /\ Fairness

-----------------------------------------------------------------------------
(* Properties.                                                              *)

\* Between two messages the current solution runs, and its data cache is flushed;
\* or there is none, and nothing of the last one is left open, started or flushed,
\* however its opening or its start failed: Close does nothing for a solution, or
\* an application, that was not stopped before.
OnlyCurrentIsOpen ==
  /\ http \subseteq appStarted /\ appStarted \subseteq appOpened
  /\ main \in {"idle", "ended"} =>
       IF current THEN opened /\ started /\ flushEnabled /\ flushes > 0
                  ELSE /\ ~opened /\ ~started /\ ~flushEnabled
                       /\ applications = {} /\ appOpened = {}

\* An application that is stopped, and may be closed, has no request in its pool but
\* those that were between the test of the flag and the registration of their
\* context when the pool was disabled.
StoppedMeansUnused ==
  \A t \in Requests : place[t] \in InPool /\ app[t] \notin appStarted => t \in late

\* A script of the application that is stopped waits for a mutex that is held.
WaitsForMutex(t) ==
  t \notin gone /\ \/ place[t] = "asksSolution" /\ solutionMutex
                   \/ place[t] = "asksApplications" /\ applicationsMutex

\* A late context is at rest in a disabled pool, or was released after its pool,
\* or asks for the solution: its registrations stay.
StaysRegistered ==
  \/ subject \in leaked
  \/ \E a \in Applications : \E c \in kept[a] : subject \in c
  \/ \E t \in Requests : subject \in registered[t] /\ place[t] = "asksSolution"

HeldUp ==
  \/ step = "clear" /\ \E t \in UsedIn(subject) : WaitsForMutex(t)
  \/ step = "drain" /\ StaysRegistered

\* The main task comes to the end of each message, unless it stops an application
\* inside a mutex that a script of this application waits for (it does so when the
\* server quits, and when a start fails), or closes one with which a late context
\* stays registered: then it waits for ever.
MainGoesOn == []<>(main \in {"idle", "ended"}) \/ <>crashed \/ <>[]HeldUp

-----------------------------------------------------------------------------
(* The inductive invariant behind OnlyCurrentIsOpen and StoppedMeansUnused. *)

\* The application in hand is the last one of those that a loop has left behind.
InHand(a) == step # "none" /\ subject = a

\* What is open and started while the main task is at each of its places.
Runs == opened /\ started /\ flushEnabled /\ appOpened = applications /\ step = "none"
IsClosed == /\ ~opened /\ ~started /\ ~flushEnabled /\ step = "none"
            /\ applications = {} /\ appOpened = {} /\ appStarted = {}

MainInv ==
  /\ main \in {"idle", "ended"} => IF current THEN Runs ELSE IsClosed
  /\ main = "stop" => Runs
  /\ main = "stopping" =>
       /\ opened /\ started /\ ~flushEnabled /\ appOpened = applications
       /\ todo \subseteq applications /\ step # "drain"
       /\ \A a \in appStarted : a \in todo \/ InHand(a)
  /\ main = "close" =>
       /\ opened /\ ~started /\ ~flushEnabled /\ appOpened = applications
       /\ appStarted = {} /\ step = "none"
  /\ main = "closing" =>
       /\ ~started /\ ~flushEnabled /\ appStarted = {}
       /\ step \in {"none", "drain"}
       /\ \A a \in appOpened : a \in todo \/ InHand(a)
  /\ main \in {"release", "open"} => IsClosed
  /\ main = "open" => ~current
  /\ main = "start" =>
       /\ opened /\ ~started /\ ~flushEnabled /\ appOpened = applications
       /\ appStarted = {} /\ step = "none" /\ ~current
  /\ main \in {"starting", "startup"} =>
       /\ opened /\ ~started /\ ~flushEnabled /\ appOpened = applications
       /\ todo \subseteq applications /\ step # "drain" /\ ~current

StepInv ==
  /\ step # "none" => subject \in Applications
  /\ http \subseteq appStarted /\ appStarted \subseteq appOpened
  /\ step = "clear" => subject \notin http
  /\ flushEnabled => flushes > 0

\* Every flush message was posted for an opening of its own.
Opening == \/ main \in {"open", "start", "starting", "startup"}
           \/ main \in {"stop", "stopping", "close", "closing", "release"} /\ purpose = "open"
FlushInv == messages + flushes + (IF Opening THEN 1 ELSE 0) <= openings

\* The requests in a pool that is about to be unused, or deleted, are late.
LateInv ==
  /\ \A t \in Requests : place[t] # "idle" => app[t] \in Applications
  /\ \A t \in gone : place[t] # "idle" /\ (place[t] \in InPool => t \in late)
  /\ step = "clear" => \A t \in Requests \ gone :
       app[t] = subject /\ place[t] \in {"tested", "attached"} => t \in late
  /\ StoppedMeansUnused

IInv == TypeOK /\ MainInv /\ StepInv /\ FlushInv /\ LateInv
================================================================================
