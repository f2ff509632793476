--------------------------- MODULE ServiceStatesProofs ---------------------------
(* Proofs about the states of the services and the order of their messages, *)
(* for any number of request threads and any of the services.               *)
EXTENDS ServiceStates, TLAPS

-----------------------------------------------------------------------------
(* Types.                                                                   *)

USE DEF Threads

LEMMA InitTypeOK == Init => TypeOK /\ HandInv
<1>1. Blank \in [Services -> States]
  BY DEF Blank, States
<1> QED
  BY <1>1 DEF Init, TypeOK, HandInv, Phases, Places

\* The variables of a message being handled keep their types when one enters.
LEMMA EntersType ==
  ASSUME TypeOK, NEW t \in Threads, NEW m \in Messages, NEW S \in SUBSET Services,
         Enters(t, m, S)
  PROVE  /\ phase' \in [Threads -> Phases]
         /\ message' \in [Threads -> Messages \cup {None}]
         /\ todo' \in [Threads -> SUBSET Services]
         /\ service' \in [Threads -> Services \cup {None}]
         /\ copy' \in [Threads -> [Services -> States]]
BY DEF TypeOK, Enters, Phases

LEMMA PostType ==
  ASSUME TypeOK, NEW t \in Threads, NEW m \in Messages, NEW step \in Places,
         Post(t, m, step)
  PROVE  /\ phase' \in [Threads -> Phases]
         /\ message' \in [Threads -> Messages \cup {None}]
         /\ todo' \in [Threads -> SUBSET Services]
         /\ service' \in [Threads -> Services \cup {None}]
         /\ copy' \in [Threads -> [Services -> States]]
         /\ at' \in [Threads -> Places]
         /\ mishaps' \subseteq Mishaps
<1>1. at' \in [Threads -> Places]
  BY DEF TypeOK, Post
<1>2. CASE poolEnabled /\ Enters(t, m, Told(m)) /\ UNCHANGED mishaps
  <2>1. Told(m) \in SUBSET Services
    BY DEF Told
  <2> QED
    BY <1>1, <1>2, <2>1, EntersType DEF TypeOK
<1>3. CASE UNCHANGED messageVars /\ mishaps' \in {mishaps, mishaps \cup {"lost"}}
  BY <1>1, <1>3 DEF TypeOK, messageVars, Mishaps
<1> QED
  BY <1>2, <1>3 DEF Post

\* A thread that is at work on a service has one.
LEMMA InHandType ==
  ASSUME TypeOK, HandInv, NEW t \in Threads, phase[t] \notin {"none", "next"}
  PROVE  service[t] \in Services
BY DEF TypeOK, HandInv

LEMMA WriteBackType ==
  ASSUME TypeOK, NEW t \in Threads, NEW state \in States, WriteBack(t, state)
  PROVE  /\ stored' \in [Services -> States]
         /\ copy' \in [Threads -> [Services -> States]]
         /\ mishaps' \subseteq Mishaps
<1>1. Blank \in [Services -> States]
  BY DEF Blank, States
<1>2. /\ stored' = [copy[t] EXCEPT ![service[t]] = state]
      /\ copy' = [copy EXCEPT ![t] = Blank]
      /\ mishaps' \in {mishaps, mishaps \cup {"overwritten"}}
  BY DEF WriteBack
<1>3. copy[t] \in [Services -> States]
  BY DEF TypeOK
<1>4. stored' \in [Services -> States]
  BY <1>2, <1>3
<1> QED
  BY <1>1, <1>2, <1>4 DEF TypeOK, Mishaps

\* What enabling a service adds: all its handlers or none, and it is enabled with
\* them.
LEMMA EnableDoes ==
  ASSUME TypeOK, HandInv, NEW t \in Threads, Enable(t)
  PROVE  /\ service[t] \in Services /\ phase[t] = "enable" /\ Enables(Doing(t))
         /\ \/ enabled' = enabled /\ installed' = installed
            \/ /\ enabled' = enabled \cup {service[t]}
               /\ installed' = installed \cup HandlersOf(service[t])
         /\ mishaps \subseteq mishaps' /\ mishaps' \subseteq Mishaps
         /\ mishaps' \cap {"collided", "overwritten"} = mishaps \cap {"collided", "overwritten"}
         /\ phase' = [phase EXCEPT ![t] = "test"]
         /\ UNCHANGED <<stored, attached, flagVars, at, message, todo, service, copy, savedVars>>
<1>1. service[t] \in Services
  BY InHandType DEF Enable
<1>2. service[t] \in {"dataStore", "rpc", "webApp"} /\ HandlersOf(service[t]) # {}
  BY <1>1, ServicesAssumption DEF HandlersOf
<1>3. PICK added \in IF service[t] \in enabled THEN {{}} ELSE Added(service[t]) :
        /\ installed' = installed \cup added
        /\ enabled' = IF HandlersOf(service[t]) \subseteq added
                      THEN enabled \cup {service[t]} ELSE enabled
  BY DEF Enable
<1>4. added \in {{}, HandlersOf(service[t])}
  <2>1. CASE service[t] \in enabled
    BY <1>3, <2>1
  <2>2. CASE service[t] \notin enabled /\ service[t] = "rpc"
    <3>1. added \in {RPCHandlers(first, second) : first, second \in BOOLEAN}
      BY <1>3, <2>2 DEF Added
    <3>2. \A first, second \in BOOLEAN : RPCHandlers(first, second) \in {{}, HandlersOf("rpc")}
      BY Zenon DEF RPCHandlers
    <3> QED
      BY <3>1, <3>2, <2>2
  <2>3. CASE service[t] \notin enabled /\ service[t] = "dataStore"
    <3>1. added \in IF attached THEN {HandlersOf(service[t]), {}} ELSE {{}}
      BY <1>3, <2>3 DEF Added
    <3> QED
      BY <3>1, Zenon
  <2>4. CASE service[t] \notin enabled /\ service[t] = "webApp"
    BY <1>3, <2>4 DEF Added
  <2> QED
    BY <1>2, <2>1, <2>2, <2>3, <2>4
<1>5. \/ enabled' = enabled /\ installed' = installed
      \/ /\ enabled' = enabled \cup {service[t]}
         /\ installed' = installed \cup HandlersOf(service[t])
  BY <1>2, <1>3, <1>4
<1>6. \E S \in SUBSET {"refused", "intruded", "late"} : mishaps' = mishaps \cup S
  <2>1. PICK A, B, C : /\ A \in {{}, {"refused"}} /\ B \in {{}, {"intruded"}} /\ C \in {{}, {"late"}}
                       /\ mishaps' = mishaps \cup A \cup B \cup C
    BY Zenon DEF Enable
  <2>2. mishaps' = mishaps \cup (A \cup B \cup C)
    BY <2>1
  <2>3. A \cup B \cup C \in SUBSET {"refused", "intruded", "late"}
    BY <2>1
  <2> QED
    BY <2>2, <2>3
<1>7. /\ mishaps \subseteq mishaps' /\ mishaps' \subseteq Mishaps
      /\ mishaps' \cap {"collided", "overwritten"} = mishaps \cap {"collided", "overwritten"}
  BY <1>6 DEF TypeOK, Mishaps
<1> QED
  BY <1>1, <1>5, <1>7 DEF Enable

\* A step of the handling of a message.
LEMMA HandleTypeOK ==
  ASSUME TypeOK, HandInv, NEW t \in Threads, HandleMessage(t)
  PROVE  TypeOK' /\ HandInv'
<1> USE DEF TypeOK, HandInv, stateVars, flagVars, savedVars, Phases
<1>1. CASE LoadContext(t)
  <2>1. PICK s \in todo[t] :
          /\ todo' = [todo EXCEPT ![t] = @ \ {s}]
          /\ \/ /\ phase' = [phase EXCEPT ![t] = "init"]
                /\ service' = [service EXCEPT ![t] = s]
                /\ copy' = [copy EXCEPT ![t] = stored]
             \/ /\ phase' = [phase EXCEPT ![t] = "enable"]
                /\ service' = [service EXCEPT ![t] = s]
                /\ UNCHANGED copy
             \/ UNCHANGED <<phase, service, copy>>
          /\ mishaps' \in {mishaps, mishaps \cup {"collided"}}
    BY <1>1, ZenonT(40) DEF LoadContext
  <2>2. phase[t] = "next" /\ UNCHANGED <<stateVars, flagVars, at, message, savedVars>>
    BY <1>1 DEF LoadContext
  <2>3. s \in Services
    BY <2>1
  <2> QED
    BY <2>1, <2>2, <2>3, ServicesAssumption DEF Mishaps
<1>3. CASE InitializeContext(t)
  <2>1. "STOPPED" \in States
    BY DEF States
  <2>2. /\ WriteBack(t, "STOPPED")
        /\ phase[t] = "init"
        /\ UNCHANGED <<enabled, installed, attached, flagVars, at, message, todo, savedVars>>
        /\ \/ /\ phase' = [phase EXCEPT ![t] = "enable"]
              /\ service' = service
           \/ /\ phase' = [phase EXCEPT ![t] = "next"]
              /\ service' = [service EXCEPT ![t] = None]
    BY <1>3 DEF InitializeContext
  <2>3. /\ stored' \in [Services -> States]
        /\ copy' \in [Threads -> [Services -> States]]
        /\ mishaps' \subseteq Mishaps
    BY WriteBackType, <2>1, <2>2
  <2>4. CASE phase' = [phase EXCEPT ![t] = "enable"] /\ service' = service
    BY <2>2, <2>3, <2>4
  <2>5. CASE /\ phase' = [phase EXCEPT ![t] = "next"]
             /\ service' = [service EXCEPT ![t] = None]
    <3>1. service' \in [Threads -> Services \cup {None}] /\ phase' \in [Threads -> Phases]
      BY <2>5
    <3>2. TypeOK'
      BY <2>2, <2>3, <3>1
    <3>3. HandInv'
      BY <2>2, <2>5
    <3> QED
      BY <3>2, <3>3
  <2> QED
    BY <2>2, <2>4, <2>5
<1>4. CASE Enable(t)
  <2>1. HandlersOf(service[t]) \subseteq {"rest", "methods", "proxy", "pages"}
    BY <1>4, EnableDoes, ServicesAssumption DEF HandlersOf
  <2>2. /\ service[t] \in Services /\ phase[t] = "enable"
        /\ enabled' \in {enabled, enabled \cup {service[t]}}
        /\ installed' \in {installed, installed \cup HandlersOf(service[t])}
        /\ mishaps' \subseteq Mishaps
        /\ phase' = [phase EXCEPT ![t] = "test"]
        /\ UNCHANGED <<stored, attached, flagVars, at, message, todo, service, copy, savedVars>>
    BY <1>4, EnableDoes
  <2>3. TypeOK'
    BY <2>1, <2>2
  <2>4. HandInv'
    BY <2>2, ServicesAssumption
  <2> QED
    BY <2>3, <2>4
<1>5. CASE Disable(t)
  BY <1>5 DEF Disable
<1>6. CASE TestEnabled(t)
  BY <1>6 DEF TestEnabled
<1>7. CASE SaveContextReads(t)
  BY <1>7 DEF SaveContextReads
<1>8. CASE SaveContextWrites(t)
  <2>1. Reached(Doing(t)) \in States
    BY DEF Reached, States
  <2> QED
    BY WriteBackType, <1>8, <2>1 DEF SaveContextWrites
<1>9. CASE MessageEnds(t)
  BY <1>9 DEF MessageEnds
<1> QED
  BY <1>1, <1>3, <1>4, <1>5, <1>6, <1>7, <1>8, <1>9 DEF HandleMessage

-----------------------------------------------------------------------------
(* The steps of the application.                                            *)

Silent == {"disablePool", "clear", "cleared", "disable", "drop", "dropped", "close",
           "reopen", "attach", "restore", "announce"}

\* A step that leaves the services alone: at most a message enters.
Asks(t) ==
  /\ UNCHANGED <<stored, enabled, installed, service, copy>>
  /\ \/ UNCHANGED <<phase, message>>
     \/ /\ phase[t] = "none" /\ phase' = [phase EXCEPT ![t] = "next"]
        /\ \E m \in Messages : message' = [message EXCEPT ![t] = m]
  /\ mishaps \subseteq mishaps'

LEMMA PostAsks ==
  ASSUME TypeOK, HandInv, NEW t \in Threads, phase[t] = "none",
         NEW m \in Messages, NEW step \in Places \ Silent,
         Post(t, m, step), UNCHANGED <<stored, enabled, installed>>
  PROVE  Asks(t) /\ HandInv'
<1>1. at' = [at EXCEPT ![t] = step]
  BY DEF Post
<1>2. CASE Enters(t, m, Told(m)) /\ UNCHANGED mishaps
  BY <1>1, <1>2, ServicesAssumption DEF TypeOK, Enters, Asks, HandInv, Silent
<1>3. CASE UNCHANGED messageVars /\ mishaps \subseteq mishaps'
  BY <1>1, <1>3 DEF TypeOK, Asks, HandInv, Silent, messageVars
<1>4. \/ poolEnabled /\ Enters(t, m, Told(m)) /\ UNCHANGED mishaps
      \/ UNCHANGED messageVars /\ mishaps \subseteq mishaps'
  <2>1. CASE poolEnabled /\ Enters(t, m, Told(m)) /\ UNCHANGED mishaps
    BY <2>1
  <2>2. CASE /\ UNCHANGED messageVars
             /\ \E A : mishaps' = mishaps \cup A
    BY <2>2
  <2> QED
    BY <2>1, <2>2, Zenon DEF Post
<1> QED
  BY <1>2, <1>3, <1>4

\* A step of the application that posts no message.
LEMMA PlainType ==
  ASSUME TypeOK, HandInv, NEW t \in Threads, NEW step \in Places,
         step \in Silent => phase[t] = "none",
         at' = [at EXCEPT ![t] = step],
         UNCHANGED <<stored, enabled, installed, messageVars, mishaps>>,
         attached' \in BOOLEAN, poolEnabled' \in BOOLEAN,
         processing' \in BOOLEAN, running' \in BOOLEAN,
         savedEnabled' \in [Threads -> BOOLEAN], clearEnabled' \in [Threads -> BOOLEAN]
  PROVE  TypeOK' /\ HandInv' /\ Asks(t)
BY DEF TypeOK, HandInv, Silent, Asks, messageVars

\* A step that posts one.
LEMMA PostingType ==
  ASSUME TypeOK, HandInv, NEW t \in Threads, phase[t] = "none",
         NEW m \in Messages, NEW step \in Places \ Silent, Post(t, m, step),
         UNCHANGED <<stateVars, poolEnabled, running, savedVars>>,
         processing' \in BOOLEAN
  PROVE  TypeOK' /\ HandInv' /\ Asks(t)
<1>1. UNCHANGED <<stored, enabled, installed, attached, poolEnabled, running, savedEnabled,
                  clearEnabled>>
  BY DEF stateVars, savedVars
<1>2. TypeOK'
  BY <1>1, PostType DEF TypeOK
<1>3. Asks(t) /\ HandInv'
  BY <1>1, PostAsks
<1> QED
  BY <1>2, <1>3

LEMMA OperateType ==
  ASSUME TypeOK, HandInv, NEW t \in Threads, Operate(t)
  PROVE  TypeOK' /\ HandInv' /\ Asks(t)
<1> USE DEF stateVars, flagVars, savedVars, Handling
<1>0. /\ attached \in BOOLEAN /\ poolEnabled \in BOOLEAN /\ processing \in BOOLEAN
      /\ running \in BOOLEAN
      /\ savedEnabled \in [Threads -> BOOLEAN] /\ clearEnabled \in [Threads -> BOOLEAN]
      /\ at \in [Threads -> Places] /\ phase \in [Threads -> Phases]
  BY DEF TypeOK
<1>a. ASSUME NEW b \in BOOLEAN
      PROVE  /\ [savedEnabled EXCEPT ![t] = b] \in [Threads -> BOOLEAN]
             /\ [clearEnabled EXCEPT ![t] = b] \in [Threads -> BOOLEAN]
  BY <1>0
<1>1. CASE ScriptCalls(t)
  <2>1. PICK m \in {"start", "stop"}, s \in Services : Enters(t, m, {s})
    BY <1>1 DEF ScriptCalls
  <2>2. /\ phase[t] = "none" /\ at[t] = "idle"
        /\ UNCHANGED <<stateVars, flagVars, at, savedVars, mishaps>>
    BY <1>1 DEF ScriptCalls
  <2>3. m \in Messages /\ {s} \in SUBSET Services
    BY DEF Messages
  <2>4. TypeOK'
    BY <2>1, <2>2, <2>3, EntersType DEF TypeOK
  <2>5. HandInv' /\ Asks(t)
    BY <2>1, <2>2, <2>3, ServicesAssumption DEF TypeOK, Enters, HandInv, Asks
  <2> QED
    BY <2>4, <2>5
<1>2. CASE StartHTTPServer(t)
  <2>1. /\ phase[t] = "none" /\ StartProcessing(t, "idle")
        /\ UNCHANGED <<stateVars, poolEnabled, running, savedVars>>
    BY <1>2 DEF StartHTTPServer
  <2>2. CASE processing' = TRUE /\ Post(t, "httpServerDidStart", "idle")
    BY <1>0, <2>1, <2>2, PostingType DEF Messages, Places, Silent
  <2>3. CASE /\ processing' = processing /\ at' = [at EXCEPT ![t] = "idle"]
             /\ UNCHANGED <<messageVars, mishaps>>
    BY <1>0, <2>1, <2>3, PlainType DEF Places, Silent
  <2> QED
    BY <2>1, <2>2, <2>3 DEF StartProcessing
<1>3. CASE StopHTTPServer(t)
  <2>1. /\ phase[t] = "none" /\ Post(t, "httpServerWillStop", "haltHTTP") /\ processing' = processing
        /\ UNCHANGED <<stateVars, poolEnabled, running, savedVars>>
    BY <1>3 DEF StopHTTPServer
  <2> QED
    BY <1>0, <2>1, PostingType DEF Messages, Places, Silent
<1>4. CASE HTTPServerStops(t)
  <2>1. /\ at' = [at EXCEPT ![t] = "idle"]
        /\ UNCHANGED <<stored, enabled, installed, messageVars, mishaps>>
    BY <1>4 DEF HTTPServerStops
  <2>2. /\ attached' \in BOOLEAN /\ poolEnabled' \in BOOLEAN /\ processing' \in BOOLEAN
        /\ running' \in BOOLEAN
        /\ savedEnabled' \in [Threads -> BOOLEAN] /\ clearEnabled' \in [Threads -> BOOLEAN]
    BY <1>0, <1>a, <1>4 DEF HTTPServerStops, ClearDisables, ClearEnds
  <2> QED
    BY <2>1, <2>2, PlainType DEF Places, Silent
<1>5. CASE Start(t)
  <2>1. Enters(t, "applicationWillStart", Told("applicationWillStart"))
    BY <1>5 DEF Start
  <2>2. /\ phase[t] = "none" /\ poolEnabled' = TRUE /\ at' = [at EXCEPT ![t] = "autoStart"]
        /\ UNCHANGED <<stateVars, processing, running, savedVars, mishaps>>
    BY <1>5 DEF Start
  <2>3. "applicationWillStart" \in Messages /\ Told("applicationWillStart") \in SUBSET Services
    BY DEF Messages, Told
  <2>4. TypeOK'
    BY <2>1, <2>2, <2>3, EntersType DEF TypeOK, Places
  <2>5. HandInv' /\ Asks(t)
    BY <2>1, <2>2, <2>3, ServicesAssumption DEF TypeOK, Enters, HandInv, Asks
  <2> QED
    BY <2>4, <2>5
<1>6. CASE AutoStartHTTPServer(t)
  <2>1. /\ phase[t] = "none" /\ StartProcessing(t, "started")
        /\ UNCHANGED <<stateVars, poolEnabled, running, savedVars>>
    BY <1>6 DEF AutoStartHTTPServer
  <2>2. CASE processing' = TRUE /\ Post(t, "httpServerDidStart", "started")
    BY <1>0, <2>1, <2>2, PostingType DEF Messages, Places, Silent
  <2>3. CASE /\ processing' = processing /\ at' = [at EXCEPT ![t] = "started"]
             /\ UNCHANGED <<messageVars, mishaps>>
    BY <1>0, <2>1, <2>3, PlainType DEF Places, Silent
  <2> QED
    BY <2>1, <2>2, <2>3 DEF StartProcessing
<1>7. CASE StartEnds(t)
  <2>1. /\ at' = [at EXCEPT ![t] = "idle"]
        /\ UNCHANGED <<stored, enabled, installed, messageVars, mishaps>>
    BY <1>7 DEF StartEnds
  <2>2. /\ attached' \in BOOLEAN /\ poolEnabled' \in BOOLEAN /\ processing' \in BOOLEAN
        /\ running' \in BOOLEAN
        /\ savedEnabled' \in [Threads -> BOOLEAN] /\ clearEnabled' \in [Threads -> BOOLEAN]
    BY <1>0, <1>a, <1>7 DEF StartEnds, ClearDisables, ClearEnds
  <2> QED
    BY <2>1, <2>2, PlainType DEF Places, Silent
<1>8. CASE Stop(t)
  <2>1. /\ phase[t] = "none" /\ Post(t, "applicationWillStop", "stopHTTP") /\ processing' = processing
        /\ UNCHANGED <<stateVars, poolEnabled, running, savedVars>>
    BY <1>8 DEF Stop
  <2> QED
    BY <1>0, <2>1, PostingType DEF Messages, Places, Silent
<1>9. CASE StopTellsHTTP(t)
  <2>1. phase[t] = "none" /\ UNCHANGED <<stateVars, flagVars, savedVars>>
    BY <1>9 DEF StopTellsHTTP
  <2>2. CASE Post(t, "httpServerWillStop", "stopProcessing")
    BY <1>0, <2>1, <2>2, PostingType DEF Messages, Places, Silent
  <2>3. CASE at' = [at EXCEPT ![t] = "disablePool"] /\ UNCHANGED <<messageVars, mishaps>>
    BY <1>0, <2>1, <2>3, PlainType DEF Places, Silent
  <2> QED
    BY <1>9, <2>2, <2>3 DEF StopTellsHTTP
<1>10. CASE StopStopsHTTP(t)
  <2>1. /\ at' = [at EXCEPT ![t] = "disablePool"]
        /\ UNCHANGED <<stored, enabled, installed, messageVars, mishaps>>
    BY <1>10 DEF StopStopsHTTP
  <2>2. /\ attached' \in BOOLEAN /\ poolEnabled' \in BOOLEAN /\ processing' \in BOOLEAN
        /\ running' \in BOOLEAN
        /\ savedEnabled' \in [Threads -> BOOLEAN] /\ clearEnabled' \in [Threads -> BOOLEAN]
    BY <1>0, <1>a, <1>10 DEF StopStopsHTTP, ClearDisables, ClearEnds
  <2>3. phase[t] = "none"
    BY <1>10 DEF StopStopsHTTP, HandInv
  <2> QED
    BY <2>1, <2>2, <2>3, PlainType DEF Places, Silent
<1>11. CASE StopDisablesPool(t)
  <2>1. /\ at' = [at EXCEPT ![t] = "clear"]
        /\ UNCHANGED <<stored, enabled, installed, messageVars, mishaps>>
    BY <1>11 DEF StopDisablesPool
  <2>2. /\ attached' \in BOOLEAN /\ poolEnabled' \in BOOLEAN /\ processing' \in BOOLEAN
        /\ running' \in BOOLEAN
        /\ savedEnabled' \in [Threads -> BOOLEAN] /\ clearEnabled' \in [Threads -> BOOLEAN]
    BY <1>0, <1>a, <1>11 DEF StopDisablesPool, ClearDisables, ClearEnds
  <2>3. phase[t] = "none"
    BY <1>11 DEF StopDisablesPool, HandInv
  <2> QED
    BY <2>1, <2>2, <2>3, PlainType DEF Places, Silent
<1>12. CASE StopClears(t)
  <2>1. /\ at' = [at EXCEPT ![t] = "cleared"]
        /\ UNCHANGED <<stored, enabled, installed, messageVars, mishaps>>
    BY <1>12 DEF StopClears
  <2>2. /\ attached' \in BOOLEAN /\ poolEnabled' \in BOOLEAN /\ processing' \in BOOLEAN
        /\ running' \in BOOLEAN
        /\ savedEnabled' \in [Threads -> BOOLEAN] /\ clearEnabled' \in [Threads -> BOOLEAN]
    BY <1>0, <1>a, <1>12 DEF StopClears, ClearDisables, ClearEnds
  <2>3. phase[t] = "none"
    BY <1>12 DEF StopClears, HandInv
  <2> QED
    BY <2>1, <2>2, <2>3, PlainType DEF Places, Silent
<1>13. CASE StopEnds(t)
  <2>1. /\ at' = [at EXCEPT ![t] = "idle"]
        /\ UNCHANGED <<stored, enabled, installed, messageVars, mishaps>>
    BY <1>13 DEF StopEnds
  <2>2. /\ attached' \in BOOLEAN /\ poolEnabled' \in BOOLEAN /\ processing' \in BOOLEAN
        /\ running' \in BOOLEAN
        /\ savedEnabled' \in [Threads -> BOOLEAN] /\ clearEnabled' \in [Threads -> BOOLEAN]
    BY <1>0, <1>a, <1>13 DEF StopEnds, ClearDisables, ClearEnds
  <2> QED
    BY <2>1, <2>2, PlainType DEF Places, Silent
<1>14. CASE ReloadCatalog(t)
  <2>1. /\ phase[t] = "none" /\ Post(t, "catalogWillReload", "detach") /\ processing' = processing
        /\ UNCHANGED <<stateVars, poolEnabled, running, savedVars>>
    BY <1>14 DEF ReloadCatalog
  <2> QED
    BY <1>0, <2>1, PostingType DEF Messages, Places, Silent
<1>15. CASE DetachDatabase(t)
  <2>1. PICK step \in {"disable", "reopen"} : at' = [at EXCEPT ![t] = step]
    BY <1>15 DEF DetachDatabase
  <2>2. UNCHANGED <<stored, enabled, installed, messageVars, mishaps>>
    BY <1>15 DEF DetachDatabase
  <2>3. /\ attached' \in BOOLEAN /\ poolEnabled' \in BOOLEAN /\ processing' \in BOOLEAN
        /\ running' \in BOOLEAN
        /\ savedEnabled' \in [Threads -> BOOLEAN] /\ clearEnabled' \in [Threads -> BOOLEAN]
    BY <1>0, <1>a, <1>15 DEF DetachDatabase
  <2>4. phase[t] = "none"
    BY <1>15 DEF DetachDatabase, HandInv
  <2> QED
    BY <2>1, <2>2, <2>3, <2>4, PlainType DEF Places, Silent
<1>16. CASE DisablePool(t)
  <2>1. PICK step \in {"drop", "attach"} : at' = [at EXCEPT ![t] = step]
    BY <1>16 DEF DisablePool
  <2>2. UNCHANGED <<stored, enabled, installed, messageVars, mishaps>>
    BY <1>16 DEF DisablePool
  <2>3. /\ attached' \in BOOLEAN /\ poolEnabled' \in BOOLEAN /\ processing' \in BOOLEAN
        /\ running' \in BOOLEAN
        /\ savedEnabled' \in [Threads -> BOOLEAN] /\ clearEnabled' \in [Threads -> BOOLEAN]
    BY <1>0, <1>a, <1>16 DEF DisablePool
  <2>4. phase[t] = "none"
    BY <1>16 DEF DisablePool, HandInv
  <2> QED
    BY <2>1, <2>2, <2>3, <2>4, PlainType DEF Places, Silent
<1>17. CASE DropAllJSContexts(t)
  <2>1. /\ at' = [at EXCEPT ![t] = "dropped"]
        /\ UNCHANGED <<stored, enabled, installed, messageVars, mishaps>>
    BY <1>17 DEF DropAllJSContexts
  <2>2. /\ attached' \in BOOLEAN /\ poolEnabled' \in BOOLEAN /\ processing' \in BOOLEAN
        /\ running' \in BOOLEAN
        /\ savedEnabled' \in [Threads -> BOOLEAN] /\ clearEnabled' \in [Threads -> BOOLEAN]
    BY <1>0, <1>a, <1>17 DEF DropAllJSContexts, ClearDisables, ClearEnds
  <2>3. phase[t] = "none"
    BY <1>17 DEF DropAllJSContexts, HandInv
  <2> QED
    BY <2>1, <2>2, <2>3, PlainType DEF Places, Silent
<1>18. CASE DropEnds(t)
  <2>1. /\ at' = [at EXCEPT ![t] = "close"]
        /\ UNCHANGED <<stored, enabled, installed, messageVars, mishaps>>
    BY <1>18 DEF DropEnds
  <2>2. /\ attached' \in BOOLEAN /\ poolEnabled' \in BOOLEAN /\ processing' \in BOOLEAN
        /\ running' \in BOOLEAN
        /\ savedEnabled' \in [Threads -> BOOLEAN] /\ clearEnabled' \in [Threads -> BOOLEAN]
    BY <1>0, <1>a, <1>18 DEF DropEnds, ClearDisables, ClearEnds
  <2>3. phase[t] = "none"
    BY <1>18 DEF DropEnds, HandInv
  <2> QED
    BY <2>1, <2>2, <2>3, PlainType DEF Places, Silent
<1>19. CASE OpenDatabase(t)
  <2>1. /\ at' = [at EXCEPT ![t] = "restore"]
        /\ UNCHANGED <<stored, enabled, installed, messageVars, mishaps>>
    BY <1>19 DEF OpenDatabase
  <2>2. /\ attached' \in BOOLEAN /\ poolEnabled' \in BOOLEAN /\ processing' \in BOOLEAN
        /\ running' \in BOOLEAN
        /\ savedEnabled' \in [Threads -> BOOLEAN] /\ clearEnabled' \in [Threads -> BOOLEAN]
    BY <1>0, <1>a, <1>19 DEF OpenDatabase, ClearDisables, ClearEnds
  <2>3. phase[t] = "none"
    BY <1>19 DEF OpenDatabase, HandInv
  <2> QED
    BY <2>1, <2>2, <2>3, PlainType DEF Places, Silent
<1>20. CASE RestorePool(t)
  <2>1. PICK step \in {"reopen", "announce"} : at' = [at EXCEPT ![t] = step]
    BY <1>20 DEF RestorePool
  <2>2. UNCHANGED <<stored, enabled, installed, messageVars, mishaps>>
    BY <1>20 DEF RestorePool
  <2>3. /\ attached' \in BOOLEAN /\ poolEnabled' \in BOOLEAN /\ processing' \in BOOLEAN
        /\ running' \in BOOLEAN
        /\ savedEnabled' \in [Threads -> BOOLEAN] /\ clearEnabled' \in [Threads -> BOOLEAN]
    BY <1>0, <1>a, <1>20 DEF RestorePool
  <2>4. phase[t] = "none"
    BY <1>20 DEF RestorePool, HandInv
  <2> QED
    BY <2>1, <2>2, <2>3, <2>4, PlainType DEF Places, Silent
<1>21. CASE AnnounceReload(t)
  <2>1. /\ phase[t] = "none" /\ Post(t, "catalogDidReload", "unlock") /\ processing' = processing
        /\ UNCHANGED <<stateVars, poolEnabled, running, savedVars>>
    BY <1>21 DEF AnnounceReload, HandInv
  <2> QED
    BY <1>0, <2>1, PostingType DEF Messages, Places, Silent
<1>22. CASE ReloadEnds(t)
  <2>1. /\ at' = [at EXCEPT ![t] = "idle"]
        /\ UNCHANGED <<stored, enabled, installed, messageVars, mishaps>>
    BY <1>22 DEF ReloadEnds
  <2>2. /\ attached' \in BOOLEAN /\ poolEnabled' \in BOOLEAN /\ processing' \in BOOLEAN
        /\ running' \in BOOLEAN
        /\ savedEnabled' \in [Threads -> BOOLEAN] /\ clearEnabled' \in [Threads -> BOOLEAN]
    BY <1>0, <1>a, <1>22 DEF ReloadEnds, ClearDisables, ClearEnds
  <2> QED
    BY <2>1, <2>2, PlainType DEF Places, Silent
<1> QED
  BY <1>1, <1>2, <1>3, <1>4, <1>5, <1>6, <1>7, <1>8, <1>9, <1>10, <1>11, <1>12, <1>13,
     <1>14, <1>15, <1>16, <1>17, <1>18, <1>19, <1>20, <1>21, <1>22
  DEF Operate

-----------------------------------------------------------------------------
(* Type correctness.                                                        *)

LEMMA StutterType == TypeOK /\ HandInv /\ UNCHANGED vars => TypeOK' /\ HandInv'
BY DEF TypeOK, HandInv, vars, stateVars, flagVars, messageVars, savedVars

LEMMA NextType == TypeOK /\ HandInv /\ [Next]_vars => TypeOK' /\ HandInv'
<1>1. ASSUME TypeOK, HandInv, Next PROVE TypeOK' /\ HandInv'
  <2>1. PICK t \in Threads : HandleMessage(t) \/ Operate(t)
    BY <1>1 DEF Next
  <2> QED
    BY <1>1, <2>1, HandleTypeOK, OperateType
<1> QED
  BY <1>1, StutterType

\* Every variable keeps its type, and a thread has a service in its hand exactly
\* while it handles one.
THEOREM TypeCorrect == Spec => [](TypeOK /\ HandInv)
<1> QED
  BY InitTypeOK, NextType, PTL DEF Spec

-----------------------------------------------------------------------------
(* The request handlers.                                                    *)

LEMMA HandlersDiffer ==
  ASSUME NEW s \in Services, NEW r \in Services, s # r
  PROVE  HandlersOf(s) \cap HandlersOf(r) = {}
BY ServicesAssumption DEF HandlersOf

LEMMA HandlersStep ==
  ASSUME TypeOK, HandInv, HandlersMatch, NEW t \in Threads, HandleMessage(t) \/ Operate(t)
  PROVE  HandlersMatch'
<1>1. CASE UNCHANGED <<enabled, installed>>
  BY <1>1 DEF HandlersMatch
<1>2. CASE Enable(t)
  <2>1. /\ service[t] \in Services
        /\ \/ enabled' = enabled /\ installed' = installed
           \/ /\ enabled' = enabled \cup {service[t]}
              /\ installed' = installed \cup HandlersOf(service[t])
    BY <1>2, EnableDoes
  <2>2. (UNION {HandlersOf(s) : s \in enabled}) \cup HandlersOf(service[t])
          = UNION {HandlersOf(s) : s \in enabled \cup {service[t]}}
    BY DEF HandlersMatch
  <2> QED
    BY <2>1, <2>2 DEF HandlersMatch
<1>3. CASE Disable(t)
  <2>1. /\ service[t] \in Services
        /\ enabled' = enabled \ {service[t]}
        /\ installed' = IF service[t] \in enabled THEN installed \ HandlersOf(service[t])
                                                  ELSE installed
    BY <1>3, InHandType DEF Disable
  <2>2. CASE service[t] \notin enabled
    BY <2>1, <2>2 DEF HandlersMatch
  <2>3. CASE service[t] \in enabled
    <3>1. \A s \in enabled : s # service[t] => HandlersOf(s) \cap HandlersOf(service[t]) = {}
      BY <2>1, HandlersDiffer DEF TypeOK
    <3>2. (UNION {HandlersOf(s) : s \in enabled}) \ HandlersOf(service[t])
            = UNION {HandlersOf(s) : s \in enabled \ {service[t]}}
      BY <3>1
    <3> QED
      BY <2>1, <2>3, <3>2 DEF HandlersMatch
  <2> QED
    BY <2>2, <2>3
<1>4. CASE HandleMessage(t) /\ ~Enable(t) /\ ~Disable(t)
  <2>1. UNCHANGED <<enabled, installed>>
    BY <1>4 DEF HandleMessage, LoadContext, InitializeContext, TestEnabled, SaveContextReads,
                SaveContextWrites, MessageEnds, stateVars
  <2> QED
    BY <1>1, <2>1
<1>5. CASE Operate(t)
  BY <1>1, <1>5, OperateType DEF Asks
<1> QED
  BY <1>2, <1>3, <1>4, <1>5

LEMMA NextHandlers ==
  TypeOK /\ HandInv /\ HandlersMatch /\ [Next]_vars => HandlersMatch'
<1>1. ASSUME TypeOK, HandInv, HandlersMatch, Next PROVE HandlersMatch'
  BY <1>1, HandlersStep DEF Next
<1>2. ASSUME HandlersMatch, UNCHANGED vars PROVE HandlersMatch'
  BY <1>2 DEF HandlersMatch, vars, stateVars
<1> QED
  BY <1>1, <1>2

\* The HTTP server has the handlers of the enabled services and no other, for any
\* threads and whatever was refused: both handlers of the RPC service, or none.
THEOREM HandlersAreMatched == Spec => []HandlersMatch
<1>1. Init => HandlersMatch
  BY DEF Init, HandlersMatch
<1> QED
  BY <1>1, TypeCorrect, NextHandlers, PTL DEF Spec

-----------------------------------------------------------------------------
(* The stored states.                                                       *)

Clean == mishaps \cap {"collided", "overwritten"} = {}

\* What a thread knows of its service stays true while others work on theirs.
LEMMA KnowsFrame ==
  ASSUME TypeOK, HandInv, NEW u \in Threads, Knows(u),
         phase'[u] = phase[u], service'[u] = service[u], message'[u] = message[u],
         service[u] \in Services =>
           /\ stored'[service[u]] = stored[service[u]]
           /\ service[u] \in enabled' <=> service[u] \in enabled
  PROVE  Knows(u)'
<1>1. CASE service[u] = None
  <2>1. phase'[u] \in {"none", "next"}
    BY <1>1 DEF HandInv
  <2> QED
    BY <2>1 DEF Knows
<1>2. CASE service[u] # None
  <2>1. service[u] \in Services
    BY <1>2 DEF TypeOK
  <2>2. service'[u] = service[u] /\ stored'[service'[u]] = stored[service[u]]
    BY <2>1
  <2>3. service'[u] \in enabled' <=> service[u] \in enabled
    BY <2>1
  <2>4. Doing(u)' = Doing(u)
    BY <2>2 DEF Doing, Command
  <2>5. Allows(Doing(u), stored[service[u]])' <=> Allows(Doing(u), stored[service[u]])
    BY <2>2, <2>4 DEF Allows
  <2>6. Agrees(service[u])' <=> Agrees(service[u])
    BY <2>2, <2>3 DEF Agrees
  <2>7. Enables(Doing(u))' <=> Enables(Doing(u))
    BY <2>4 DEF Enables
  <2> QED
    BY <2>2, <2>3, <2>5, <2>6, <2>7 DEF Knows
<1> QED
  BY <1>1, <1>2

\* The thread t has had a service in its hand, or takes one that nobody has, or
\* gives one back whose states agree; it touches no other.
Touches(t, s) ==
  /\ s \in Services
  /\ \A u \in Threads \ {t} :
       /\ phase'[u] = phase[u] /\ service'[u] = service[u] /\ message'[u] = message[u]
       /\ service[u] # s
  /\ \A r \in Services \ {s} :
       /\ stored'[r] = stored[r]
       /\ r \in enabled' <=> r \in enabled
  /\ service[t] \in {None, s} /\ service'[t] \in {None, s}
  /\ service'[t] = None => Agrees(s)'

LEMMA TouchAgrees ==
  ASSUME TypeOK, HandInv, AgreeInv, Clean, NEW t \in Threads, NEW s \in Services,
         Touches(t, s), Knows(t)'
  PROVE  AgreeInv'
<1>1. /\ \A v, u \in Threads : v # u /\ service[v] # None => service[v] # service[u]
      /\ \A u \in Threads : Knows(u)
      /\ \A r \in Services : (\A u \in Threads : ~InHand(u, r)) => Agrees(r)
  BY DEF AgreeInv, Clean
<1>2. \A v, u \in Threads : v # u /\ service'[v] # None => service'[v] # service'[u]
  BY <1>1, ServicesAssumption DEF Touches
<1>3. ASSUME NEW u \in Threads PROVE Knows(u)'
  <2>1. CASE u # t
    BY <1>1, <2>1, KnowsFrame DEF Touches
  <2> QED
    BY <2>1
<1>4. ASSUME NEW r \in Services, \A u \in Threads : ~InHand(u, r)'
      PROVE  Agrees(r)'
  <2>1. CASE r = s
    BY <1>4, <2>1 DEF InHand, Touches
  <2>2. CASE r # s
    <3>1. \A u \in Threads : ~InHand(u, r)
      BY <1>4, <2>2, ServicesAssumption DEF InHand, Touches
    <3> QED
      BY <1>1, <2>2, <3>1 DEF Agrees, Touches
  <2> QED
    BY <2>1, <2>2
<1> QED
  BY <1>2, <1>3, <1>4 DEF AgreeInv

\* A write that overwrites nothing changes the state of one service.
LEMMA WriteBackDoes ==
  ASSUME TypeOK, NEW t \in Threads, service[t] \in Services, NEW state \in States,
         WriteBack(t, state), Clean'
  PROVE  /\ stored'[service[t]] = state
         /\ \A r \in Services \ {service[t]} : stored'[r] = stored[r]
         /\ Clean
<1>1. ~\E r \in Services \ {service[t]} : copy[t][r] # stored[r]
  BY DEF WriteBack, Clean
<1>2. /\ stored' = [copy[t] EXCEPT ![service[t]] = state]
      /\ copy[t] \in [Services -> States]
  BY DEF WriteBack, TypeOK
<1>3. mishaps \subseteq mishaps'
  BY DEF WriteBack
<1> QED
  BY <1>1, <1>2, <1>3 DEF Clean

\* The state that is saved says what the service has been made.
LEMMA ReachedSays ==
  ASSUME NEW c, NEW state, Allows(c, state)
  PROVE  Reached(c) \in States /\ (Reached(c) = "STARTED" <=> Enables(c))
BY DEF Allows, Reached, Enables, States

\* Handling a message keeps what is known of every service.
LEMMA HandleAgrees ==
  ASSUME TypeOK, HandInv, AgreeInv, NEW t \in Threads, HandleMessage(t), TypeOK', HandInv'
  PROVE  AgreeInv'
<1> SUFFICES ASSUME Clean' PROVE AgreeInv'
  BY DEF AgreeInv, Clean
<1>0. /\ Clean => \A v, u \in Threads : v # u /\ service[v] # None => service[v] # service[u]
      /\ Clean => \A u \in Threads : Knows(u)
      /\ Clean => \A r \in Services : (\A u \in Threads : ~InHand(u, r)) => Agrees(r)
  BY DEF AgreeInv, Clean
<1>1. CASE LoadContext(t)
  <2>1. PICK s \in todo[t] :
          /\ \/ /\ stored[s] = "new"
                /\ phase' = [phase EXCEPT ![t] = "init"]
                /\ service' = [service EXCEPT ![t] = s]
             \/ /\ Allows(Command(message[t], s), stored[s])
                /\ phase' = [phase EXCEPT ![t] = "enable"]
                /\ service' = [service EXCEPT ![t] = s]
             \/ UNCHANGED <<phase, service>>
          /\ mishaps \subseteq mishaps'
          /\ (\E u \in Threads \ {t} : InHand(u, s)) => "collided" \in mishaps'
    BY <1>1 DEF LoadContext
  <2>2. phase[t] = "next" /\ UNCHANGED <<stored, enabled, message>>
    BY <1>1 DEF LoadContext, stateVars
  <2>3. s \in Services /\ service[t] = None
    BY <2>1, <2>2 DEF TypeOK, HandInv
  <2>4. Clean /\ \A u \in Threads \ {t} : service[u] # s
    BY <2>1 DEF Clean, InHand
  <2>5. Agrees(s)
    BY <1>0, <2>3, <2>4, ServicesAssumption DEF InHand
  <2>6. \A u \in Threads \ {t} : phase'[u] = phase[u] /\ service'[u] = service[u]
    BY <2>1 DEF TypeOK
  <2>7. CASE /\ stored[s] = "new"
             /\ phase' = [phase EXCEPT ![t] = "init"]
             /\ service' = [service EXCEPT ![t] = s]
    <3>1. phase'[t] = "init" /\ service'[t] = s
      BY <2>7 DEF TypeOK
    <3>2. Knows(t)'
      BY <2>2, <2>5, <2>7, <3>1 DEF Knows, Agrees
    <3>3. Touches(t, s)
      BY <2>2, <2>3, <2>4, <2>6, <3>1, ServicesAssumption DEF Touches
    <3> QED
      BY <2>3, <2>4, <3>2, <3>3, TouchAgrees
  <2>8. CASE /\ Allows(Command(message[t], s), stored[s])
             /\ phase' = [phase EXCEPT ![t] = "enable"]
             /\ service' = [service EXCEPT ![t] = s]
    <3>1. phase'[t] = "enable" /\ service'[t] = s
      BY <2>8 DEF TypeOK
    <3>2. Doing(t)' = Command(message[t], s)
      BY <2>2, <3>1 DEF Doing, Command
    <3>3. Allows(Doing(t), stored[service[t]])'
      BY <2>2, <2>8, <3>1, <3>2 DEF Allows
    <3>4. Knows(t)'
      BY <2>2, <2>5, <3>1, <3>3 DEF Knows, Agrees
    <3>5. Touches(t, s)
      BY <2>2, <2>3, <2>4, <2>6, <3>1, ServicesAssumption DEF Touches
    <3> QED
      BY <2>3, <2>4, <3>4, <3>5, TouchAgrees
  <2>9. CASE UNCHANGED <<phase, service>>
    <3>1. \A u \in Threads : Knows(u)'
      BY <1>0, <2>2, <2>4, <2>9, KnowsFrame
    <3> QED
      BY <1>0, <2>2, <2>4, <2>9, <3>1 DEF AgreeInv, InHand, Agrees
  <2> QED
    BY <2>1, <2>7, <2>8, <2>9
<1>2. ASSUME NEW s \in Services, service[t] = s, Clean
      PROVE  \A u \in Threads \ {t} : service[u] # s
  BY <1>0, <1>2, ServicesAssumption
<1>3. CASE InitializeContext(t)
  <2>0. PICK s \in Services : s = service[t]
    BY <1>3, InHandType DEF InitializeContext
  <2>1. /\ phase[t] = "init" /\ WriteBack(t, "STOPPED")
        /\ UNCHANGED <<enabled, message>>
        /\ \/ /\ Allows(Doing(t), "STOPPED")
              /\ phase' = [phase EXCEPT ![t] = "enable"]
              /\ UNCHANGED service
           \/ /\ phase' = [phase EXCEPT ![t] = "next"]
              /\ service' = [service EXCEPT ![t] = None]
    BY <1>3 DEF InitializeContext
  <2>2. s \in Services
    OBVIOUS
  <2>3. /\ Clean
        /\ stored'[s] = "STOPPED"
        /\ \A r \in Services \ {s} : stored'[r] = stored[r]
    BY <2>0, <2>1, WriteBackDoes DEF States
  <2>4. \A u \in Threads \ {t} :
          phase'[u] = phase[u] /\ service'[u] = service[u] /\ service[u] # s
    BY <1>2, <2>0, <2>1, <2>3 DEF TypeOK
  <2>5. s \notin enabled'
    <3>1. stored[s] = "new" /\ Agrees(s)
      BY <1>0, <2>0, <2>1, <2>3 DEF Knows
    <3> QED
      BY <2>1, <3>1 DEF Agrees
  <2>6. CASE /\ Allows(Doing(t), "STOPPED")
             /\ phase' = [phase EXCEPT ![t] = "enable"]
             /\ UNCHANGED service
    <3>1. phase'[t] = "enable" /\ service'[t] = s
      BY <2>0, <2>6 DEF TypeOK
    <3>2. Doing(t)' = Doing(t)
      BY <2>1, <2>6 DEF Doing, Command
    <3>3. Allows(Doing(t), stored[service[t]])'
      BY <2>3, <2>6, <3>1, <3>2 DEF Allows
    <3>4. Knows(t)'
      BY <2>3, <2>5, <3>1, <3>3 DEF Knows, Agrees
    <3>5. Touches(t, s)
      BY <2>0, <2>1, <2>2, <2>3, <2>4, <3>1, ServicesAssumption DEF Touches
    <3> QED
      BY <2>2, <2>3, <3>4, <3>5, TouchAgrees
  <2>7. CASE /\ phase' = [phase EXCEPT ![t] = "next"]
             /\ service' = [service EXCEPT ![t] = None]
    <3>1. phase'[t] = "next" /\ service'[t] = None
      BY <2>7 DEF TypeOK
    <3>2. Knows(t)'
      BY <3>1 DEF Knows
    <3>3. Agrees(s)'
      BY <2>3, <2>5 DEF Agrees
    <3>4. Touches(t, s)
      BY <2>0, <2>1, <2>2, <2>3, <2>4, <3>1, <3>3, ServicesAssumption DEF Touches
    <3> QED
      BY <2>2, <2>3, <3>2, <3>4, TouchAgrees
  <2> QED
    BY <2>1, <2>6, <2>7
<1>4. CASE Enable(t) \/ Disable(t)
  <2> DEFINE s == service[t]
  <2>1. /\ s \in Services /\ phase[t] = "enable"
        /\ phase' = [phase EXCEPT ![t] = "test"]
        /\ UNCHANGED <<stored, message, service>>
        /\ Clean
        /\ \/ enabled' = enabled
           \/ Enables(Doing(t)) /\ enabled' = enabled \cup {s}
           \/ ~Enables(Doing(t)) /\ enabled' = enabled \ {s}
    <3>1. CASE Enable(t)
      BY <3>1, EnableDoes DEF Clean
    <3>2. CASE Disable(t)
      BY <3>2, InHandType DEF Disable, Clean
    <3> QED
      BY <1>4, <3>1, <3>2
  <2>2. phase'[t] = "test" /\ service'[t] = s
    BY <2>1 DEF TypeOK
  <2>3. Allows(Doing(t), stored[s]) /\ Agrees(s)
    BY <1>0, <2>1 DEF Knows
  <2>4. Doing(t)' = Doing(t)
    BY <2>1 DEF Doing, Command
  <2>5. Allows(Doing(t), stored[service[t]])'
    BY <2>1, <2>3, <2>4 DEF Allows
  <2>6. Agrees(service[t])' \/ (service'[t] \in enabled' <=> Enables(Doing(t))')
    BY <2>1, <2>3, <2>4 DEF Agrees, Enables
  <2>7. Knows(t)'
    BY <2>2, <2>5, <2>6 DEF Knows
  <2>8. \A u \in Threads \ {t} :
          phase'[u] = phase[u] /\ service'[u] = service[u] /\ service[u] # s
    BY <1>2, <2>1 DEF TypeOK
  <2>9. Touches(t, s)
    BY <2>1, <2>2, <2>8, ServicesAssumption DEF Touches
  <2> QED
    BY <2>1, <2>7, <2>9, TouchAgrees
<1>5. CASE TestEnabled(t)
  <2>0. PICK s \in Services : s = service[t]
    BY <1>5, InHandType DEF TestEnabled
  <2>1. /\ phase[t] = "test"
        /\ UNCHANGED <<stored, enabled, message, mishaps>>
        /\ \/ /\ s \in enabled <=> Enables(Doing(t))
              /\ phase' = [phase EXCEPT ![t] = "read"]
              /\ UNCHANGED service
           \/ /\ ~(s \in enabled <=> Enables(Doing(t)))
              /\ phase' = [phase EXCEPT ![t] = "next"]
              /\ service' = [service EXCEPT ![t] = None]
    BY <1>5, <2>0 DEF TestEnabled, stateVars
  <2>2. s \in Services /\ Clean
    BY <2>1 DEF Clean
  <2>3. /\ Allows(Doing(t), stored[s])
        /\ Agrees(s) \/ (s \in enabled <=> Enables(Doing(t)))
    BY <1>0, <2>0, <2>1, <2>2 DEF Knows
  <2>4. \A u \in Threads \ {t} :
          phase'[u] = phase[u] /\ service'[u] = service[u] /\ service[u] # s
    BY <1>2, <2>0, <2>1, <2>2 DEF TypeOK
  <2>5. CASE /\ s \in enabled <=> Enables(Doing(t))
             /\ phase' = [phase EXCEPT ![t] = "read"]
             /\ UNCHANGED service
    <3>1. phase'[t] = "read" /\ service'[t] = s
      BY <2>0, <2>5 DEF TypeOK
    <3>2. Doing(t)' = Doing(t)
      BY <2>0, <2>1, <3>1 DEF Doing, Command
    <3>3. Allows(Doing(t), stored[service[t]])'
      BY <2>1, <2>3, <3>1, <3>2 DEF Allows
    <3>4. service'[t] \in enabled' <=> Enables(Doing(t))'
      BY <2>1, <2>5, <3>1, <3>2 DEF Enables
    <3>5. Knows(t)'
      BY <3>1, <3>3, <3>4 DEF Knows
    <3>6. Touches(t, s)
      BY <2>0, <2>1, <2>2, <2>4, <3>1, ServicesAssumption DEF Touches
    <3> QED
      BY <2>2, <3>5, <3>6, TouchAgrees
  <2>6. CASE /\ ~(s \in enabled <=> Enables(Doing(t)))
             /\ phase' = [phase EXCEPT ![t] = "next"]
             /\ service' = [service EXCEPT ![t] = None]
    <3>1. phase'[t] = "next" /\ service'[t] = None
      BY <2>6 DEF TypeOK
    <3>2. Knows(t)'
      BY <3>1 DEF Knows
    <3>3. Agrees(s)'
      BY <2>1, <2>3, <2>6 DEF Agrees
    <3>4. Touches(t, s)
      BY <2>0, <2>1, <2>2, <2>4, <3>1, <3>3, ServicesAssumption DEF Touches
    <3> QED
      BY <2>2, <3>2, <3>4, TouchAgrees
  <2> QED
    BY <2>1, <2>5, <2>6
<1>6. CASE SaveContextReads(t)
  <2> DEFINE s == service[t]
  <2>1. /\ phase[t] = "read" /\ phase' = [phase EXCEPT ![t] = "write"]
        /\ UNCHANGED <<stored, enabled, message, service, mishaps>>
    BY <1>6 DEF SaveContextReads, stateVars
  <2>2. s \in Services /\ Clean
    BY <2>1, InHandType DEF Clean
  <2>3. /\ Allows(Doing(t), stored[s])
        /\ s \in enabled <=> Enables(Doing(t))
    BY <1>0, <2>1, <2>2 DEF Knows
  <2>4. \A u \in Threads \ {t} :
          phase'[u] = phase[u] /\ service'[u] = service[u] /\ service[u] # s
    BY <1>2, <2>1, <2>2 DEF TypeOK
  <2>5. phase'[t] = "write" /\ service'[t] = s
    BY <2>1 DEF TypeOK
  <2>6. Doing(t)' = Doing(t)
    BY <2>1, <2>5 DEF Doing, Command
  <2>7. Allows(Doing(t), stored[service[t]])'
    BY <2>1, <2>3, <2>5, <2>6 DEF Allows
  <2>8. service'[t] \in enabled' <=> Enables(Doing(t))'
    BY <2>1, <2>3, <2>5, <2>6 DEF Enables
  <2>9. Knows(t)'
    BY <2>5, <2>7, <2>8 DEF Knows
  <2>10. Touches(t, s)
    BY <2>1, <2>2, <2>4, <2>5, ServicesAssumption DEF Touches
  <2> QED
    BY <2>2, <2>9, <2>10, TouchAgrees
<1>7. CASE SaveContextWrites(t)
  <2>0. PICK s \in Services : s = service[t]
    BY <1>7, InHandType DEF SaveContextWrites
  <2>1. /\ phase[t] = "write" /\ WriteBack(t, Reached(Doing(t)))
        /\ UNCHANGED <<enabled, message>>
        /\ phase' = [phase EXCEPT ![t] = "next"]
        /\ service' = [service EXCEPT ![t] = None]
    BY <1>7 DEF SaveContextWrites
  <2>2. s \in Services
    OBVIOUS
  <2>3. Reached(Doing(t)) \in States
    BY DEF Reached, States
  <2>4. /\ Clean
        /\ stored'[s] = Reached(Doing(t))
        /\ \A r \in Services \ {s} : stored'[r] = stored[r]
    BY <2>0, <2>1, <2>3, WriteBackDoes
  <2>5. /\ Allows(Doing(t), stored[s])
        /\ s \in enabled <=> Enables(Doing(t))
    BY <1>0, <2>0, <2>1, <2>4 DEF Knows
  <2>6. Agrees(s)'
    BY <2>1, <2>4, <2>5, ReachedSays DEF Agrees
  <2>7. \A u \in Threads \ {t} :
          phase'[u] = phase[u] /\ service'[u] = service[u] /\ service[u] # s
    BY <1>2, <2>0, <2>1, <2>4 DEF TypeOK
  <2>8. phase'[t] = "next" /\ service'[t] = None
    BY <2>1 DEF TypeOK
  <2>9. Knows(t)'
    BY <2>8 DEF Knows
  <2>10. Touches(t, s)
    BY <2>0, <2>1, <2>2, <2>4, <2>6, <2>7, <2>8, ServicesAssumption DEF Touches
  <2> QED
    BY <2>2, <2>4, <2>9, <2>10, TouchAgrees
<1>8. CASE MessageEnds(t)
  <2>1. /\ phase[t] = "next" /\ phase' = [phase EXCEPT ![t] = "none"]
        /\ message' = [message EXCEPT ![t] = None]
        /\ UNCHANGED <<stored, enabled, service, mishaps>>
    BY <1>8 DEF MessageEnds, stateVars
  <2>2. Clean
    BY <2>1 DEF Clean
  <2>3. ASSUME NEW u \in Threads PROVE Knows(u)'
    <3>1. CASE u = t
      <4>1. phase'[u] = "none"
        BY <2>1, <3>1 DEF TypeOK
      <4> QED
        BY <4>1 DEF Knows
    <3>2. CASE u # t
      <4>1. phase'[u] = phase[u] /\ message'[u] = message[u]
        BY <2>1, <3>2 DEF TypeOK
      <4> QED
        BY <1>0, <2>1, <2>2, <4>1, KnowsFrame
    <3> QED
      BY <3>1, <3>2
  <2> QED
    BY <1>0, <2>1, <2>2, <2>3 DEF AgreeInv, InHand, Agrees
<1> QED
  BY <1>1, <1>3, <1>4, <1>5, <1>6, <1>7, <1>8 DEF HandleMessage

\* The other steps at most begin a message.
LEMMA AsksAgrees ==
  ASSUME TypeOK, HandInv, AgreeInv, NEW t \in Threads, Asks(t)
  PROVE  AgreeInv'
<1> SUFFICES ASSUME Clean' PROVE AgreeInv'
  BY DEF AgreeInv, Clean
<1>1. Clean
  BY DEF Asks, Clean
<1>2. /\ \A v, u \in Threads : v # u /\ service[v] # None => service[v] # service[u]
      /\ \A u \in Threads : Knows(u)
      /\ \A r \in Services : (\A u \in Threads : ~InHand(u, r)) => Agrees(r)
  BY <1>1 DEF AgreeInv, Clean
<1>3. UNCHANGED <<stored, enabled, service>>
  BY DEF Asks
<1>4. ASSUME NEW u \in Threads PROVE Knows(u)'
  <2>1. CASE phase'[u] = phase[u] /\ message'[u] = message[u]
    BY <1>2, <1>3, <2>1, KnowsFrame
  <2>2. CASE phase'[u] = "next"
    BY <2>2 DEF Knows
  <2>3. CASE UNCHANGED <<phase, message>>
    BY <2>1, <2>3
  <2>4. CASE /\ phase' = [phase EXCEPT ![t] = "next"]
             /\ \E m \in Messages : message' = [message EXCEPT ![t] = m]
    <3>1. CASE u = t
      BY <2>2, <2>4, <3>1 DEF TypeOK
    <3>2. CASE u # t
      <4>1. phase'[u] = phase[u] /\ message'[u] = message[u]
        BY <2>4, <3>2 DEF TypeOK
      <4> QED
        BY <2>1, <4>1
    <3> QED
      BY <3>1, <3>2
  <2> QED
    BY <2>3, <2>4 DEF Asks
<1> QED
  BY <1>2, <1>3, <1>4 DEF AgreeInv, InHand, Agrees

LEMMA NextAgrees == TypeOK /\ HandInv /\ AgreeInv /\ [Next]_vars => AgreeInv'
<1>1. ASSUME TypeOK, HandInv, AgreeInv, Next PROVE AgreeInv'
  <2>1. PICK t \in Threads : HandleMessage(t) \/ Operate(t)
    BY <1>1 DEF Next
  <2>2. CASE HandleMessage(t)
    BY <1>1, <2>2, HandleTypeOK, HandleAgrees
  <2>3. CASE Operate(t)
    BY <1>1, <2>3, OperateType, AsksAgrees
  <2> QED
    BY <2>1, <2>2, <2>3
<1>2. ASSUME TypeOK, HandInv, AgreeInv, UNCHANGED vars PROVE AgreeInv'
  <2>1. PICK t \in Threads : TRUE
    BY DEF Threads
  <2>2. Asks(t)
    BY <1>2 DEF Asks, vars, stateVars, messageVars
  <2> QED
    BY <1>2, <2>2, AsksAgrees
<1> QED
  BY <1>1, <1>2

LEMMA InitAgrees == Init => AgreeInv
<1>1. ASSUME Init PROVE AgreeInv
  <2>1. \A t \in Threads : service[t] = None /\ phase[t] = "none"
    BY <1>1 DEF Init
  <2>2. \A t \in Threads : Knows(t)
    BY <2>1 DEF Knows
  <2>3. \A s \in Services : Agrees(s)
    BY <1>1 DEF Init, Blank, Agrees
  <2> QED
    BY <2>1, <2>2, <2>3 DEF AgreeInv
<1> QED
  BY <1>1

\* The state in the storage says whether the native service is enabled, for any
\* number of threads that handle messages, unless two of them worked on the same
\* service or one wrote back an older state of another.
THEOREM StatesAreAgreed == Spec => []StatesAgree
<1>1. AgreeInv => StatesAgree
  BY DEF AgreeInv, StatesAgree, Agrees
<1> QED
  BY <1>1, InitAgrees, TypeCorrect, NextAgrees, PTL DEF Spec

-----------------------------------------------------------------------------
(* What a step leaves alone.                                                *)

\* A step of the handling of a message moves one thread on in its message, or ends
\* the message, and nothing of the application.
LEMMA HandleFrame ==
  ASSUME TypeOK, HandInv, NEW t \in Threads, HandleMessage(t)
  PROVE  /\ UNCHANGED <<attached, poolEnabled, processing, running, at>>
         /\ phase[t] # "none" /\ todo'[t] \subseteq todo[t] /\ mishaps \subseteq mishaps'
         /\ \A u \in Threads \ {t} : /\ phase'[u] = phase[u] /\ message'[u] = message[u]
                                     /\ todo'[u] = todo[u] /\ service'[u] = service[u]
         /\ \/ phase'[t] # "none" /\ message'[t] = message[t]
            \/ /\ phase[t] = "next" /\ phase'[t] = "none" /\ message'[t] = None
               /\ todo[t] = {} /\ UNCHANGED <<todo, stored, enabled, service>>
<1> USE DEF TypeOK, stateVars, flagVars
<1>1. CASE LoadContext(t)
  <2>1. /\ phase[t] = "next"
        /\ \E s \in todo[t] : todo' = [todo EXCEPT ![t] = @ \ {s}]
        /\ \/ /\ phase' \in {[phase EXCEPT ![t] = "init"], [phase EXCEPT ![t] = "enable"]}
              /\ \E s \in Services : service' = [service EXCEPT ![t] = s]
           \/ UNCHANGED <<phase, service>>
        /\ mishaps \subseteq mishaps'
        /\ UNCHANGED <<attached, poolEnabled, processing, running, at, message>>
    BY <1>1 DEF LoadContext
  <2> QED
    BY <2>1
<1>2. CASE InitializeContext(t)
  BY <1>2 DEF InitializeContext, WriteBack
<1>3. CASE Enable(t)
  BY <1>3, EnableDoes
<1>4. CASE Disable(t)
  BY <1>4 DEF Disable
<1>5. CASE TestEnabled(t)
  BY <1>5 DEF TestEnabled
<1>6. CASE SaveContextReads(t)
  BY <1>6 DEF SaveContextReads
<1>7. CASE SaveContextWrites(t)
  BY <1>7 DEF SaveContextWrites, WriteBack
<1>8. CASE MessageEnds(t)
  BY <1>8 DEF MessageEnds
<1> QED
  BY <1>1, <1>2, <1>3, <1>4, <1>5, <1>6, <1>7, <1>8 DEF HandleMessage

\* What a thread does when a message enters, and when one is posted.
LEMMA EntersDoes ==
  ASSUME TypeOK, NEW t \in Threads, NEW m, NEW S, Enters(t, m, S)
  PROVE  /\ phase'[t] = "next" /\ message'[t] = m /\ todo'[t] = S
         /\ UNCHANGED <<service, copy>>
         /\ \A u \in Threads \ {t} : /\ phase'[u] = phase[u] /\ message'[u] = message[u]
                                     /\ todo'[u] = todo[u]
BY DEF TypeOK, Enters

LEMMA PostDoes ==
  ASSUME TypeOK, NEW t \in Threads, NEW m \in Messages, NEW step, Post(t, m, step)
  PROVE  /\ at' = [at EXCEPT ![t] = step]
         /\ \/ Enters(t, m, Told(m)) /\ UNCHANGED mishaps
            \/ /\ UNCHANGED messageVars /\ mishaps \subseteq mishaps'
               /\ \/ "lost" \in mishaps'
                  \/ /\ \A s \in Told(m) : ~Allows(Command(m, s), stored[s])
                     /\ \A u \in Threads \ {t} : ~Handling(u)
<1>1. at' = [at EXCEPT ![t] = step]
  BY DEF Post
<1>2. CASE poolEnabled /\ Enters(t, m, Told(m)) /\ UNCHANGED mishaps
  BY <1>1, <1>2
<1>3. CASE \E u \in Threads \ {t} : Handling(u)
  <2>1. CASE UNCHANGED messageVars /\ mishaps' = mishaps \cup {"lost"}
    BY <1>1, <2>1
  <2> QED
    BY <1>2, <1>3, <2>1, Zenon DEF Post
<1>4. CASE \E s \in Told(m) : Allows(Command(m, s), stored[s])
  <2>1. CASE UNCHANGED messageVars /\ mishaps' = mishaps \cup {"lost"}
    BY <1>1, <2>1
  <2> QED
    BY <1>2, <1>4, <2>1, Zenon DEF Post
<1>5. CASE /\ ~\E s \in Told(m) : Allows(Command(m, s), stored[s])
           /\ ~\E u \in Threads \ {t} : Handling(u)
  <2>1. CASE UNCHANGED messageVars /\ mishaps' = mishaps \cup {}
    BY <1>1, <1>5, <2>1
  <2> QED
    BY <1>2, <1>5, <2>1, Zenon DEF Post
<1> QED
  BY <1>3, <1>4, <1>5

\* A step of the application moves one thread on, and at most a message enters on it.
LEMMA OperateFrame ==
  ASSUME TypeOK, HandInv, NEW t \in Threads, Operate(t)
  PROVE  /\ \A u \in Threads \ {t} : /\ at'[u] = at[u] /\ phase'[u] = phase[u]
                                     /\ message'[u] = message[u] /\ todo'[u] = todo[u]
         /\ \/ UNCHANGED <<phase, message, todo>>
            \/ phase[t] = "none" /\ \E m, S : Enters(t, m, S)
         /\ UNCHANGED <<stored, enabled, service>> /\ mishaps \subseteq mishaps'
<1>0. /\ UNCHANGED <<stored, enabled, service>> /\ mishaps \subseteq mishaps'
  BY OperateType DEF Asks
<1>1. \/ UNCHANGED at
      \/ \E step \in Places : at' = [at EXCEPT ![t] = step]
  <2>1. CASE \/ StartHTTPServer(t) \/ StopHTTPServer(t) \/ AutoStartHTTPServer(t) \/ Stop(t)
             \/ StopTellsHTTP(t) \/ ReloadCatalog(t) \/ AnnounceReload(t)
    BY <2>1 DEF StartHTTPServer, StopHTTPServer, AutoStartHTTPServer, StartProcessing, Stop,
                StopTellsHTTP, ReloadCatalog, AnnounceReload, Post, Places
  <2>2. CASE \/ ScriptCalls(t) \/ HTTPServerStops(t) \/ Start(t) \/ StartEnds(t)
             \/ StopStopsHTTP(t) \/ StopDisablesPool(t) \/ StopClears(t) \/ StopEnds(t)
    BY <2>2 DEF ScriptCalls, HTTPServerStops, Start, StartEnds, StopStopsHTTP,
                StopDisablesPool, StopClears, StopEnds, Places
  <2>3. CASE \/ DetachDatabase(t) \/ DisablePool(t) \/ DropAllJSContexts(t) \/ DropEnds(t)
             \/ OpenDatabase(t) \/ RestorePool(t) \/ ReloadEnds(t)
    BY <2>3 DEF DetachDatabase, DisablePool, DropAllJSContexts, DropEnds, OpenDatabase,
                RestorePool, ReloadEnds, Places
  <2> QED
    BY <2>1, <2>2, <2>3 DEF Operate
<1>2. \/ UNCHANGED messageVars
      \/ phase[t] = "none" /\ \E m, S : Enters(t, m, S)
  <2>1. CASE \/ ScriptCalls(t) \/ StartHTTPServer(t) \/ StopHTTPServer(t) \/ Start(t)
             \/ AutoStartHTTPServer(t) \/ Stop(t) \/ StopTellsHTTP(t) \/ ReloadCatalog(t)
             \/ AnnounceReload(t)
    BY <2>1 DEF ScriptCalls, StartHTTPServer, StopHTTPServer, Start, AutoStartHTTPServer,
                StartProcessing, Stop, StopTellsHTTP, ReloadCatalog, AnnounceReload, Post,
                Handling, HandInv
  <2>2. CASE \/ HTTPServerStops(t) \/ StartEnds(t) \/ StopStopsHTTP(t) \/ StopDisablesPool(t)
             \/ StopClears(t) \/ StopEnds(t) \/ DetachDatabase(t) \/ DisablePool(t)
             \/ DropAllJSContexts(t) \/ DropEnds(t) \/ OpenDatabase(t) \/ RestorePool(t)
             \/ ReloadEnds(t)
    BY <2>2 DEF HTTPServerStops, StartEnds, StopStopsHTTP, StopDisablesPool, StopClears,
                StopEnds, DetachDatabase, DisablePool, DropAllJSContexts, DropEnds,
                OpenDatabase, RestorePool, ReloadEnds
  <2> QED
    BY <2>1, <2>2 DEF Operate
<1>3. \A u \in Threads \ {t} : at'[u] = at[u]
  BY <1>1 DEF TypeOK
<1>4. \A u \in Threads \ {t} : /\ phase'[u] = phase[u] /\ message'[u] = message[u]
                               /\ todo'[u] = todo[u]
  BY <1>2, EntersDoes DEF messageVars
<1> QED
  BY <1>0, <1>2, <1>3, <1>4 DEF messageVars

-----------------------------------------------------------------------------
(* The order of messages.                                                   *)

LEMMA HandleOrder ==
  ASSUME TypeOK, HandInv, OrderInv, NEW t \in Threads, HandleMessage(t)
  PROVE  OrderInv'
<1>1. \A r \in Threads : at'[r] = at[r] /\ (Reloads(r)' <=> Reloads(r))
  BY HandleFrame DEF Reloads
<1>2. \A u \in Threads : \/ phase'[u] # "none" /\ message'[u] = message[u] /\ phase[u] # "none"
                         \/ phase'[u] = phase[u] /\ message'[u] = message[u] /\ todo'[u] = todo[u]
                         \/ phase'[u] = "none" /\ message'[u] = None /\ todo'[u] = {}
  BY HandleFrame
<1> QED
  BY <1>1, <1>2 DEF OrderInv, Handling

\* What is known of a thread that moves on, with a message or without.
LEMMA MoveOrder ==
  ASSUME TypeOK, OrderInv, NEW t \in Threads, NEW step \in Places,
         at' = [at EXCEPT ![t] = step], UNCHANGED messageVars,
         step = at[t] \/ ~Handling(t),
         Reloads(t)' => Reloads(t) \/ (t # Main /\ \A u \in Threads : ~Reloads(u)),
         Reloads(t)' \/ step = "idle" \/ t = Main
  PROVE  OrderInv'
<1>1. at'[t] = step /\ \A u \in Threads \ {t} : at'[u] = at[u]
  BY DEF TypeOK
<1>2. \A u \in Threads \ {t} : Reloads(u)' <=> Reloads(u)
  BY <1>1 DEF Reloads
<1> QED
  BY <1>1, <1>2 DEF OrderInv, Handling, messageVars

\* A message goes with the place of the thread it enters on.
Goes(m, step) ==
  /\ step = "detach" <=> m = "catalogWillReload"
  /\ step = "stopHTTP" => m = "applicationWillStop"
  /\ m = "httpServerWillStop" => step \in {"haltHTTP", "stopProcessing"}

LEMMA EnterOrder ==
  ASSUME TypeOK, OrderInv, NEW t \in Threads, NEW step \in Places, NEW m, NEW S,
         at' = [at EXCEPT ![t] = step], Enters(t, m, S), Goes(m, step),
         Reloads(t)' => Reloads(t) \/ (t # Main /\ \A u \in Threads : ~Reloads(u)),
         Reloads(t)' \/ step = "idle" \/ t = Main
  PROVE  OrderInv'
<1>1. at'[t] = step /\ \A u \in Threads \ {t} : at'[u] = at[u]
  BY DEF TypeOK
<1>2. \A u \in Threads \ {t} : Reloads(u)' <=> Reloads(u)
  BY <1>1 DEF Reloads
<1>3. /\ phase'[t] = "next" /\ message'[t] = m
      /\ \A u \in Threads \ {t} : /\ phase'[u] = phase[u] /\ message'[u] = message[u]
                                  /\ todo'[u] = todo[u]
  BY EntersDoes
<1> QED
  BY <1>1, <1>2, <1>3 DEF OrderInv, Handling, Goes

LEMMA PostOrder ==
  ASSUME TypeOK, OrderInv, NEW t \in Threads, NEW step \in Places, NEW m \in Messages,
         Post(t, m, step), ~Handling(t), Goes(m, step),
         Reloads(t)' => Reloads(t) \/ (t # Main /\ \A u \in Threads : ~Reloads(u)),
         Reloads(t)' \/ step = "idle" \/ t = Main
  PROVE  OrderInv'
<1>1. at' = [at EXCEPT ![t] = step]
  BY PostDoes
<1>2. UNCHANGED messageVars \/ Enters(t, m, Told(m))
  BY PostDoes
<1> QED
  BY <1>1, <1>2, MoveOrder, EnterOrder

LEMMA OperateOrder ==
  ASSUME TypeOK, HandInv, OrderInv, NEW t \in Threads, Operate(t)
  PROVE  OrderInv'
<1>0. /\ at[t] \in {"stopHTTP", "stopProcessing", "disablePool", "clear", "cleared",
                    "haltHTTP", "autoStart", "started"} => t = Main
      /\ \A step \in Places : at' = [at EXCEPT ![t] = step] => at'[t] = step
  BY DEF OrderInv, Reloads, TypeOK
<1>1. CASE ScriptCalls(t)
  <2>1. PICK m \in {"start", "stop"}, s \in Services : Enters(t, m, {s})
    BY <1>1 DEF ScriptCalls
  <2>2. at[t] = "idle" /\ at' = [at EXCEPT ![t] = "idle"] /\ "idle" \in Places
    BY <1>1 DEF ScriptCalls, TypeOK, Places
  <2>3. ~Reloads(t)'
    BY <1>0, <2>2 DEF Reloads
  <2> QED
    BY <2>1, <2>2, <2>3, EnterOrder DEF Goes
<1>2. CASE StartHTTPServer(t) \/ AutoStartHTTPServer(t)
  <2>1. PICK step \in {"idle", "started"} :
          /\ StartProcessing(t, step) /\ ~Handling(t)
          /\ step = "idle" \/ t = Main
    BY <1>0, <1>2 DEF StartHTTPServer, AutoStartHTTPServer
  <2>2. step \in Places /\ "httpServerDidStart" \in Messages
    BY DEF Places, Messages
  <2>3. at' = [at EXCEPT ![t] = step]
    BY <2>1 DEF StartProcessing, Post
  <2>4. ~Reloads(t)'
    BY <1>0, <2>2, <2>3 DEF Reloads
  <2>5. Post(t, "httpServerDidStart", step) \/ UNCHANGED messageVars
    BY <2>1 DEF StartProcessing
  <2> QED
    BY <2>1, <2>2, <2>3, <2>4, <2>5, PostOrder, MoveOrder DEF Goes
<1>3. CASE StopHTTPServer(t) \/ Stop(t)
  <2>1. PICK step \in {"haltHTTP", "stopHTTP"}, m \in {"httpServerWillStop", "applicationWillStop"} :
          Post(t, m, step) /\ ~Handling(t) /\ t = Main /\ Goes(m, step)
    BY <1>3 DEF StopHTTPServer, Stop, Goes
  <2>2. step \in Places /\ m \in Messages /\ at' = [at EXCEPT ![t] = step]
    BY <2>1 DEF Places, Messages, Post
  <2>3. ~Reloads(t)'
    BY <1>0, <2>2 DEF Reloads
  <2> QED
    BY <2>1, <2>2, <2>3, PostOrder
<1>4. CASE Start(t)
  <2>1. /\ Enters(t, "applicationWillStart", Told("applicationWillStart"))
        /\ at' = [at EXCEPT ![t] = "autoStart"] /\ "autoStart" \in Places /\ t = Main
    BY <1>4 DEF Start, Places
  <2>2. ~Reloads(t)'
    BY <1>0, <2>1 DEF Reloads
  <2> QED
    BY <2>1, <2>2, EnterOrder DEF Goes
<1>5. CASE StopTellsHTTP(t)
  <2>1. ~Handling(t) /\ t = Main
    BY <1>0, <1>5 DEF StopTellsHTTP
  <2>2. CASE Post(t, "httpServerWillStop", "stopProcessing")
    <3>1. /\ "stopProcessing" \in Places /\ "httpServerWillStop" \in Messages
          /\ at' = [at EXCEPT ![t] = "stopProcessing"]
      BY <2>2 DEF Places, Messages, Post
    <3>2. ~Reloads(t)'
      BY <1>0, <3>1 DEF Reloads
    <3> QED
      BY <2>1, <2>2, <3>1, <3>2, PostOrder DEF Goes
  <2>3. CASE at' = [at EXCEPT ![t] = "disablePool"] /\ UNCHANGED messageVars
    <3>1. "disablePool" \in Places
      BY DEF Places
    <3>2. ~Reloads(t)'
      BY <1>0, <2>3, <3>1 DEF Reloads
    <3> QED
      BY <2>1, <2>3, <3>1, <3>2, MoveOrder
  <2> QED
    BY <1>5, <2>2, <2>3 DEF StopTellsHTTP
<1>6. CASE \/ HTTPServerStops(t) \/ StartEnds(t) \/ StopStopsHTTP(t) \/ StopDisablesPool(t)
           \/ StopClears(t) \/ StopEnds(t) \/ ReloadEnds(t)
  <2>1. PICK step \in {"idle", "disablePool", "clear", "cleared"} :
          /\ at' = [at EXCEPT ![t] = step] /\ UNCHANGED messageVars
          /\ step = "idle" \/ t = Main
    BY <1>0, <1>6 DEF HTTPServerStops, StartEnds, StopStopsHTTP, StopDisablesPool, StopClears,
                      StopEnds, ReloadEnds
  <2>2. ~Handling(t)
    BY <1>6 DEF HTTPServerStops, StartEnds, StopStopsHTTP, StopDisablesPool, StopClears,
                StopEnds, ReloadEnds, HandInv, Handling
  <2>3. step \in Places
    BY DEF Places
  <2>4. ~Reloads(t)'
    BY <1>0, <2>1, <2>3 DEF Reloads
  <2> QED
    BY <2>1, <2>2, <2>3, <2>4, MoveOrder
<1>7. CASE ReloadCatalog(t)
  <2>1. /\ Post(t, "catalogWillReload", "detach") /\ ~Handling(t) /\ t # Main
        /\ \A u \in Threads : ~Reloads(u)
    BY <1>7 DEF ReloadCatalog
  <2>2. /\ "detach" \in Places /\ "catalogWillReload" \in Messages
        /\ at' = [at EXCEPT ![t] = "detach"]
    BY <2>1 DEF Places, Messages, Post
  <2>3. Reloads(t)'
    BY <1>0, <2>2 DEF Reloads
  <2> QED
    BY <2>1, <2>2, <2>3, PostOrder DEF Goes
<1>8. CASE \/ DetachDatabase(t) \/ DisablePool(t) \/ DropAllJSContexts(t) \/ DropEnds(t)
           \/ OpenDatabase(t) \/ RestorePool(t)
  <2>1. PICK step \in {"disable", "reopen", "drop", "attach", "dropped", "close", "restore",
                     "announce"} : at' = [at EXCEPT ![t] = step]
    BY <1>8 DEF DetachDatabase, DisablePool, DropAllJSContexts, DropEnds, OpenDatabase,
                RestorePool
  <2>2. UNCHANGED messageVars /\ Reloads(t)
    BY <1>8 DEF DetachDatabase, DisablePool, DropAllJSContexts, DropEnds, OpenDatabase,
                RestorePool, Reloads
  <2>3. ~Handling(t)
    BY <1>8 DEF DetachDatabase, DisablePool, DropAllJSContexts, DropEnds, OpenDatabase,
                RestorePool, HandInv, Handling
  <2>4. step \in Places
    BY DEF Places
  <2>5. Reloads(t)'
    BY <1>0, <2>1, <2>4 DEF Reloads
  <2> QED
    BY <2>1, <2>2, <2>3, <2>4, <2>5, MoveOrder
<1>9. CASE AnnounceReload(t)
  <2>1. Post(t, "catalogDidReload", "unlock") /\ ~Handling(t) /\ Reloads(t)
    BY <1>9 DEF AnnounceReload, HandInv, Handling, Reloads
  <2>2. /\ "unlock" \in Places /\ "catalogDidReload" \in Messages
        /\ at' = [at EXCEPT ![t] = "unlock"]
    BY <2>1 DEF Places, Messages, Post
  <2>3. Reloads(t)'
    BY <1>0, <2>2 DEF Reloads
  <2> QED
    BY <2>1, <2>2, <2>3, PostOrder DEF Goes
<1> QED
  BY <1>1, <1>2, <1>3, <1>4, <1>5, <1>6, <1>7, <1>8, <1>9 DEF Operate

LEMMA NextOrder == TypeOK /\ HandInv /\ OrderInv /\ [Next]_vars => OrderInv'
<1>1. ASSUME TypeOK, HandInv, OrderInv, Next PROVE OrderInv'
  BY <1>1, HandleOrder, OperateOrder DEF Next
<1>2. ASSUME OrderInv, UNCHANGED vars PROVE OrderInv'
  BY <1>2 DEF OrderInv, Reloads, Handling, vars, messageVars
<1> QED
  BY <1>1, <1>2

\* Only the main task starts and stops the application and its HTTP server, one
\* thread at a time reloads the catalog, and each of them is in the message that its
\* place says: the reload's first message is handled before the database goes.
THEOREM MessagesAreOrdered == Spec => []OrderInv
<1>1. Init => OrderInv
  BY DEF Init, OrderInv, Reloads, Handling
<1> QED
  BY <1>1, TypeCorrect, NextOrder, PTL DEF Spec

\* What the proofs below build on.
LEMMA Background == Spec => [](TypeOK /\ HandInv /\ AgreeInv /\ OrderInv)
BY InitAgrees, TypeCorrect, NextAgrees, MessagesAreOrdered, PTL DEF Spec

-----------------------------------------------------------------------------
(* How a service is turned off.                                             *)

\* Only the handling of a message that resumes or starts a service enables it.
LEMMA HandleEnables ==
  ASSUME TypeOK, HandInv, NEW t \in Threads, HandleMessage(t), NEW s \in enabled', s \notin enabled
  PROVE  Enable(t) /\ service[t] = s
<1>1. CASE Enable(t)
  BY <1>1, EnableDoes
<1>2. CASE ~Enable(t)
  BY <1>2 DEF HandleMessage, LoadContext, InitializeContext, Disable, TestEnabled,
              SaveContextReads, SaveContextWrites, MessageEnds, stateVars
<1> QED
  BY <1>1, <1>2

\* What has gone wrong stays noted.
LEMMA StaysClean ==
  ASSUME Clean', mishaps \subseteq mishaps' PROVE Clean
BY DEF Clean

\* What AgreeInv says as long as nothing was written wrongly.
LEMMA AgreeFacts ==
  ASSUME AgreeInv, Clean
  PROVE  /\ \A t, u \in Threads : t # u /\ service[t] # None => service[t] # service[u]
         /\ \A t \in Threads : Knows(t)
         /\ \A s \in Services : (\A t \in Threads : ~InHand(t, s)) => Agrees(s)
BY DEF AgreeInv, Clean

\* The thread that is to pause or stop a service turns it off before it has done with
\* it: it skips a service only when its state, and so the native service, is not on.
LEMMA HandleTurnsOff ==
  ASSUME TypeOK, HandInv, AgreeInv, NEW t \in Threads, NEW s \in Services,
         HandleMessage(t), Clean',
         Command(message[t], s) \in {"pause", "stop"},
         s \in enabled => Pending(t, s)
  PROVE  s \in enabled' => Pending(t, s)'
<1>0. Clean
  BY HandleFrame, StaysClean
<1>1. CASE LoadContext(t)
  <2>1. PICK r \in todo[t] :
          /\ todo' = [todo EXCEPT ![t] = @ \ {r}]
          /\ \/ /\ stored[r] = "new"
                /\ phase' = [phase EXCEPT ![t] = "init"]
                /\ service' = [service EXCEPT ![t] = r]
             \/ /\ phase' = [phase EXCEPT ![t] = "enable"]
                /\ service' = [service EXCEPT ![t] = r]
             \/ /\ stored[r] # "new" /\ ~Allows(Command(message[t], r), stored[r])
                /\ UNCHANGED <<phase, service>>
          /\ (\E u \in Threads \ {t} : InHand(u, r)) => "collided" \in mishaps'
    BY <1>1 DEF LoadContext
  <2>2. phase[t] = "next" /\ enabled' = enabled /\ service[t] = None
    BY <1>1 DEF LoadContext, stateVars, HandInv
  <2>3. r \in Services /\ r # None /\ s # None
    BY <2>1, ServicesAssumption DEF TypeOK
  <2>4. CASE s # r
    BY <2>1, <2>2, <2>3, <2>4 DEF TypeOK, Pending
  <2>5. CASE s = r
    <3>1. Agrees(s)
      <4>1. \A u \in Threads : ~InHand(u, s)
        BY <2>1, <2>2, <2>3, <2>5 DEF InHand, Clean
      <4> QED
        BY <1>0, <4>1, AgreeFacts
    <3>2. CASE phase'[t] \in {"init", "enable"} /\ service'[t] = s
      BY <3>2 DEF Pending
    <3>3. CASE stored[r] # "new" /\ ~Allows(Command(message[t], r), stored[r])
      <4>1. stored[s] # "STARTED"
        BY <2>5, <3>3 DEF Allows
      <4> QED
        BY <2>2, <3>1, <4>1 DEF Agrees
    <3> QED
      BY <2>1, <2>5, <3>2, <3>3 DEF TypeOK
  <2> QED
    BY <2>4, <2>5
<1>2. CASE InitializeContext(t)
  <2>1. phase[t] = "init" /\ enabled' = enabled /\ todo' = todo
    BY <1>2 DEF InitializeContext
  <2>2. CASE service[t] = s
    <3>1. s \notin enabled
      BY <1>0, <2>1, <2>2, AgreeFacts DEF Knows, Agrees
    <3> QED
      BY <2>1, <3>1
  <2>3. CASE service[t] # s
    BY <2>1, <2>3 DEF Pending
  <2> QED
    BY <2>2, <2>3
<1>3. CASE Enable(t)
  <2>1. /\ phase[t] = "enable" /\ Enables(Doing(t)) /\ UNCHANGED <<todo, service>>
        /\ enabled' \subseteq enabled \cup {service[t]}
    BY <1>3, EnableDoes
  <2>2. service[t] # s
    BY <2>1 DEF Doing, Enables
  <2> QED
    BY <2>1, <2>2 DEF Pending
<1>4. CASE Disable(t)
  <2>1. enabled' = enabled \ {service[t]} /\ UNCHANGED <<todo, service>>
    BY <1>4 DEF Disable
  <2> QED
    BY <2>1 DEF Pending
<1>5. CASE TestEnabled(t) \/ SaveContextReads(t) \/ SaveContextWrites(t) \/ MessageEnds(t)
  <2>1. phase[t] \notin {"init", "enable"} /\ UNCHANGED <<enabled, todo>>
    BY <1>5 DEF TestEnabled, SaveContextReads, SaveContextWrites, MessageEnds, stateVars
  <2> QED
    BY <2>1 DEF Pending
<1> QED
  BY <1>1, <1>2, <1>3, <1>4, <1>5 DEF HandleMessage

\* A message that is to pause or stop a service finds it off, or enters with it, or is
\* noted as lost.
LEMMA PostTurnsOff ==
  ASSUME TypeOK, HandInv, AgreeInv, NEW t \in Threads, NEW s \in Services,
         NEW m \in Messages, NEW step, Post(t, m, step), ~Handling(t), enabled' = enabled,
         Command(m, s) \in {"pause", "stop"}, Clean', "lost" \notin mishaps'
  PROVE  s \in enabled' => Pending(t, s)'
<1>0. s \in Told(m)
  BY DEF Told
<1>1. CASE Enters(t, m, Told(m))
  BY <1>0, <1>1, EntersDoes DEF Pending
<1>2. CASE /\ mishaps \subseteq mishaps'
           /\ \A r \in Told(m) : ~Allows(Command(m, r), stored[r])
           /\ \A u \in Threads \ {t} : ~Handling(u)
  <2>1. \A u \in Threads : ~InHand(u, s)
    BY <1>2, ServicesAssumption DEF HandInv, Handling, InHand
  <2>2. Agrees(s)
    BY <1>2, <2>1, StaysClean, AgreeFacts
  <2>3. stored[s] # "STARTED"
    BY <1>0, <1>2 DEF Allows
  <2> QED
    BY <2>2, <2>3 DEF Agrees
<1> QED
  BY <1>1, <1>2, PostDoes

\* Nothing is pending for a thread that handles no message.
LEMMA NothingPending ==
  ASSUME HandInv, OrderInv, NEW t \in Threads, ~Handling(t), NEW s \in Services
  PROVE  ~Pending(t, s)
BY DEF HandInv, OrderInv, Handling, Pending

-----------------------------------------------------------------------------
(* The data service and its database.                                       *)

Quieted == mishaps \cap {"collided", "overwritten", "intruded", "lost"} = {}
Detached == {"disable", "drop", "dropped", "close", "reopen", "attach"}

LEMMA HandleDatabase ==
  ASSUME TypeOK, HandInv, AgreeInv, OrderInv, DatabaseInv, "dataStore" \in Services,
         NEW t \in Threads, HandleMessage(t)
  PROVE  DatabaseInv'
<1> SUFFICES ASSUME Quieted' PROVE DatabaseInv'
  BY DEF DatabaseInv, Quieted
<1>0. /\ UNCHANGED <<attached, at>> /\ mishaps \subseteq mishaps' /\ phase[t] # "none"
      /\ \A u \in Threads \ {t} : /\ phase'[u] = phase[u] /\ todo'[u] = todo[u]
                                  /\ service'[u] = service[u]
  BY HandleFrame
<1>1. /\ "dataStore" \in enabled => attached
      /\ \A r \in Threads :
           /\ at[r] \in Detached => ~attached
           /\ at[r] = "detach" /\ "dataStore" \in enabled => Pending(r, "dataStore")
  BY <1>0 DEF DatabaseInv, Quieted, Detached
<1>2. ASSUME "dataStore" \in enabled', "dataStore" \notin enabled
      PROVE  attached /\ \A r \in Threads : at[r] # "detach"
  <2>1. Enable(t) /\ service[t] = "dataStore"
    BY <1>2, HandleEnables
  <2>2. attached
    <3>1. PICK added \in Added("dataStore") : HandlersOf("dataStore") \subseteq added
      BY <1>2, <2>1, Zenon DEF Enable
    <3>2. added \in IF attached THEN {HandlersOf("dataStore"), {}} ELSE {{}}
      BY <3>1 DEF Added
    <3>3. HandlersOf("dataStore") # {}
      BY DEF HandlersOf
    <3> QED
      BY <3>1, <3>2, <3>3
  <2>3. ASSUME NEW r \in Threads, at[r] = "detach" PROVE FALSE
    <3>1. r \in Requests
      BY <2>3 DEF OrderInv, Reloads, Threads
    <3>2. r # t
      <4>1. CASE r = t
        <5>1. message[t] = "catalogWillReload"
          BY <1>0, <2>3, <4>1 DEF OrderInv, Handling
        <5>2. Enables(Command("catalogWillReload", "dataStore"))
          BY <2>1, <5>1 DEF Enable, Doing
        <5> QED
          BY <5>2 DEF Command, Enables
      <4> QED
        BY <4>1
    <3>3. Intrudes(t)
      BY <2>1, <2>3, <3>1, <3>2 DEF Intrudes
    <3>4. "intruded" \in mishaps'
      BY <2>1, <3>3 DEF Enable
    <3> QED
      BY <3>4 DEF Quieted
  <2> QED
    BY <2>2, <2>3
<1>3. ASSUME NEW r \in Threads, at[r] = "detach", "dataStore" \in enabled'
      PROVE  Pending(r, "dataStore")'
  <2>1. "dataStore" \in enabled
    BY <1>2, <1>3
  <2>2. CASE r = t
    <3>1. message[t] = "catalogWillReload"
      BY <1>0, <1>3, <2>2 DEF OrderInv, Handling
    <3>2. Command(message[t], "dataStore") = "pause"
      BY <3>1 DEF Command
    <3>3. Clean'
      BY DEF Clean, Quieted
    <3> QED
      BY <1>1, <1>3, <2>2, <3>2, <3>3, HandleTurnsOff
  <2>3. CASE r # t
    BY <1>0, <1>1, <1>3, <2>1, <2>3 DEF Pending
  <2> QED
    BY <2>2, <2>3
<1> QED
  BY <1>0, <1>1, <1>2, <1>3 DEF DatabaseInv, Detached

\* A step of the application that leaves the database and does not begin a reload.
LEMMA DatabaseFrame ==
  ASSUME TypeOK, HandInv, OrderInv, DatabaseInv, NEW t \in Threads, Operate(t),
         attached' = attached,
         at'[t] \in Detached => at[t] \in Detached,
         at'[t] = "detach" => at[t] = "detach"
  PROVE  DatabaseInv'
<1> SUFFICES ASSUME Quieted' PROVE DatabaseInv'
  BY DEF DatabaseInv, Quieted
<1>0. /\ \A u \in Threads \ {t} : /\ at'[u] = at[u] /\ phase'[u] = phase[u]
                                  /\ todo'[u] = todo[u]
      /\ \/ UNCHANGED <<phase, message, todo>>
         \/ phase[t] = "none"
      /\ UNCHANGED <<stored, enabled, service>> /\ mishaps \subseteq mishaps'
  BY OperateFrame
<1>1. /\ "dataStore" \in enabled => attached
      /\ \A r \in Threads :
           /\ at[r] \in Detached => ~attached
           /\ at[r] = "detach" /\ "dataStore" \in enabled => Pending(r, "dataStore")
  BY <1>0 DEF DatabaseInv, Quieted, Detached
<1>2. ASSUME NEW r \in Threads, at'[r] = "detach", "dataStore" \in enabled'
      PROVE  Pending(r, "dataStore")'
  <2>1. Pending(r, "dataStore")
    BY <1>0, <1>1, <1>2
  <2>2. CASE r = t /\ phase[t] = "none"
    BY <2>1, <2>2 DEF HandInv, OrderInv, Handling, Pending
  <2>3. CASE phase'[r] = phase[r] /\ todo'[r] = todo[r]
    BY <1>0, <2>1, <2>3 DEF Pending
  <2> QED
    BY <1>0, <2>2, <2>3
<1> QED
  BY <1>0, <1>1, <1>2 DEF DatabaseInv, Detached

LEMMA OperateDatabase ==
  ASSUME TypeOK, HandInv, AgreeInv, OrderInv, DatabaseInv, "dataStore" \in Services,
         NEW t \in Threads, Operate(t)
  PROVE  DatabaseInv'
<1>1. CASE ReloadCatalog(t)
  <2> SUFFICES ASSUME Quieted' PROVE DatabaseInv'
    BY DEF DatabaseInv, Quieted
  <2>1. /\ Post(t, "catalogWillReload", "detach") /\ ~Handling(t)
        /\ UNCHANGED <<attached, enabled>> /\ \A u \in Threads : ~Reloads(u)
    BY <1>1 DEF ReloadCatalog, stateVars
  <2>2. \A u \in Threads \ {t} : at'[u] = at[u]
    BY OperateFrame
  <2>3. "dataStore" \in enabled' => Pending(t, "dataStore")'
    <3>1. "catalogWillReload" \in Messages /\ Command("catalogWillReload", "dataStore") = "pause"
      BY DEF Messages, Command
    <3>2. Clean' /\ "lost" \notin mishaps'
      BY DEF Clean, Quieted
    <3> QED
      BY <2>1, <3>1, <3>2, PostTurnsOff
  <2>4. at'[t] = "detach"
    BY <2>1 DEF Post, TypeOK
  <2>5. "dataStore" \in enabled => attached
    BY OperateFrame DEF DatabaseInv, Quieted
  <2>6. \A u \in Threads \ {t} : at'[u] \notin Detached \cup {"detach"}
    BY <2>1, <2>2 DEF Reloads, Detached
  <2> QED
    BY <2>1, <2>3, <2>4, <2>5, <2>6 DEF DatabaseInv, Detached
<1>2. CASE DetachDatabase(t)
  <2> SUFFICES ASSUME Quieted' PROVE DatabaseInv'
    BY DEF DatabaseInv, Quieted
  <2>1. /\ at[t] = "detach" /\ ~Handling(t) /\ attached' = FALSE
        /\ at'[t] # "detach" /\ UNCHANGED <<enabled, mishaps>>
    BY <1>2 DEF DetachDatabase, TypeOK
  <2>2. "dataStore" \notin enabled
    BY <2>1, NothingPending DEF DatabaseInv, Quieted
  <2> QED
    BY <2>1, <2>2 DEF DatabaseInv
<1>3. CASE OpenDatabase(t)
  <2> SUFFICES ASSUME Quieted' PROVE DatabaseInv'
    BY DEF DatabaseInv, Quieted
  <2>1. /\ at[t] = "attach" /\ at'[t] = "restore" /\ UNCHANGED <<enabled, mishaps>>
        /\ \A u \in Threads \ {t} : at'[u] = at[u]
    BY <1>3 DEF OpenDatabase, TypeOK
  <2>2. "dataStore" \notin enabled
    BY <2>1 DEF DatabaseInv, Quieted
  <2>3. \A u \in Threads : at'[u] \notin Detached
    BY <2>1 DEF OrderInv, Reloads, Detached
  <2> QED
    BY <2>1, <2>2, <2>3 DEF DatabaseInv, Detached
<1>4. CASE \/ DisablePool(t) \/ DropAllJSContexts(t) \/ DropEnds(t) \/ RestorePool(t)
  <2>1. /\ attached' = attached /\ at'[t] # "detach"
        /\ at'[t] \in Detached => at[t] \in Detached
    BY <1>4 DEF DisablePool, DropAllJSContexts, DropEnds, RestorePool, Detached, TypeOK, stateVars
  <2> QED
    BY <2>1, DatabaseFrame
<1>5. CASE \/ StartHTTPServer(t) \/ StopHTTPServer(t) \/ AutoStartHTTPServer(t) \/ Stop(t)
           \/ StopTellsHTTP(t) \/ AnnounceReload(t)
  <2>1. /\ attached' = attached
        /\ \E step \in {"idle", "haltHTTP", "started", "stopHTTP", "stopProcessing",
                        "disablePool", "unlock"} : at' = [at EXCEPT ![t] = step]
    BY <1>5 DEF StartHTTPServer, StopHTTPServer, AutoStartHTTPServer, StartProcessing, Stop,
                StopTellsHTTP, AnnounceReload, Post, stateVars
  <2>2. at'[t] \notin Detached \cup {"detach"}
    BY <2>1 DEF Detached, TypeOK
  <2> QED
    BY <2>1, <2>2, DatabaseFrame
<1>6. CASE \/ ScriptCalls(t) \/ HTTPServerStops(t) \/ Start(t) \/ StartEnds(t)
           \/ StopStopsHTTP(t) \/ StopDisablesPool(t) \/ StopClears(t) \/ StopEnds(t)
           \/ ReloadEnds(t)
  <2>1. attached' = attached /\ at'[t] \notin Detached \cup {"detach"}
    BY <1>6 DEF ScriptCalls, HTTPServerStops, Start, StartEnds, StopStopsHTTP,
                StopDisablesPool, StopClears, StopEnds, ReloadEnds, Detached, TypeOK, stateVars
  <2> QED
    BY <2>1, DatabaseFrame
<1> QED
  BY <1>1, <1>2, <1>3, <1>4, <1>5, <1>6 DEF Operate

\* Without a data service there is nothing to detach.
LEMMA NoDataService ==
  ASSUME TypeOK, "dataStore" \notin Services PROVE NoHandlerWithoutDatabase
BY DEF TypeOK, NoHandlerWithoutDatabase

LEMMA NextDatabase ==
  /\ TypeOK /\ HandInv /\ AgreeInv /\ OrderInv /\ [Next]_vars
  /\ "dataStore" \in Services => DatabaseInv
  => ("dataStore" \in Services => DatabaseInv')
<1> SUFFICES ASSUME TypeOK, HandInv, AgreeInv, OrderInv, [Next]_vars, DatabaseInv,
                    "dataStore" \in Services
             PROVE  DatabaseInv'
  OBVIOUS
<1>1. CASE Next
  BY <1>1, HandleDatabase, OperateDatabase DEF Next
<1>2. CASE UNCHANGED vars
  BY <1>2 DEF DatabaseInv, Pending, vars, stateVars, messageVars
<1> QED
  BY <1>1, <1>2

\* The data service never has its request handler on a database that is detached, for
\* any request threads and services: a reload detaches it only after the service was
\* paused, unless the pause was lost in a disabled pool, another thread enabled the
\* service in between, or its state in the storage was wrong.
THEOREM DatabaseIsFreeOfHandlers == Spec => []NoHandlerWithoutDatabase
<1> DEFINE Inv == "dataStore" \in Services => DatabaseInv
<1>1. Init => Inv
  BY DEF Init, DatabaseInv
<1>2. TypeOK /\ HandInv /\ AgreeInv /\ OrderInv /\ Inv /\ [Next]_vars => Inv'
  BY NextDatabase
<1>3. TypeOK /\ Inv => NoHandlerWithoutDatabase
  BY NoDataService DEF DatabaseInv, NoHandlerWithoutDatabase
<1> HIDE DEF Inv
<1> QED
  BY <1>1, <1>2, <1>3, Background, PTL DEF Spec

-----------------------------------------------------------------------------
(* The services of a stopped application.                                   *)

Heard == mishaps \cap {"collided", "overwritten", "late", "lost"} = {}

LEMMA HandleStop ==
  ASSUME TypeOK, HandInv, AgreeInv, OrderInv, StopInv, NEW t \in Threads, HandleMessage(t)
  PROVE  StopInv'
<1> SUFFICES ASSUME Heard' PROVE StopInv'
  BY DEF StopInv, Heard
<1>0. /\ UNCHANGED <<running, at>> /\ mishaps \subseteq mishaps' /\ phase[t] # "none"
      /\ \A u \in Threads \ {t} : /\ phase'[u] = phase[u] /\ todo'[u] = todo[u]
                                  /\ service'[u] = service[u]
  BY HandleFrame
<1>1. /\ at[Main] = "stopHTTP" => \A s \in enabled : Pending(Main, s)
      /\ Stopped => enabled = {}
  BY <1>0 DEF StopInv, Heard
<1>2. ASSUME at[Main] = "stopHTTP" \/ Stopped, NEW s \in enabled'
      PROVE  s \in enabled
  <2>1. CASE s \notin enabled
    <3>1. Enable(t)
      BY <2>1, HandleEnables
    <3>2. Late
      BY <1>2 DEF Late, Stopped
    <3>3. "late" \in mishaps'
      BY <3>1, <3>2 DEF Enable
    <3> QED
      BY <3>3 DEF Heard
  <2> QED
    BY <2>1
<1>3. ASSUME at[Main] = "stopHTTP", NEW s \in enabled'
      PROVE  Pending(Main, s)'
  <2>1. s \in enabled /\ s \in Services /\ Main \in Threads
    BY <1>2, <1>3 DEF TypeOK, Threads
  <2>2. CASE t = Main
    <3>1. message[t] = "applicationWillStop"
      BY <1>0, <1>3, <2>1, <2>2 DEF OrderInv, Handling
    <3>2. Command(message[t], s) = "stop"
      BY <3>1 DEF Command
    <3>3. Clean'
      BY DEF Clean, Heard
    <3> QED
      BY <1>1, <1>3, <2>1, <2>2, <3>2, <3>3, HandleTurnsOff
  <2>3. CASE t # Main
    BY <1>0, <1>1, <1>3, <2>1, <2>3 DEF Pending
  <2> QED
    BY <2>2, <2>3
<1>4. Stopped' <=> Stopped
  BY <1>0 DEF Stopped
<1>5. Stopped' => enabled' = {}
  BY <1>1, <1>2, <1>4
<1> QED
  BY <1>0, <1>3, <1>5 DEF StopInv

\* A step of the application that does not stop it.
LEMMA StopFrame ==
  ASSUME TypeOK, HandInv, OrderInv, StopInv, NEW t \in Threads, Operate(t),
         Stopped' => Stopped,
         at'[Main] = "stopHTTP" => at[Main] = "stopHTTP"
  PROVE  StopInv'
<1> SUFFICES ASSUME Heard' PROVE StopInv'
  BY DEF StopInv, Heard
<1>0. /\ \A u \in Threads \ {t} : phase'[u] = phase[u] /\ todo'[u] = todo[u]
      /\ \/ UNCHANGED <<phase, message, todo>>
         \/ phase[t] = "none"
      /\ UNCHANGED <<stored, enabled, service>> /\ mishaps \subseteq mishaps'
  BY OperateFrame
<1>1. /\ at[Main] = "stopHTTP" => \A s \in enabled : Pending(Main, s)
      /\ Stopped => enabled = {}
  BY <1>0 DEF StopInv, Heard
<1>2. ASSUME at'[Main] = "stopHTTP", NEW s \in enabled'
      PROVE  Pending(Main, s)'
  <2>1. Pending(Main, s) /\ Main \in Threads
    BY <1>0, <1>1, <1>2 DEF Threads
  <2>2. CASE Main = t /\ phase[t] = "none"
    BY <2>1, <2>2 DEF HandInv, OrderInv, Handling, Pending
  <2>3. CASE phase'[Main] = phase[Main] /\ todo'[Main] = todo[Main]
    BY <1>0, <2>1, <2>3 DEF Pending
  <2> QED
    BY <1>0, <2>1, <2>2, <2>3
<1> QED
  BY <1>0, <1>1, <1>2 DEF StopInv

LEMMA OperateStop ==
  ASSUME TypeOK, HandInv, AgreeInv, OrderInv, StopInv, NEW t \in Threads, Operate(t)
  PROVE  StopInv'
<1>0. Main \in Threads
  BY DEF Threads
<1>1. CASE Stop(t)
  <2> SUFFICES ASSUME Heard' PROVE StopInv'
    BY DEF StopInv, Heard
  <2>1. /\ Post(t, "applicationWillStop", "stopHTTP") /\ ~Handling(t) /\ t = Main
        /\ enabled' = enabled
    BY <1>1 DEF Stop, stateVars
  <2>2. at'[Main] = "stopHTTP"
    BY <2>1 DEF Post, TypeOK
  <2>3. ASSUME NEW s \in enabled' PROVE Pending(Main, s)'
    <3>1. "applicationWillStop" \in Messages /\ Command("applicationWillStop", s) = "stop"
      BY DEF Messages, Command
    <3>2. Clean' /\ "lost" \notin mishaps' /\ s \in Services
      BY <2>1 DEF Clean, Heard, TypeOK
    <3> QED
      BY <2>1, <3>1, <3>2, PostTurnsOff
  <2> QED
    BY <2>2, <2>3 DEF StopInv, Stopped
<1>2. CASE StopTellsHTTP(t)
  <2> SUFFICES ASSUME Heard' PROVE StopInv'
    BY DEF StopInv, Heard
  <2>1. at[t] = "stopHTTP" /\ ~Handling(t) /\ t = Main
    BY <1>2 DEF StopTellsHTTP, OrderInv, Reloads
  <2>2. at'[t] # "stopHTTP"
    BY <1>2 DEF StopTellsHTTP, Post, TypeOK
  <2>3. enabled' = enabled /\ mishaps \subseteq mishaps'
    BY OperateFrame
  <2>4. \A s \in enabled : Pending(Main, s)
    BY <2>1, <2>3 DEF StopInv, Heard
  <2>5. enabled = {}
    BY <2>1, <2>4, NothingPending DEF TypeOK
  <2> QED
    BY <2>1, <2>2, <2>3, <2>5 DEF StopInv
<1>3. CASE StopStopsHTTP(t) \/ StopDisablesPool(t) \/ StopClears(t) \/ StopEnds(t)
  <2>1. t = Main /\ Stopped /\ at'[t] # "stopHTTP"
    BY <1>3 DEF StopStopsHTTP, StopDisablesPool, StopClears, StopEnds, OrderInv, Reloads,
                Stopped, TypeOK
  <2> QED
    BY <2>1, StopFrame
<1>4. CASE HTTPServerStops(t) \/ StopHTTPServer(t)
  <2>1. t = Main /\ UNCHANGED running /\ at[t] \in {"idle", "haltHTTP"}
        /\ at'[t] \in {"idle", "haltHTTP"}
    BY <1>4 DEF HTTPServerStops, StopHTTPServer, Post, OrderInv, Reloads, TypeOK, flagVars
  <2> QED
    BY <2>1, StopFrame DEF Stopped
<1>5. CASE Start(t) \/ AutoStartHTTPServer(t) \/ StartEnds(t)
  <2>1. t = Main
    BY <1>5 DEF Start, AutoStartHTTPServer, StartEnds, OrderInv, Reloads
  <2>2. \/ at'[t] \in {"autoStart", "started"}
        \/ at'[t] = "idle" /\ running' = TRUE
    BY <1>5 DEF Start, AutoStartHTTPServer, StartEnds, StartProcessing, Post, TypeOK
  <2> QED
    BY <2>1, <2>2, StopFrame DEF Stopped
<1>6. CASE \/ ScriptCalls(t) \/ StartHTTPServer(t) \/ ReloadCatalog(t) \/ DetachDatabase(t)
           \/ DisablePool(t) \/ DropAllJSContexts(t) \/ DropEnds(t) \/ OpenDatabase(t)
           \/ RestorePool(t) \/ AnnounceReload(t) \/ ReloadEnds(t)
  <2>1. UNCHANGED running
    BY <1>6 DEF ScriptCalls, StartHTTPServer, ReloadCatalog, DetachDatabase, DisablePool,
                DropAllJSContexts, DropEnds, OpenDatabase, RestorePool, AnnounceReload,
                ReloadEnds, flagVars
  <2>2. t # Main
    BY <1>6 DEF ScriptCalls, StartHTTPServer, ReloadCatalog, DetachDatabase, DisablePool,
                DropAllJSContexts, DropEnds, OpenDatabase, RestorePool, AnnounceReload,
                ReloadEnds, OrderInv, Reloads
  <2>3. at'[Main] = at[Main]
    BY <1>0, <2>2, OperateFrame
  <2> QED
    BY <2>1, <2>3, StopFrame DEF Stopped
<1> QED
  BY <1>1, <1>2, <1>3, <1>4, <1>5, <1>6 DEF Operate

LEMMA NextStop ==
  TypeOK /\ HandInv /\ AgreeInv /\ OrderInv /\ StopInv /\ [Next]_vars => StopInv'
<1>1. ASSUME TypeOK, HandInv, AgreeInv, OrderInv, StopInv, Next PROVE StopInv'
  BY <1>1, HandleStop, OperateStop DEF Next
<1>2. ASSUME StopInv, UNCHANGED vars PROVE StopInv'
  BY <1>2 DEF StopInv, Stopped, Pending, vars, stateVars, flagVars, messageVars
<1> QED
  BY <1>1, <1>2

\* A stopped application leaves no service enabled, for any request threads and
\* services, whatever start, reload or restart of the HTTP server it was stopped in,
\* unless a script started one after the stop, the message was lost in a disabled pool,
\* or a state in the storage was wrong.
THEOREM StoppedServicesAreOff == Spec => []ServicesStop
<1>1. Init => StopInv
  BY DEF Init, StopInv
<1>2. StopInv => ServicesStop
  BY DEF StopInv, Stopped, ServicesStop, Quiet, Threads
<1> QED
  BY <1>1, <1>2, Background, NextStop, PTL DEF Spec

-----------------------------------------------------------------------------
(* The services that are paused.                                            *)

Owing == mishaps \cap {"collided", "overwritten", "lost", "refused"} = {}

\* A resume that is under way stays so until the service is not paused any more.
LEMMA ResumeGoesOn ==
  ASSUME TypeOK, HandInv, NEW t \in Threads, NEW s \in Services, HandleMessage(t), Clean',
         phase[t] = "test" /\ Enables(Doing(t)) => service[t] \in enabled,
         Resumes(t, s), stored'[s] = "PAUSED"
  PROVE  Resumes(t, s)'
<1>0. /\ Command(message[t], s) = "resume" /\ s # None
      /\ s \in todo[t] \/ service[t] = s
  BY ServicesAssumption DEF Resumes
<1>1. CASE message'[t] = message[t] /\ (s \in todo'[t] \/ service'[t] = s)
  BY <1>0, <1>1 DEF Resumes, Command
<1>2. CASE LoadContext(t)
  <2>1. PICK r \in todo[t] :
          /\ todo' = [todo EXCEPT ![t] = @ \ {r}]
          /\ \/ service' = [service EXCEPT ![t] = r]
             \/ ~Allows(Command(message[t], r), stored[r])
    BY <1>2 DEF LoadContext
  <2>2. phase[t] = "next" /\ service[t] = None /\ UNCHANGED <<stored, message>>
    BY <1>2 DEF LoadContext, HandInv, stateVars
  <2>3. CASE r = s
    <3>1. Command(message[t], s) = "resume"
      BY <1>0, <2>2 DEF Resumes
    <3>2. Allows(Command(message[t], s), stored[s])
      BY <2>2, <3>1 DEF Allows
    <3>3. service'[t] = s
      BY <2>1, <2>3, <3>2 DEF TypeOK
    <3> QED
      BY <1>1, <2>2, <3>3
  <2>4. CASE r # s
    <3>1. s \in todo'[t]
      BY <1>0, <2>1, <2>2, <2>4 DEF TypeOK
    <3> QED
      BY <1>1, <2>2, <3>1
  <2> QED
    BY <2>3, <2>4
<1>3. CASE InitializeContext(t) \/ SaveContextWrites(t)
  <2>1. PICK state \in States :
          /\ WriteBack(t, state)
          /\ state = "STOPPED" \/ state = Reached(Doing(t))
    BY <1>3 DEF InitializeContext, SaveContextWrites, States, Reached
  <2>2. UNCHANGED <<message, todo>> /\ service[t] \in Services
    BY <1>3, InHandType DEF InitializeContext, SaveContextWrites
  <2>3. CASE service[t] = s
    <3>1. stored'[s] = state
      BY <2>1, <2>2, <2>3, WriteBackDoes
    <3>2. Doing(t) = "resume"
      BY <2>3 DEF Resumes, Doing
    <3>3. state # "PAUSED"
      BY <2>1, <3>2 DEF Reached
    <3> QED
      BY <3>1, <3>3
  <2>4. CASE service[t] # s
    BY <1>0, <1>1, <2>2, <2>4
  <2> QED
    BY <2>3, <2>4
<1>4. CASE Enable(t)
  BY <1>0, <1>1, <1>4, EnableDoes
<1>5. CASE Disable(t) \/ SaveContextReads(t)
  BY <1>0, <1>1, <1>5 DEF Disable, SaveContextReads
<1>6. CASE TestEnabled(t)
  <2>1. phase[t] = "test" /\ UNCHANGED <<message, todo>>
    BY <1>6 DEF TestEnabled
  <2>2. CASE service[t] = s
    <3>1. Doing(t) = "resume"
      BY <2>2 DEF Resumes, Doing
    <3>2. Enables(Doing(t)) /\ service[t] \in enabled
      BY <2>1, <3>1 DEF Enables
    <3>3. UNCHANGED service
      BY <1>6, <3>2 DEF TestEnabled
    <3> QED
      BY <1>1, <2>1, <2>2, <3>3
  <2>3. CASE service[t] # s
    BY <1>0, <1>1, <2>1, <2>3
  <2> QED
    BY <2>2, <2>3
<1>7. CASE MessageEnds(t)
  <2>1. phase[t] = "next" /\ todo[t] = {}
    BY <1>7 DEF MessageEnds
  <2> QED
    BY <1>0, <2>1 DEF HandInv
<1> QED
  BY <1>2, <1>3, <1>4, <1>5, <1>6, <1>7 DEF HandleMessage

\* A service is paused by a message of the main task, which is about to stop the HTTP
\* server, or by that of a reload.
LEMMA PausesAreOwed ==
  ASSUME TypeOK, HandInv, OrderInv, NEW t \in Threads, NEW s \in Services,
         HandleMessage(t), Clean', stored[s] # "PAUSED", stored'[s] = "PAUSED"
  PROVE  \/ at[Main] \in {"haltHTTP", "stopProcessing"}
         \/ s = "dataStore" /\ Reloads(t) /\ at[t] # "unlock"
<1>1. CASE stored' = stored
  BY <1>1
<1>2. CASE InitializeContext(t)
  <2>1. WriteBack(t, "STOPPED") /\ service[t] \in Services /\ "STOPPED" \in States
    BY <1>2, InHandType DEF InitializeContext, States
  <2> QED
    BY <2>1, WriteBackDoes
<1>3. CASE SaveContextWrites(t)
  <2>1. /\ WriteBack(t, Reached(Doing(t))) /\ service[t] \in Services
        /\ Reached(Doing(t)) \in States
    BY <1>3, InHandType DEF SaveContextWrites, States, Reached
  <2>2. service[t] = s /\ Reached(Doing(t)) = "PAUSED"
    BY <2>1, WriteBackDoes
  <2>3. Command(message[t], s) = "pause"
    BY <2>2 DEF Doing, Reached
  <2>4. \/ message[t] = "httpServerWillStop"
        \/ message[t] = "catalogWillReload" /\ s = "dataStore"
    BY <2>3 DEF Command
  <2>5. Handling(t)
    BY HandleFrame DEF Handling
  <2>6. CASE message[t] = "httpServerWillStop"
    BY <2>5, <2>6 DEF OrderInv, Reloads
  <2>7. CASE message[t] = "catalogWillReload" /\ s = "dataStore"
    BY <2>5, <2>7 DEF OrderInv, Reloads
  <2> QED
    BY <2>4, <2>6, <2>7
<1>4. CASE Enable(t)
  BY <1>1, <1>4, EnableDoes
<1>5. CASE LoadContext(t) \/ Disable(t) \/ TestEnabled(t) \/ SaveContextReads(t) \/ MessageEnds(t)
  BY <1>1, <1>5 DEF LoadContext, Disable, TestEnabled, SaveContextReads, MessageEnds, stateVars
<1> QED
  BY <1>2, <1>3, <1>4, <1>5 DEF HandleMessage

\* A service that was enabled without a refusal is so when its handler tests it.
LEMMA EnabledIsSeen ==
  ASSUME TypeOK, HandInv, AgreeInv, NEW t \in Threads, HandleMessage(t), Owing',
         \A u \in Threads : phase[u] = "test" /\ Enables(Doing(u)) => service[u] \in enabled,
         NEW u \in Threads, phase'[u] = "test", Enables(Doing(u))'
  PROVE  service'[u] \in enabled'
<1>1. CASE u # t
  <2>1. /\ phase'[u] = phase[u] /\ message'[u] = message[u] /\ service'[u] = service[u]
    BY <1>1, HandleFrame
  <2>2. service[u] \in enabled
    BY <2>1 DEF Doing, Command, Enables
  <2>3. CASE service[u] \notin enabled'
    <3>1. Disable(t) /\ service[t] = service[u] /\ service[t] # None
      <4>1. CASE Disable(t)
        BY <2>2, <2>3, <4>1, ServicesAssumption DEF Disable, TypeOK
      <4>2. CASE Enable(t)
        BY <2>2, <2>3, <4>2, EnableDoes
      <4>3. CASE ~Enable(t) /\ ~Disable(t)
        BY <2>2, <2>3, <4>3 DEF HandleMessage, LoadContext, InitializeContext, TestEnabled,
                                SaveContextReads, SaveContextWrites, MessageEnds, stateVars
      <4> QED
        BY <4>1, <4>2, <4>3
    <3>2. Clean
      <4>1. Clean'
        BY DEF Clean, Owing
      <4> QED
        BY <4>1, HandleFrame, StaysClean
    <3> QED
      BY <1>1, <3>1, <3>2, AgreeFacts
  <2> QED
    BY <2>1, <2>3
<1>2. CASE u = t
  <2>1. CASE Enable(t)
    <3>1. UNCHANGED service
      BY <2>1, EnableDoes
    <3>2. service[t] \in enabled' \/ "refused" \in mishaps'
      BY <2>1 DEF Enable
    <3> QED
      BY <1>2, <3>1, <3>2 DEF Owing
  <2>2. CASE Disable(t)
    BY <1>2, <2>2 DEF Disable, Doing, Command, Enables
  <2>3. CASE ~Enable(t) /\ ~Disable(t)
    <3>1. phase'[t] # "test"
      <4>1. CASE LoadContext(t)
        BY <4>1 DEF LoadContext, TypeOK
      <4>2. CASE InitializeContext(t)
        BY <4>2 DEF InitializeContext, TypeOK
      <4>3. CASE TestEnabled(t)
        BY <4>3 DEF TestEnabled, TypeOK
      <4>4. CASE SaveContextReads(t) \/ SaveContextWrites(t) \/ MessageEnds(t)
        BY <4>4 DEF SaveContextReads, SaveContextWrites, MessageEnds, TypeOK
      <4> QED
        BY <2>3, <4>1, <4>2, <4>3, <4>4 DEF HandleMessage
    <3> QED
      BY <1>2, <3>1
  <2> QED
    BY <2>1, <2>2, <2>3
<1> QED
  BY <1>1, <1>2

LEMMA HandleOwed ==
  ASSUME TypeOK, HandInv, AgreeInv, OrderInv, OwedInv, NEW t \in Threads, HandleMessage(t)
  PROVE  OwedInv'
<1> SUFFICES ASSUME Owing' PROVE OwedInv'
  BY DEF OwedInv, Owing
<1>0. /\ UNCHANGED <<processing, at>> /\ mishaps \subseteq mishaps'
      /\ \A u \in Threads \ {t} : /\ message'[u] = message[u] /\ todo'[u] = todo[u]
                                  /\ service'[u] = service[u]
  BY HandleFrame
<1>1. /\ \A u \in Threads : phase[u] = "test" /\ Enables(Doing(u)) => service[u] \in enabled
      /\ \A s \in Services : stored[s] = "PAUSED" => Owed(s)
  BY <1>0 DEF OwedInv, Owing
<1>2. Clean'
  BY DEF Clean, Owing
<1>3. \A u \in Threads : Reloads(u)' <=> Reloads(u)
  BY <1>0 DEF Reloads
<1>4. ASSUME NEW s \in Services, stored'[s] = "PAUSED" PROVE Owed(s)'
  <2>1. CASE stored[s] # "PAUSED"
    BY <1>0, <1>2, <1>3, <1>4, <2>1, PausesAreOwed DEF Owed
  <2>2. CASE stored[s] = "PAUSED" /\ \E u \in Threads : Resumes(u, s)
    <3>1. PICK u \in Threads : Resumes(u, s)
      BY <2>2
    <3>2. CASE u = t
      BY <1>1, <1>2, <1>4, <3>1, <3>2, ResumeGoesOn DEF Owed
    <3>3. CASE u # t
      <4>1. Resumes(u, s)'
        BY <1>0, <3>1, <3>3 DEF Resumes, Command
      <4> QED
        BY <4>1 DEF Owed
    <3> QED
      BY <3>2, <3>3
  <2>3. CASE stored[s] = "PAUSED" /\ ~\E u \in Threads : Resumes(u, s)
    BY <1>0, <1>1, <1>3, <2>3 DEF Owed
  <2> QED
    BY <2>1, <2>2, <2>3
<1> QED
  BY <1>1, <1>4, EnabledIsSeen DEF OwedInv

\* A step of the application keeps what is owed to every service but those that a
\* resume enters for, or whose resume is noted as lost.
LEMMA OwedFrame ==
  ASSUME TypeOK, HandInv, OrderInv, OwedInv, NEW t \in Threads, Operate(t), Owing',
         NEW s \in Services, stored[s] = "PAUSED",
         processing' => processing,
         t = Main /\ at[t] \in {"haltHTTP", "stopProcessing"} =>
            ~processing' \/ at'[t] \in {"haltHTTP", "stopProcessing"},
         s = "dataStore" /\ Reloads(t) /\ at[t] # "unlock" => Reloads(t)' /\ at'[t] # "unlock"
  PROVE  Owed(s)'
<1>0. /\ \A u \in Threads \ {t} : at'[u] = at[u] /\ message'[u] = message[u] /\ todo'[u] = todo[u]
      /\ UNCHANGED <<phase, message, todo>> \/ phase[t] = "none"
      /\ UNCHANGED service /\ mishaps \subseteq mishaps'
  BY OperateFrame
<1>1. Owed(s) /\ Main \in Threads
  BY <1>0 DEF OwedInv, Owing, Threads
<1>2. CASE ~processing
  BY <1>2 DEF Owed
<1>3. CASE at[Main] \in {"haltHTTP", "stopProcessing"}
  BY <1>0, <1>1, <1>3 DEF Owed
<1>4. CASE s = "dataStore" /\ \E r \in Threads : Reloads(r) /\ at[r] # "unlock"
  <2>1. PICK r \in Threads : Reloads(r) /\ at[r] # "unlock"
    BY <1>4
  <2>2. Reloads(r)' /\ at'[r] # "unlock"
    BY <1>0, <1>4, <2>1 DEF Reloads
  <2> QED
    BY <1>4, <2>2 DEF Owed
<1>5. CASE \E u \in Threads : Resumes(u, s)
  <2>1. PICK u \in Threads : Resumes(u, s)
    BY <1>5
  <2>2. CASE u = t /\ phase[t] = "none"
    BY <2>1, <2>2, ServicesAssumption DEF Resumes, HandInv, OrderInv, Handling
  <2>3. CASE message'[u] = message[u] /\ todo'[u] = todo[u]
    <3>1. Resumes(u, s)'
      BY <1>0, <2>1, <2>3 DEF Resumes, Command
    <3> QED
      BY <3>1 DEF Owed
  <2> QED
    BY <1>0, <2>2, <2>3
<1> QED
  BY <1>1, <1>2, <1>3, <1>4, <1>5 DEF Owed

LEMMA PostResumes ==
  ASSUME TypeOK, NEW t \in Threads, NEW m \in Messages, NEW step, Post(t, m, step),
         "lost" \notin mishaps', NEW s \in Services, stored[s] = "PAUSED",
         Command(m, s) = "resume"
  PROVE  Owed(s)'
<1>1. s \in Told(m) /\ Allows(Command(m, s), stored[s])
  BY DEF Told, Allows
<1>2. Enters(t, m, Told(m))
  BY <1>1, PostDoes
<1>3. message'[t] = m /\ s \in todo'[t]
  BY <1>1, <1>2, EntersDoes
<1>4. Resumes(t, s)'
  BY <1>3 DEF Resumes, Command
<1> QED
  BY <1>4 DEF Owed

LEMMA OperateOwed ==
  ASSUME TypeOK, HandInv, OrderInv, OwedInv, NEW t \in Threads, Operate(t)
  PROVE  OwedInv'
<1> SUFFICES ASSUME Owing' PROVE OwedInv'
  BY DEF OwedInv, Owing
<1>0. /\ \A u \in Threads \ {t} : phase'[u] = phase[u] /\ message'[u] = message[u]
      /\ \/ UNCHANGED <<phase, message, todo>>
         \/ \E m, S : Enters(t, m, S)
      /\ UNCHANGED <<stored, enabled, service>> /\ mishaps \subseteq mishaps'
  BY OperateFrame
<1>1. \A u \in Threads : phase[u] = "test" /\ Enables(Doing(u)) => service[u] \in enabled
  BY <1>0 DEF OwedInv, Owing
<1>2. ASSUME NEW u \in Threads, phase'[u] = "test", Enables(Doing(u))'
      PROVE  service'[u] \in enabled'
  <2>1. phase'[u] = phase[u] /\ message'[u] = message[u]
    BY <1>0, <1>2, EntersDoes
  <2>2. Enables(Doing(u))
    BY <1>0, <1>2, <2>1 DEF Doing, Command, Enables
  <2> QED
    BY <1>0, <1>1, <1>2, <2>1, <2>2
<1>3. ASSUME NEW s \in Services, stored'[s] = "PAUSED" PROVE Owed(s)'
  <2>0. stored[s] = "PAUSED" /\ "lost" \notin mishaps'
    BY <1>0, <1>3 DEF Owing
  <2>1. CASE StartHTTPServer(t) \/ AutoStartHTTPServer(t)
    <3>1. PICK step \in {"idle", "started"} :
            StartProcessing(t, step) /\ at[t] \in {"idle", "autoStart"}
      BY <2>1 DEF StartHTTPServer, AutoStartHTTPServer
    <3>2. CASE Post(t, "httpServerDidStart", step)
      <4>1. "httpServerDidStart" \in Messages /\ Command("httpServerDidStart", s) = "resume"
        BY DEF Messages, Command
      <4> QED
        BY <2>0, <3>2, <4>1, PostResumes
    <3>3. CASE processing' = processing
      BY <2>0, <3>1, <3>3, OwedFrame DEF Reloads
    <3> QED
      BY <3>1, <3>2, <3>3 DEF StartProcessing
  <2>2. CASE AnnounceReload(t)
    <3>1. /\ Post(t, "catalogDidReload", "unlock") /\ at[t] = "announce"
          /\ processing' = processing
      BY <2>2 DEF AnnounceReload, flagVars
    <3>2. CASE s = "dataStore"
      <4>1. "catalogDidReload" \in Messages /\ Command("catalogDidReload", s) = "resume"
        BY <3>2 DEF Messages, Command
      <4> QED
        BY <2>0, <3>1, <4>1, PostResumes
    <3>3. CASE s # "dataStore"
      BY <2>0, <3>1, <3>3, OwedFrame
    <3> QED
      BY <3>2, <3>3
  <2>3. CASE HTTPServerStops(t) \/ StopStopsHTTP(t)
    BY <2>3 DEF HTTPServerStops, StopStopsHTTP, Owed
  <2>4. CASE \/ StopHTTPServer(t) \/ Stop(t) \/ StopTellsHTTP(t) \/ ReloadCatalog(t)
             \/ ScriptCalls(t) \/ Start(t) \/ StartEnds(t) \/ StopDisablesPool(t)
             \/ StopClears(t) \/ StopEnds(t) \/ ReloadEnds(t)
    <3>1. processing' = processing
      BY <2>4 DEF StopHTTPServer, Stop, StopTellsHTTP, ReloadCatalog, ScriptCalls, Start,
                  StartEnds, StopDisablesPool, StopClears, StopEnds, ReloadEnds, flagVars
    <3>2. /\ at[t] \notin {"haltHTTP", "stopProcessing"}
          /\ Reloads(t) => at[t] = "unlock"
      BY <2>4 DEF StopHTTPServer, Stop, StopTellsHTTP, ReloadCatalog, ScriptCalls, Start,
                  StartEnds, StopDisablesPool, StopClears, StopEnds, ReloadEnds, Reloads
    <3> QED
      BY <2>0, <3>1, <3>2, OwedFrame
  <2>5. CASE \/ DetachDatabase(t) \/ DisablePool(t) \/ DropAllJSContexts(t) \/ DropEnds(t)
             \/ OpenDatabase(t) \/ RestorePool(t)
    <3>1. processing' = processing
      BY <2>5 DEF DetachDatabase, DisablePool, DropAllJSContexts, DropEnds, OpenDatabase,
                  RestorePool, flagVars
    <3>2. /\ at[t] \notin {"haltHTTP", "stopProcessing"}
          /\ Reloads(t)' /\ at'[t] # "unlock"
      BY <2>5 DEF DetachDatabase, DisablePool, DropAllJSContexts, DropEnds, OpenDatabase,
                  RestorePool, Reloads, TypeOK
    <3> QED
      BY <2>0, <3>1, <3>2, OwedFrame
  <2> QED
    BY <2>1, <2>2, <2>3, <2>4, <2>5 DEF Operate
<1> QED
  BY <1>2, <1>3 DEF OwedInv

LEMMA NextOwed ==
  TypeOK /\ HandInv /\ AgreeInv /\ OrderInv /\ OwedInv /\ [Next]_vars => OwedInv'
<1>1. ASSUME TypeOK, HandInv, AgreeInv, OrderInv, OwedInv, Next PROVE OwedInv'
  BY <1>1, HandleOwed, OperateOwed DEF Next
<1>2. ASSUME TypeOK, OwedInv, UNCHANGED vars PROVE OwedInv'
  <2>1. /\ UNCHANGED <<stored, enabled, processing, at, phase, message, todo, service, mishaps>>
    BY <1>2 DEF vars, stateVars, flagVars, messageVars
  <2> QED
    BY <1>2, <2>1 DEF OwedInv, Owed, Resumes, Reloads, Doing, Enables, Command
<1> QED
  BY <1>1, <1>2

\* While the HTTP server runs and nothing is under way no service is left paused, for
\* any request threads and services: the pause of a reload or of a stop of the HTTP
\* server is resumed by its end or by the next start, unless that was lost in a
\* disabled pool or refused, or a state in the storage was wrong.
THEOREM PausesEnd == Spec => []PausedIsOwed
<1>1. Init => OwedInv
  BY DEF Init, OwedInv, Blank
<1>2. HandInv /\ OrderInv /\ OwedInv => PausedIsOwed
  <2>1. ASSUME HandInv, OrderInv, Quiet, NEW s \in Services, Owed(s), processing PROVE FALSE
    <3>1. \A t \in Threads : at[t] = "idle" /\ todo[t] = {} /\ service[t] = None
      BY <2>1 DEF Quiet, HandInv, OrderInv, Handling
    <3>2. at[Main] = "idle"
      BY <3>1 DEF Threads
    <3> QED
      BY <2>1, <3>1, <3>2, ServicesAssumption DEF Owed, Resumes, Reloads
  <2> QED
    BY <2>1 DEF PausedIsOwed, OwedInv
<1> QED
  BY <1>1, <1>2, Background, NextOwed, PTL DEF Spec
=============================================================================
