---------------------------- MODULE CatalogReload ----------------------------
(***************************************************************************)
(* VRIAServerProject::ReloadCatalog against the request threads: closing   *)
(* the database of an application while JavaScript contexts of any         *)
(* application of the solution may hold an application context             *)
(* (VRIAContext) on it.  The reload stops the creation of contexts, drops  *)
(* the pools of the whole solution, and waits until the last application   *)
(* context is unregistered.                                                *)
(*                                                                         *)
(* A pool keeps here what the reload sees of it: whether it is enabled and *)
(* which contexts are used and unused; JSContextPool has the rest.         *)
(***************************************************************************)
EXTENDS Integers, Sequences, FiniteSets

CONSTANTS Order,      \* fApplicationsCollection of the solution
          Reloaders,  \* the applications whose catalog is reloaded
          Requests,   \* request threads, which run scripts
          Contexts,   \* the VJSGlobalContext objects that may exist
          None,       \* no context, no thread
          MaxKept     \* bound: unused contexts that a pool keeps

Apps == {Order[i] : i \in 1..Len(Order)}

ASSUME CatalogAssumption ==
  /\ Order \in Seq(Apps) /\ Len(Order) > 0
  /\ Reloaders \subseteq Apps
  /\ None \notin Contexts \cup Apps
  /\ Contexts \cap Apps = {} /\ Requests \cap Apps = {}
  /\ MaxKept \in Nat

\* A reload runs the services' messages in contexts of its own application.
Threads == Requests \cup Reloaders

VARIABLES
  creation,     \* per application: fContextCreationEnabled
  poolEnabled,  \* per application: fEnabled of its pool
  database,     \* per application: is fDatabase not NULL
  used, unused, \* per application: the contexts of its pool
  registered,   \* per application: fSetOfContext, by owner of the VRIAContext
  based,        \* per application: owners that hold a base context on it
  appsOwner,    \* who is in fApplicationsMutex during DropAllJSContexts
  tpc, home, held, next,  \* per thread: its pool, its context, AttachSolution's loop
  rpc, phase,             \* per reload: where it is, first or second half
  at, savedContexts, savedClear,  \* per reload: DropAll's loop, saved flags
  woken,                  \* per reload: the event it sleeps on is unlocked
  awaited,                \* history: the registrations in place when it looked
  crossed                 \* history: the applications whose pool one reload enabled
                          \* again while another one had it disabled

switchVars == <<creation, poolEnabled, database, crossed>>
poolVars == <<used, unused>>
registryVars == <<registered, based, awaited>>
threadVars == <<tpc, home, held, next>>
reloadVars == <<rpc, phase, at, savedContexts, savedClear>>
vars == <<switchVars, poolVars, registryVars, appsOwner, threadVars, reloadVars, woken>>

ThreadSteps == {"idle", "search", "discard", "create", "attach", "enter", "base",
                "using", "lookUp", "ending", "detach"}
ReloadSteps == {"idle", "willReload", "posted", "disable", "disablePool", "dropAll",
                "clear", "saved", "look", "waitPool", "sweep", "leave",
                "lookRia", "waitRia", "close",
                "closed", "open", "restore", "didReload", "finish"}

TypeOK ==
  /\ creation \in [Apps -> BOOLEAN] /\ poolEnabled \in [Apps -> BOOLEAN]
  /\ database \in [Apps -> BOOLEAN]
  /\ used \in [Apps -> SUBSET Contexts] /\ unused \in [Apps -> SUBSET Contexts]
  /\ registered \in [Apps -> SUBSET (Contexts \cup Apps)]
  /\ based \in [Apps -> SUBSET Contexts]
  /\ appsOwner \in Reloaders \cup {None}
  /\ tpc \in [Threads -> ThreadSteps] /\ home \in [Threads -> Apps]
  /\ held \in [Threads -> Contexts \cup {None}]
  /\ next \in [Threads -> 1..Len(Order) + 1]
  /\ rpc \in [Reloaders -> ReloadSteps] /\ phase \in [Reloaders -> 1..2]
  /\ at \in [Reloaders -> 1..Len(Order)]
  /\ savedContexts \in [Reloaders -> [creation : BOOLEAN, pool : BOOLEAN]]
  /\ savedClear \in [Reloaders -> BOOLEAN] /\ woken \in [Reloaders -> BOOLEAN]
  /\ awaited \in [Reloaders -> SUBSET (Contexts \cup Apps)]
  /\ crossed \subseteq Apps

Init ==
  /\ creation = [q \in Apps |-> TRUE] /\ poolEnabled = [q \in Apps |-> TRUE]
  /\ database \in [Apps -> BOOLEAN]
  /\ used = [q \in Apps |-> {}] /\ unused = [q \in Apps |-> {}]
  /\ registered = [q \in Apps |-> {}] /\ based = [q \in Apps |-> {}]
  /\ appsOwner = None
  /\ tpc = [t \in Threads |-> "idle"] /\ home = [t \in Threads |-> Order[1]]
  /\ held = [t \in Threads |-> None] /\ next = [t \in Threads |-> 1]
  /\ rpc = [p \in Reloaders |-> "idle"] /\ phase = [p \in Reloaders |-> 1]
  /\ at = [p \in Reloaders |-> 1]
  /\ savedContexts = [p \in Reloaders |-> [creation |-> TRUE, pool |-> TRUE]]
  /\ savedClear = [p \in Reloaders |-> TRUE] /\ woken = [p \in Reloaders |-> FALSE]
  /\ awaited = [p \in Reloaders |-> {}] /\ crossed = {}

-----------------------------------------------------------------------------
(* The two sets a reload waits on, and the mutexes in the way.              *)

\* A Clear() that sweeps the pool of q holds its mutex, and so does a thread
\* that discards a context of it.
PoolFree(q) ==
  /\ \A p \in Reloaders : ~(rpc[p] = "sweep" /\ Order[at[p]] = q)
  /\ \A t \in Threads : ~(tpc[t] = "discard" /\ home[t] = q)

\* The release that empties a pool's used contexts wakes the Clear() asleep.
WakePoolWaiters(q) ==
  woken' = [p \in Reloaders |-> \/ woken[p]
                                \/ /\ rpc[p] = "waitPool" /\ Order[at[p]] = q
                                   /\ used'[q] = {}]

\* Seeded fault: any unregistration wakes the reload, not only the last one.
UnRegisterWakesTooEarly(o, A) ==
  /\ registered' = [q \in Apps |-> IF q \in A THEN registered[q] \ {o} ELSE registered[q]]
  /\ based' = [q \in Apps |-> IF q \in A THEN based[q] \ {o} ELSE based[q]]
  /\ awaited' = [p \in Reloaders |-> IF p \in A THEN awaited[p] \ {o} ELSE awaited[p]]
  /\ woken' = [p \in Reloaders |-> woken[p] \/ (rpc[p] = "waitRia" /\ o \in registered[p])]

\* Seeded fault: the last unregistration wakes nobody.
UnRegisterWakesNobody(o, A) ==
  /\ registered' = [q \in Apps |-> IF q \in A THEN registered[q] \ {o} ELSE registered[q]]
  /\ based' = [q \in Apps |-> IF q \in A THEN based[q] \ {o} ELSE based[q]]
  /\ awaited' = [p \in Reloaders |-> IF p \in A THEN awaited[p] \ {o} ELSE awaited[p]]
  /\ woken' = woken

\* UnRegisterContext of the VRIAContexts of owner o, in every application of
\* A: the one that empties the set wakes the reload asleep.
UnRegisterContext(o, A) ==
  /\ registered' = [q \in Apps |-> IF q \in A THEN registered[q] \ {o} ELSE registered[q]]
  /\ based' = [q \in Apps |-> IF q \in A THEN based[q] \ {o} ELSE based[q]]
  /\ awaited' = [p \in Reloaders |-> IF p \in A THEN awaited[p] \ {o} ELSE awaited[p]]
  /\ woken' = [p \in Reloaders |-> woken[p] \/ (rpc[p] = "waitRia" /\ registered'[p] = {})]

-----------------------------------------------------------------------------
(* A thread that retains a JavaScript context, runs a script, releases it.  *)

Goto(t, step) == tpc' = [tpc EXCEPT ![t] = step]

\* RetainContext of the pool of q: the test of fEnabled.
RetainContext(t, q) ==
  /\ tpc[t] = "idle" /\ poolEnabled[q]
  /\ Goto(t, "search")
  /\ home' = [home EXCEPT ![t] = q]
  /\ UNCHANGED <<held, next, switchVars, poolVars, registryVars, appsOwner, woken>>

RequestRetains(t) ==
  /\ t \in Requests
  /\ \E q \in Apps : RetainContext(t, q)
  /\ UNCHANGED reloadVars

TakeUnused(t) ==
  /\ tpc[t] = "search" /\ t \in Requests /\ PoolFree(home[t])
  /\ \E c \in unused[home[t]] :
       /\ used' = [used EXCEPT ![home[t]] = @ \cup {c}]
       /\ unused' = [unused EXCEPT ![home[t]] = @ \ {c}]
       /\ held' = [held EXCEPT ![t] = c]
  /\ Goto(t, "using")
  /\ UNCHANGED <<home, next, switchVars, registryVars, appsOwner, reloadVars, woken>>

\* An unused context whose included files have changed is taken out of the
\* pool, whose mutex is kept for the following.
FindStale(t) ==
  /\ tpc[t] = "search" /\ t \in Requests /\ PoolFree(home[t])
  /\ \E c \in unused[home[t]] :
       /\ unused' = [unused EXCEPT ![home[t]] = @ \ {c}]
       /\ held' = [held EXCEPT ![t] = c]
  /\ Goto(t, "discard")
  /\ UNCHANGED <<used, home, next, switchVars, registryVars, appsOwner, reloadVars, woken>>

\* _ReleaseContext of it inside the pool's mutex: DetachSolution, by
\* GetApplications, which needs fApplicationsMutex.
DiscardStale(t) ==
  /\ tpc[t] = "discard" /\ appsOwner = None
  /\ UnRegisterContext(held[t], Apps)
  /\ held' = [held EXCEPT ![t] = None]
  /\ Goto(t, "search")
  /\ UNCHANGED <<home, next, switchVars, poolVars, appsOwner, reloadVars>>

\* A message is posted in a context that is not reusable, never a pooled one.
FindNoUnused(t) ==
  /\ tpc[t] = "search"
  /\ t \in Requests => PoolFree(home[t]) /\ unused[home[t]] = {}
  /\ Goto(t, "create")
  /\ UNCHANGED <<home, held, next, switchVars, poolVars, registryVars, appsOwner,
                 reloadVars, woken>>

FreshContexts == Contexts \ ({held[t] : t \in Threads} \cup UNION {unused[q] : q \in Apps})

\* _RetainNewContext and AttachSolution up to GetApplications, which needs
\* fApplicationsMutex.
AttachSolution(t) ==
  /\ tpc[t] = "create" /\ appsOwner = None
  /\ \E c \in FreshContexts : held' = [held EXCEPT ![t] = c]
  /\ next' = [next EXCEPT ![t] = 1]
  /\ Goto(t, "attach")
  /\ UNCHANGED <<home, switchVars, poolVars, registryVars, appsOwner, reloadVars, woken>>

\* RetainNewContext of the next application: the test of fContextCreationEnabled.
ChecksCreation(t) ==
  /\ tpc[t] = "attach" /\ next[t] <= Len(Order)
  /\ IF creation[Order[next[t]]]
     THEN Goto(t, "enter") /\ UNCHANGED next
     ELSE next' = [next EXCEPT ![t] = @ + 1] /\ UNCHANGED tpc
  /\ UNCHANGED <<home, held, switchVars, poolVars, registryVars, appsOwner,
                 reloadVars, woken>>

\* RetainNewContext, continued: the new VRIAContext is registered.
RegisterContext(t) ==
  /\ tpc[t] = "enter"
  /\ registered' = [registered EXCEPT ![Order[next[t]]] = @ \cup {held[t]}]
  /\ Goto(t, "base")
  /\ UNCHANGED <<home, held, next, switchVars, poolVars, based, awaited, appsOwner,
                 reloadVars, woken>>

\* RetainDatabase: the base context, when fDatabase is not NULL.
RetainDatabase(t) ==
  LET q == Order[next[t]]
  IN /\ tpc[t] = "base"
     /\ based' = IF database[q] THEN [based EXCEPT ![q] = @ \cup {held[t]}] ELSE based
     /\ next' = [next EXCEPT ![t] = @ + 1]
     /\ Goto(t, "attach")
     /\ UNCHANGED <<home, held, switchVars, poolVars, registered, awaited, appsOwner,
                    reloadVars, woken>>

\* Second section of RetainContext: the attached context becomes used.
JoinsPool(t) ==
  /\ tpc[t] = "attach" /\ next[t] > Len(Order) /\ PoolFree(home[t])
  /\ used' = [used EXCEPT ![home[t]] = @ \cup {held[t]}]
  /\ Goto(t, "using")
  /\ UNCHANGED <<home, held, next, switchVars, unused, registryVars, appsOwner,
                 reloadVars, woken>>

\* The script asks for solution.applications or getApplicationByName().
\* Bound: once in a script.
ScriptLooksUp(t) ==
  /\ tpc[t] = "using" /\ t \in Requests
  /\ Goto(t, "lookUp")
  /\ UNCHANGED <<home, held, next, switchVars, poolVars, registryVars, appsOwner,
                 reloadVars, woken>>

\* GetApplications and RetainApplicationByName lock fApplicationsMutex.
GetApplications(t) ==
  /\ tpc[t] = "lookUp" /\ appsOwner = None
  /\ Goto(t, "ending")
  /\ UNCHANGED <<home, held, next, switchVars, poolVars, registryVars, appsOwner,
                 reloadVars, woken>>

\* Seeded fault: the context is uninitialized before it leaves the used ones.
ReleaseContextDetachesFirst(t) ==
  LET q == home[t]
      c == held[t]
  IN /\ tpc[t] \in {"using", "ending"} /\ PoolFree(q) /\ appsOwner = None
     /\ used' = [used EXCEPT ![q] = @ \ {c}]
     /\ WakePoolWaiters(q)
     /\ Goto(t, "detach")
     /\ UNCHANGED <<unused, held, home, next, switchVars, registryVars, appsOwner,
                    reloadVars>>

\* ReleaseContext: a request's context may be kept for reuse.
ReleaseContext(t) ==
  LET q == home[t]
      c == held[t]
  IN /\ tpc[t] \in {"using", "ending"} /\ PoolFree(q)
     /\ used' = [used EXCEPT ![q] = @ \ {c}]
     /\ \/ /\ t \in Requests /\ Cardinality(unused[q]) < MaxKept
           /\ unused' = [unused EXCEPT ![q] = @ \cup {c}]
           /\ held' = [held EXCEPT ![t] = None]
           /\ Goto(t, "idle")
        \/ Goto(t, "detach") /\ UNCHANGED <<unused, held>>
     /\ WakePoolWaiters(q)
     /\ UNCHANGED <<home, next, switchVars, registryVars, appsOwner, reloadVars>>

\* Seeded fault: only the context of the pool's own application is released.
DetachHome(t) ==
  /\ tpc[t] = "detach" /\ appsOwner = None
  /\ UnRegisterContext(held[t], {home[t]})
  /\ held' = [held EXCEPT ![t] = None]
  /\ Goto(t, "idle")
  /\ UNCHANGED <<home, next, switchVars, poolVars, appsOwner, reloadVars>>

\* _ReleaseContext outside the pool's mutex: DetachSolution, by GetApplications.
DetachSolution(t) ==
  /\ tpc[t] = "detach" /\ appsOwner = None
  /\ UnRegisterContext(held[t], Apps)
  /\ held' = [held EXCEPT ![t] = None]
  /\ Goto(t, "idle")
  /\ UNCHANGED <<home, next, switchVars, poolVars, appsOwner, reloadVars>>

ThreadNext(t) ==
  \/ TakeUnused(t) \/ FindStale(t) \/ DiscardStale(t) \/ FindNoUnused(t)
  \/ AttachSolution(t) \/ ChecksCreation(t) \/ RegisterContext(t) \/ RetainDatabase(t)
  \/ JoinsPool(t) \/ ScriptLooksUp(t) \/ GetApplications(t)
  \/ ReleaseContext(t) \/ DetachSolution(t)

-----------------------------------------------------------------------------
(* ReloadCatalog of application p; fReloadDatabaseMutex admits one per      *)
(* application.                                                             *)

RGoto(p, step) == rpc' = [rpc EXCEPT ![p] = step]

\* A reload of q has read the flags of q and not yet written them back.
Disables(q) == /\ q \in Reloaders
               /\ rpc[q] \in ReloadSteps \ {"idle", "willReload", "posted", "disable",
                                          "didReload", "finish"}

\* The Clear() of reload p has read the flag of the pool of q and not yet written
\* it back.
Clears(p, q) == rpc[p] \in {"saved", "look", "waitPool", "sweep"} /\ Order[at[p]] = q

IsCleared(q) == \E p \in Reloaders : Clears(p, q)

\* _ValidateAndRetainContext(NULL, true): the reload's own VRIAContext.
ReloadCatalog(p) ==
  /\ rpc[p] = "idle" /\ tpc[p] = "idle" /\ creation[p]
  /\ registered' = [registered EXCEPT ![p] = @ \cup {p}]
  /\ phase' = [phase EXCEPT ![p] = 1]
  /\ RGoto(p, "willReload")
  /\ UNCHANGED <<switchVars, poolVars, based, awaited, appsOwner, threadVars, at,
                 savedContexts, savedClear, woken>>

\* _PostServicesMessage: a disabled pool loses the message.
PostServicesMessage(p) ==
  /\ rpc[p] \in {"willReload", "didReload"}
  /\ RGoto(p, IF rpc[p] = "willReload" THEN "posted" ELSE "finish")
  /\ UNCHANGED <<phase, at, savedContexts, savedClear>>
  /\ \/ RetainContext(p, p)
     \/ /\ ~poolEnabled[p]
        /\ UNCHANGED <<switchVars, poolVars, registryVars, appsOwner, threadVars, woken>>

\* Without an opened database only the second half of the reload is done.
TestDatabase(p) ==
  /\ rpc[p] = "posted" /\ tpc[p] = "idle"
  /\ phase' = [phase EXCEPT ![p] = IF database[p] THEN 1 ELSE 2]
  /\ RGoto(p, "disable")
  /\ UNCHANGED <<switchVars, poolVars, registryVars, appsOwner, threadVars, at,
                 savedContexts, savedClear, woken>>

\* Seeded fault: the flags are saved after they were cleared.
DisableThenSave(p) ==
  /\ rpc[p] = "disable"
  /\ creation' = [creation EXCEPT ![p] = FALSE]
  /\ savedContexts' = [savedContexts EXCEPT ![p] =
                         [creation |-> creation'[p], pool |-> poolEnabled[p]]]
  /\ RGoto(p, "disablePool")
  /\ UNCHANGED <<poolEnabled, database, crossed, poolVars, registryVars, appsOwner, threadVars,
                 phase, at, savedClear, woken>>

\* _SetContextCreationEnabled(false), and SetEnabled(false) up to its read of the
\* pool's flag, in both halves.
DisableContexts(p) ==
  /\ rpc[p] = "disable"
  /\ savedContexts' = [savedContexts EXCEPT ![p] =
                         [creation |-> creation[p], pool |-> poolEnabled[p]]]
  /\ creation' = [creation EXCEPT ![p] = FALSE]
  /\ RGoto(p, "disablePool")
  /\ UNCHANGED <<poolEnabled, database, crossed, poolVars, registryVars, appsOwner, threadVars,
                 phase, at, savedClear, woken>>

\* SetEnabled(false) writes the flag.
DisablePool(p) ==
  /\ rpc[p] = "disablePool"
  /\ poolEnabled' = [poolEnabled EXCEPT ![p] = FALSE]
  /\ RGoto(p, IF phase[p] = 1 THEN "dropAll" ELSE "open")
  /\ UNCHANGED <<creation, database, crossed, poolVars, registryVars, appsOwner, threadVars,
                 phase, at, savedContexts, savedClear, woken>>

\* VRIAServerSolution::DropAllJSContexts keeps fApplicationsMutex for the
\* whole loop over the pools of the applications.
DropAllJSContexts(p) ==
  /\ rpc[p] = "dropAll" /\ appsOwner = None
  /\ appsOwner' = p
  /\ at' = [at EXCEPT ![p] = 1]
  /\ RGoto(p, "clear")
  /\ UNCHANGED <<switchVars, poolVars, registryVars, threadVars, phase, savedContexts,
                 savedClear, woken>>

\* Clear(): save the enabled state,
ClearSavesState(p) ==
  /\ rpc[p] = "clear"
  /\ savedClear' = [savedClear EXCEPT ![p] = poolEnabled[Order[at[p]]]]
  /\ RGoto(p, "saved")
  /\ UNCHANGED <<switchVars, poolVars, registryVars, appsOwner, threadVars, phase, at,
                 savedContexts, woken>>

\* then disable the pool.
ClearDisables(p) ==
  /\ rpc[p] = "saved"
  /\ poolEnabled' = [poolEnabled EXCEPT ![Order[at[p]]] = FALSE]
  /\ RGoto(p, "look")
  /\ UNCHANGED <<creation, database, crossed, poolVars, registryVars, appsOwner, threadVars,
                 phase, at, savedContexts, savedClear, woken>>

\* Clear(): sleep while contexts of the pool are used.
ClearLooks(p) ==
  /\ rpc[p] = "look" /\ PoolFree(Order[at[p]])
  /\ RGoto(p, IF used[Order[at[p]]] = {} THEN "sweep" ELSE "waitPool")
  /\ UNCHANGED <<switchVars, poolVars, registryVars, appsOwner, threadVars, phase, at,
                 savedContexts, savedClear, woken>>

\* Either wait ends: VSyncEvent::Lock returns.
Wakes(p) ==
  /\ woken[p]
  /\ woken' = [woken EXCEPT ![p] = FALSE]
  /\ \/ rpc[p] = "waitPool" /\ PoolFree(Order[at[p]]) /\ RGoto(p, "sweep")
     \/ rpc[p] = "waitRia" /\ RGoto(p, "close")
  /\ UNCHANGED <<switchVars, poolVars, registryVars, appsOwner, threadVars, phase, at,
                 savedContexts, savedClear>>

\* Clear(): the pool's mutex is held while the unused contexts are released;
\* this thread may enter fApplicationsMutex again for DetachSolution.
ClearSweeps(p) ==
  LET q == Order[at[p]]
  IN /\ rpc[p] = "sweep"
     /\ \E c \in unused[q] :
          /\ unused' = [unused EXCEPT ![q] = @ \ {c}]
          /\ UnRegisterContext(c, Apps)
     /\ UNCHANGED <<switchVars, used, appsOwner, threadVars, reloadVars>>

\* Seeded fault: the loop passes the end of the applications.
ClearRestoresOneTooFar(p) ==
  LET q == Order[at[p]]
  IN /\ rpc[p] = "sweep" /\ unused[q] = {}
     /\ poolEnabled' = [poolEnabled EXCEPT ![q] = savedClear[p]]
     /\ crossed' = IF savedClear[p] /\ Disables(q) THEN crossed \cup {q} ELSE crossed
     /\ IF at[p] <= Len(Order)
        THEN /\ at' = [at EXCEPT ![p] = @ + 1]
             /\ RGoto(p, "clear")
             /\ UNCHANGED appsOwner
        ELSE /\ appsOwner' = None
             /\ RGoto(p, "leave")
             /\ UNCHANGED at
     /\ UNCHANGED <<creation, database, poolVars, registryVars, threadVars, phase,
                    savedContexts, savedClear, woken>>

\* Clear() restores the enabled state; the loop goes on, or ends.
ClearRestores(p) ==
  LET q == Order[at[p]]
  IN /\ rpc[p] = "sweep" /\ unused[q] = {}
     /\ poolEnabled' = [poolEnabled EXCEPT ![q] = savedClear[p]]
     /\ crossed' = IF savedClear[p] /\ Disables(q) THEN crossed \cup {q} ELSE crossed
     /\ IF at[p] < Len(Order)
        THEN /\ at' = [at EXCEPT ![p] = @ + 1]
             /\ RGoto(p, "clear")
             /\ UNCHANGED appsOwner
        ELSE /\ appsOwner' = None
             /\ RGoto(p, "leave")
             /\ UNCHANGED at
     /\ UNCHANGED <<creation, database, poolVars, registryVars, threadVars, phase,
                    savedContexts, savedClear, woken>>

\* "Ensure the application is not used anymore": the reload's own context first.
ReleaseOwnContext(p) ==
  /\ rpc[p] = "leave"
  /\ UnRegisterContext(p, {p})
  /\ RGoto(p, "lookRia")
  /\ UNCHANGED <<switchVars, poolVars, appsOwner, threadVars, phase, at, savedContexts,
                 savedClear>>

\* Seeded fault: sleeps without a look at the number of contexts.
WaitUnconditionally(p) ==
  /\ rpc[p] = "lookRia"
  /\ awaited' = [awaited EXCEPT ![p] = registered[p]]
  /\ RGoto(p, "waitRia")
  /\ UNCHANGED <<switchVars, poolVars, registered, based, appsOwner, threadVars, phase,
                 at, savedContexts, savedClear, woken>>

\* The event is created, or shared, by who finds the set not empty.
WaitForRegisteredContextsCountZero(p) ==
  /\ rpc[p] = "lookRia"
  /\ awaited' = [awaited EXCEPT ![p] = registered[p]]
  /\ RGoto(p, IF registered[p] = {} THEN "close" ELSE "waitRia")
  /\ UNCHANGED <<switchVars, poolVars, registered, based, appsOwner, threadVars, phase,
                 at, savedContexts, savedClear, woken>>

\* fDatabase = NULL, then _CloseAndReleaseDatabase.
CloseDatabase(p) ==
  /\ rpc[p] = "close"
  /\ database' = [database EXCEPT ![p] = FALSE]
  /\ RGoto(p, "closed")
  /\ UNCHANGED <<creation, poolEnabled, crossed, poolVars, registryVars, appsOwner, threadVars,
                 phase, at, savedContexts, savedClear, woken>>

OpenDatabase(p) ==
  /\ rpc[p] = "open"
  /\ \E opened \in BOOLEAN : database' = [database EXCEPT ![p] = opened]
  /\ RGoto(p, "restore")
  /\ UNCHANGED <<creation, poolEnabled, crossed, poolVars, registryVars, appsOwner, threadVars,
                 phase, at, savedContexts, savedClear, woken>>

\* The two flags get their saved values back, in both halves.
RestoreContexts(p) ==
  /\ rpc[p] \in {"closed", "restore"}
  /\ creation' = [creation EXCEPT ![p] = savedContexts[p].creation]
  /\ poolEnabled' = [poolEnabled EXCEPT ![p] = savedContexts[p].pool]
  /\ crossed' = IF savedContexts[p].pool /\ IsCleared(p) THEN crossed \cup {p} ELSE crossed
  /\ phase' = [phase EXCEPT ![p] = 2]
  /\ RGoto(p, IF rpc[p] = "closed" THEN "disable" ELSE "didReload")
  /\ UNCHANGED <<database, poolVars, registryVars, appsOwner, threadVars, at,
                 savedContexts, savedClear, woken>>

\* The own context of a reload without first half is released at the end.
ReloadEnds(p) ==
  /\ rpc[p] = "finish" /\ tpc[p] = "idle"
  /\ UnRegisterContext(p, {p})
  /\ RGoto(p, "idle")
  /\ UNCHANGED <<switchVars, poolVars, appsOwner, threadVars, phase, at, savedContexts,
                 savedClear>>

ReloadNext(p) ==
  \/ PostServicesMessage(p) \/ TestDatabase(p) \/ DisableContexts(p) \/ DisablePool(p)
  \/ DropAllJSContexts(p) \/ ClearSavesState(p) \/ ClearDisables(p) \/ ClearLooks(p) \/ Wakes(p)
  \/ ClearSweeps(p) \/ ClearRestores(p) \/ ReleaseOwnContext(p)
  \/ WaitForRegisteredContextsCountZero(p) \/ CloseDatabase(p) \/ OpenDatabase(p)
  \/ RestoreContexts(p) \/ ReloadEnds(p)

Next == \/ \E t \in Threads : RequestRetains(t) \/ ThreadNext(t)
        \/ \E p \in Reloaders : ReloadCatalog(p) \/ ReloadNext(p)

Spec == Init /\ [][Next]_vars

\* Threads inside a call go on, scripts end, and a mutex is granted.
Fairness == /\ \A t \in Threads : WF_vars(ThreadNext(t))
            /\ \A p \in Reloaders : WF_vars(ReloadNext(p))

FairSpec == Spec /\ Fairness

-----------------------------------------------------------------------------
(* Properties.                                                              *)

\* What the reload waited for is over when it detaches the database: every
\* application context registered when it looked has been unregistered.
ReloadIsABarrier == \A p \in Reloaders : rpc[p] = "close" => awaited[p] = {}

\* No application context is forgotten: each one belongs to a JavaScript
\* context of a pool or of a thread, or to a reload in progress, so that
\* releasing those is enough to end the wait.
RegistrationsAreHeld ==
  \A q \in Apps :
    /\ registered[q] \cap Contexts \subseteq
         (UNION {unused[a] : a \in Apps}) \cup {held[t] : t \in Threads}
    /\ q \in registered[q] => q \in Reloaders /\ rpc[q] # "idle"
    /\ based[q] \subseteq registered[q]

\* Reloads of several applications save the flag of one pool and write it back in
\* each other's midst: the own reload of its application, and the Clear() of any.
\* Whatever the order, nested or not, a pool is enabled again when both are done,
\* unless one of them enabled it while the other had it disabled, when "restore the
\* enabled state" may leave it disabled for good; and the creation
\* of contexts, which only the own reload stops, is enabled again in any case.
SwitchesAreRestored ==
  \A q \in Apps : ~Disables(q) =>
    /\ creation[q]
    /\ IsCleared(q) \/ q \in crossed \/ poolEnabled[q]

\* A script, or the search of an unused context, waits for fApplicationsMutex
\* while the reload holds it.
HeldUpBy(p) == /\ appsOwner = p
               /\ \E t \in Threads : tpc[t] \in {"lookUp", "discard"}

\* DropAllJSContexts, which is there "to release the existing application contexts",
\* returns, unless a script waits so: threads that attach or detach a
\* solution need fApplicationsMutex as well, but no Clear() waits for them.
DropAllReturnsOrIsHeldUp ==
  \A p \in Reloaders : rpc[p] = "dropAll" ~> rpc[p] = "leave" \/ HeldUpBy(p)

\* "Here, nobody can access to the database": no base context is left on the
\* database that has been detached and is about to be closed.
NobodyHasDatabase == \A p \in Reloaders : rpc[p] = "closed" => based[p] = {}

\* A context that was under construction during the drop has ended in a pool
\* that is disabled for the time of the reload, with its registration: nothing
\* destroys it there.
OrphanedIn(p) == \E q \in Apps : registered[p] \cap unused[q] # {}

\* Nothing else keeps a reload that waits for the last application context from
\* its end.
ReloadReturnsOrIsOrphaned ==
  \A p \in Reloaders : rpc[p] = "lookRia" ~> rpc[p] = "idle" \/ OrphanedIn(p)

-----------------------------------------------------------------------------
(* WaitForRegisteredContextsCountZero on its own.                           *)

\* Where the reload of p is with respect to the gate.
GateValue(p) == CASE rpc[p] = "waitRia" -> IF woken[p] THEN "open" ELSE "in"
                  [] rpc[p] = "close" -> "open"
                  [] OTHER -> "out"

GateOf(p) == INSTANCE ZeroGate WITH
  Members <- Contexts \cup Apps, Waiters <- {p}, members <- registered[p],
  gate <- [w \in {p} |-> GateValue(p)]

\* VRIAContextManager implements the zero gate for each application.
ImplementsGate ==
  /\ \A p \in Reloaders : GateOf(p)!Init
  /\ [][\A p \in Reloaders : [GateOf(p)!Next]_(GateOf(p)!vars)]_vars
=============================================================================
