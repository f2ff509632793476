------------------------- MODULE CatalogReloadProofs -------------------------
(***************************************************************************)
(* The wait of ReloadCatalog for the application contexts, for any number  *)
(* of applications, reloads, request threads and contexts.  ReloadInv is   *)
(* inductive; each property follows from one of its parts.                 *)
(***************************************************************************)
EXTENDS CatalogReload, TLAPS

-----------------------------------------------------------------------------
(* The inductive invariant.                                                 *)

Holding == {"discard", "attach", "enter", "base", "using", "lookUp", "ending", "detach"}

\* A JavaScript context is in the hands of one thread or at rest in one pool.
HoldInv ==
  /\ \A t \in Threads :
       /\ tpc[t] \in Holding <=> held[t] # None
       /\ held[t] # None => \A u \in Threads : u # t => held[u] # held[t]
       /\ \A q \in Apps : held[t] \notin unused[q]
  /\ \A q \in Apps : \A a \in Apps : q # a => unused[q] \cap unused[a] = {}

\* AttachSolution's loop is within the applications, and what it has registered
\* is still registered when it takes the base context.
LoopInv ==
  \A t \in Threads :
    /\ tpc[t] \in {"enter", "base"} => next[t] \in 1..Len(Order)
    /\ tpc[t] = "base" => held[t] \in registered[Order[next[t]]]

\* A registered application context belongs to a JavaScript context that some
\* pool or some thread still has, or to a reload in progress.
Placed(c) == \/ \E a \in Apps : c \in unused[a]
             \/ \E t \in Threads : held[t] = c

RegistrationInv ==
  \A q \in Apps :
    /\ \A c \in registered[q] \cap Contexts : Placed(c)
    /\ q \in registered[q] => q \in Reloaders /\ rpc[q] # "idle"
    /\ based[q] \subseteq registered[q]

\* A reload sleeps while what it waits for is registered, is woken when this is
\* over, and is never woken by an older event.
WaitInv ==
  \A p \in Reloaders :
    /\ woken[p] => rpc[p] \in {"waitPool", "waitRia"}
    /\ rpc[p] = "waitRia" /\ ~woken[p] =>
         registered[p] # {} /\ awaited[p] \subseteq registered[p]
    /\ rpc[p] = "waitRia" /\ woken[p] => awaited[p] = {}
    /\ rpc[p] = "close" => awaited[p] = {}

ReloadInv == TypeOK /\ HoldInv /\ LoopInv /\ RegistrationInv /\ WaitInv

\* The applications are the elements of the solution's collection.
LEMMA OrderFacts ==
  /\ Len(Order) \in Nat /\ Len(Order) > 0
  /\ \A i \in 1..Len(Order) : Order[i] \in Apps
  BY CatalogAssumption DEF Apps

\* What a step of these actions does, without the flags it tests.
LEMMA ChecksCreationDoes ==
  ASSUME NEW t \in Threads, ChecksCreation(t)
  PROVE  /\ tpc[t] = "attach" /\ next[t] <= Len(Order)
         /\ \/ tpc' = [tpc EXCEPT ![t] = "enter"] /\ next' = next
            \/ tpc' = tpc /\ next' = [next EXCEPT ![t] = next[t] + 1]
         /\ UNCHANGED <<home, held, switchVars, poolVars, registryVars, appsOwner, reloadVars,
                        woken>>
  BY DEF ChecksCreation, Goto

LEMMA ReleaseContextDoes ==
  ASSUME NEW t \in Threads, ReleaseContext(t)
  PROVE  /\ tpc[t] \in {"using", "ending"}
         /\ used' = [used EXCEPT ![home[t]] = used[home[t]] \ {held[t]}]
         /\ \/ /\ unused' = [unused EXCEPT ![home[t]] = unused[home[t]] \cup {held[t]}]
               /\ held' = [held EXCEPT ![t] = None]
               /\ tpc' = [tpc EXCEPT ![t] = "idle"]
            \/ /\ tpc' = [tpc EXCEPT ![t] = "detach"]
               /\ unused' = unused /\ held' = held
         /\ UNCHANGED <<home, next, switchVars, registryVars, appsOwner, reloadVars>>
  BY DEF ReleaseContext, Goto

LEMMA ClearRestoresDoes ==
  ASSUME NEW p \in Reloaders, ClearRestores(p)
  PROVE  /\ rpc[p] = "sweep"
         /\ \/ /\ at[p] < Len(Order) /\ at' = [at EXCEPT ![p] = at[p] + 1]
               /\ rpc' = [rpc EXCEPT ![p] = "clear"] /\ appsOwner' = appsOwner
            \/ /\ at' = at /\ appsOwner' = None
               /\ rpc' = [rpc EXCEPT ![p] = "leave"]
         /\ UNCHANGED <<creation, database, poolVars, registryVars, threadVars, phase,
                        savedContexts, savedClear, woken>>
  BY DEF ClearRestores, RGoto

\* A context that a thread takes from a pool is still placed.
LEMMA PlacedMoves ==
  ASSUME TypeOK, NEW t \in Threads, held[t] = None, NEW c \in unused[home[t]],
         unused' = [unused EXCEPT ![home[t]] = @ \ {c}], held' = [held EXCEPT ![t] = c],
         CatalogAssumption
  PROVE  \A d \in Contexts : Placed(d) => Placed(d)'
<1>1. SUFFICES ASSUME NEW d \in Contexts, Placed(d), d # c
               PROVE  Placed(d)'
  <2>1. held'[t] = c
    BY DEF TypeOK
  <2>2. Placed(c)'
    BY <2>1 DEF Placed
  <2>3. QED
    BY <2>2
<1>2. CASE \E a \in Apps : d \in unused[a]
  <2>1. PICK a \in Apps : d \in unused[a]
    BY <1>2
  <2>2. d \in unused'[a]
    BY <1>1, <2>1 DEF TypeOK
  <2>3. QED
    BY <2>2 DEF Placed
<1>3. CASE \E u \in Threads : held[u] = d
  <2>1. PICK u \in Threads : held[u] = d
    BY <1>3
  <2>2. u # t
    BY <2>1 DEF CatalogAssumption
  <2>3. held'[u] = d
    BY <2>1, <2>2 DEF TypeOK
  <2>4. QED
    BY <2>3 DEF Placed
<1>4. QED
  BY <1>1, <1>2, <1>3 DEF Placed

\* Contexts stay placed in a step that moves none.
LEMMA RegistrationKept ==
  ASSUME RegistrationInv, UNCHANGED <<registered, based, unused, held>>,
         \A q \in Reloaders : rpc[q] # "idle" => rpc'[q] # "idle"
  PROVE  RegistrationInv'
<1>1. \A c : Placed(c) => Placed(c)'
  BY DEF Placed
<1>2. QED
  BY <1>1 DEF RegistrationInv

\* Every step keeps the types; AttachSolution's loop ends within the applications.
LEMMA TypeStep ==
  ASSUME ReloadInv, [Next]_vars
  PROVE  TypeOK'
<1> USE CatalogAssumption, OrderFacts DEF ReloadInv, Threads
<1>1. ASSUME NEW t \in Threads, RequestRetains(t) \/ ThreadNext(t)
      PROVE  TypeOK'
  <2>1. CASE RequestRetains(t)
    BY <2>1 DEF RequestRetains, RetainContext, Goto, TypeOK, ThreadSteps, ReloadSteps,
       LoopInv, HoldInv, Holding, switchVars, poolVars, registryVars, threadVars,
       reloadVars
  <2>2. CASE TakeUnused(t)
    BY <2>2 DEF TakeUnused, Goto, TypeOK, ThreadSteps, ReloadSteps, LoopInv, HoldInv,
       Holding, switchVars, poolVars, registryVars, threadVars, reloadVars
  <2>3. CASE FindStale(t)
    BY <2>3 DEF FindStale, Goto, TypeOK, ThreadSteps, ReloadSteps, LoopInv, HoldInv,
       Holding, switchVars, poolVars, registryVars, threadVars, reloadVars
  <2>4. CASE DiscardStale(t)
    BY <2>4 DEF DiscardStale, UnRegisterContext, Goto, TypeOK, ThreadSteps,
       ReloadSteps, LoopInv, HoldInv, Holding, switchVars, poolVars, registryVars,
       threadVars, reloadVars
  <2>5. CASE FindNoUnused(t)
    BY <2>5 DEF FindNoUnused, Goto, TypeOK, ThreadSteps, ReloadSteps, LoopInv, HoldInv,
       Holding, switchVars, poolVars, registryVars, threadVars, reloadVars
  <2>6. CASE AttachSolution(t)
    BY <2>6 DEF AttachSolution, FreshContexts, Goto, TypeOK, ThreadSteps, ReloadSteps,
       LoopInv, HoldInv, Holding, switchVars, poolVars, registryVars, threadVars,
       reloadVars
  <2>7. CASE ChecksCreation(t)
    <3>1. /\ tpc[t] = "attach" /\ next[t] <= Len(Order)
          /\ UNCHANGED <<home, held, switchVars, poolVars, registryVars, appsOwner, reloadVars,
                          woken>>
      BY <2>7, ChecksCreationDoes
    <3>2. CASE tpc' = [tpc EXCEPT ![t] = "enter"] /\ next' = next
      BY <3>1, <3>2 DEF TypeOK, ThreadSteps, ReloadSteps, LoopInv, HoldInv, Holding,
         switchVars, poolVars, registryVars, threadVars, reloadVars
    <3>3. CASE tpc' = tpc /\ next' = [next EXCEPT ![t] = next[t] + 1]
      BY <3>1, <3>3 DEF TypeOK, ThreadSteps, ReloadSteps, LoopInv, HoldInv, Holding,
         switchVars, poolVars, registryVars, threadVars, reloadVars
    <3>4. QED
      BY <2>7, <3>2, <3>3, ChecksCreationDoes
  <2>8. CASE RegisterContext(t)
    BY <2>8 DEF RegisterContext, Goto, TypeOK, ThreadSteps, ReloadSteps, LoopInv,
       HoldInv, Holding, switchVars, poolVars, registryVars, threadVars, reloadVars
  <2>9. CASE RetainDatabase(t)
    BY <2>9 DEF RetainDatabase, Goto, TypeOK, ThreadSteps, ReloadSteps, LoopInv,
       HoldInv, Holding, switchVars, poolVars, registryVars, threadVars, reloadVars
  <2>10. CASE JoinsPool(t)
    BY <2>10 DEF JoinsPool, Goto, TypeOK, ThreadSteps, ReloadSteps, LoopInv, HoldInv,
       Holding, switchVars, poolVars, registryVars, threadVars, reloadVars
  <2>11. CASE ScriptLooksUp(t)
    BY <2>11 DEF ScriptLooksUp, Goto, TypeOK, ThreadSteps, ReloadSteps, LoopInv,
       HoldInv, Holding, switchVars, poolVars, registryVars, threadVars, reloadVars
  <2>12. CASE GetApplications(t)
    BY <2>12 DEF GetApplications, Goto, TypeOK, ThreadSteps, ReloadSteps, LoopInv,
       HoldInv, Holding, switchVars, poolVars, registryVars, threadVars, reloadVars
  <2>13. CASE ReleaseContext(t)
    <3>1. /\ tpc[t] \in {"using", "ending"}
          /\ used' = [used EXCEPT ![home[t]] = used[home[t]] \ {held[t]}]
          /\ UNCHANGED <<home, next, switchVars, registryVars, appsOwner, reloadVars>>
      BY <2>13, ReleaseContextDoes
    <3>2. woken' \in [Reloaders -> BOOLEAN]
      BY <2>13 DEF ReleaseContext, WakePoolWaiters
    <3>3. held[t] \in Contexts
      BY <3>1 DEF TypeOK, HoldInv, Holding
    <3>4. CASE /\ unused' = [unused EXCEPT ![home[t]] = unused[home[t]] \cup {held[t]}]
               /\ held' = [held EXCEPT ![t] = None]
               /\ tpc' = [tpc EXCEPT ![t] = "idle"]
      BY <3>1, <3>2, <3>3, <3>4 DEF TypeOK, ThreadSteps, ReloadSteps,
         switchVars, poolVars, registryVars, threadVars, reloadVars
    <3>5. CASE tpc' = [tpc EXCEPT ![t] = "detach"] /\ unused' = unused /\ held' = held
      BY <3>1, <3>2, <3>3, <3>5 DEF TypeOK, ThreadSteps, ReloadSteps,
         switchVars, poolVars, registryVars, threadVars, reloadVars
    <3>6. QED
      BY <2>13, <3>4, <3>5, ReleaseContextDoes
  <2>14. CASE DetachSolution(t)
    BY <2>14 DEF DetachSolution, UnRegisterContext, Goto, TypeOK, ThreadSteps,
       ReloadSteps, LoopInv, HoldInv, Holding, switchVars, poolVars, registryVars,
       threadVars, reloadVars
  <2>15. QED
    BY <1>1, <2>1, <2>2, <2>3, <2>4, <2>5, <2>6, <2>7, <2>8, <2>9, <2>10, <2>11, <2>12,
       <2>13, <2>14 DEF ThreadNext
<1>2. ASSUME NEW p \in Reloaders, ReloadCatalog(p) \/ ReloadNext(p)
      PROVE  TypeOK'
  <2>1. CASE ReloadCatalog(p)
    BY <2>1 DEF ReloadCatalog, RGoto, TypeOK, ThreadSteps, ReloadSteps, LoopInv,
       HoldInv, Holding, switchVars, poolVars, registryVars, threadVars, reloadVars
  <2>2. CASE PostServicesMessage(p)
    <3>1. CASE RetainContext(p, p)
      BY <2>2, <3>1 DEF PostServicesMessage, RetainContext, Goto, RGoto, TypeOK,
       ThreadSteps, ReloadSteps, LoopInv, HoldInv, Holding, switchVars, poolVars,
       registryVars, threadVars, reloadVars
    <3>2. CASE ~RetainContext(p, p)
      BY <2>2, <3>2 DEF PostServicesMessage, RetainContext, Goto, RGoto, TypeOK,
       ThreadSteps, ReloadSteps, LoopInv, HoldInv, Holding, switchVars, poolVars,
       registryVars, threadVars, reloadVars
    <3>3. QED
      BY <3>1, <3>2
  <2>3. CASE TestDatabase(p)
    BY <2>3 DEF TestDatabase, RGoto, TypeOK, ThreadSteps, ReloadSteps, LoopInv,
       HoldInv, Holding, switchVars, poolVars, registryVars, threadVars, reloadVars
  <2>4. CASE DisableContexts(p)
    BY <2>4 DEF DisableContexts, RGoto, TypeOK, ThreadSteps, ReloadSteps, LoopInv,
       HoldInv, Holding, switchVars, poolVars, registryVars, threadVars, reloadVars
  <2>4a. CASE DisablePool(p)
    BY <2>4a DEF DisablePool, RGoto, TypeOK, ThreadSteps, ReloadSteps, LoopInv,
       HoldInv, Holding, switchVars, poolVars, registryVars, threadVars, reloadVars
  <2>5. CASE DropAllJSContexts(p)
    BY <2>5 DEF DropAllJSContexts, RGoto, TypeOK, ThreadSteps, ReloadSteps, LoopInv,
       HoldInv, Holding, switchVars, poolVars, registryVars, threadVars, reloadVars
  <2>6. CASE ClearDisables(p)
    BY <2>6 DEF ClearDisables, RGoto, TypeOK, ThreadSteps, ReloadSteps, LoopInv,
       HoldInv, Holding, switchVars, poolVars, registryVars, threadVars, reloadVars
  <2>6a. CASE ClearSavesState(p)
    BY <2>6a DEF ClearSavesState, RGoto, TypeOK, ThreadSteps, ReloadSteps, LoopInv,
       HoldInv, Holding, switchVars, poolVars, registryVars, threadVars, reloadVars
  <2>7. CASE ClearLooks(p)
    BY <2>7 DEF ClearLooks, RGoto, TypeOK, ThreadSteps, ReloadSteps, LoopInv, HoldInv,
       Holding, switchVars, poolVars, registryVars, threadVars, reloadVars
  <2>8. CASE Wakes(p)
    BY <2>8 DEF Wakes, RGoto, TypeOK, ThreadSteps, ReloadSteps, LoopInv, HoldInv,
       Holding, switchVars, poolVars, registryVars, threadVars, reloadVars
  <2>9. CASE ClearSweeps(p)
    BY <2>9 DEF ClearSweeps, UnRegisterContext, TypeOK, ThreadSteps, ReloadSteps,
       LoopInv, HoldInv, Holding, switchVars, poolVars, registryVars, threadVars,
       reloadVars
  <2>10. CASE ClearRestores(p)
    <3>1. /\ rpc[p] = "sweep"
          /\ UNCHANGED <<creation, database, poolVars, registryVars, threadVars, phase,
                         savedContexts, savedClear, woken>>
      BY <2>10, ClearRestoresDoes
    <3>2. poolEnabled' \in [Apps -> BOOLEAN] /\ crossed' \subseteq Apps
      BY <2>10 DEF ClearRestores, TypeOK
    <3>3. CASE /\ at[p] < Len(Order) /\ at' = [at EXCEPT ![p] = at[p] + 1]
               /\ rpc' = [rpc EXCEPT ![p] = "clear"] /\ appsOwner' = appsOwner
      BY <3>1, <3>2, <3>3 DEF TypeOK, ReloadSteps,
         switchVars, poolVars, registryVars, threadVars, reloadVars
    <3>4. CASE at' = at /\ rpc' = [rpc EXCEPT ![p] = "leave"] /\ appsOwner' = None
      BY <3>1, <3>2, <3>4 DEF TypeOK, ReloadSteps,
         switchVars, poolVars, registryVars, threadVars, reloadVars
    <3>5. QED
      BY <2>10, <3>3, <3>4, ClearRestoresDoes
  <2>11. CASE ReleaseOwnContext(p)
    BY <2>11 DEF ReleaseOwnContext, UnRegisterContext, RGoto, TypeOK, ThreadSteps,
       ReloadSteps, LoopInv, HoldInv, Holding, switchVars, poolVars, registryVars,
       threadVars, reloadVars
  <2>12. CASE WaitForRegisteredContextsCountZero(p)
    BY <2>12 DEF WaitForRegisteredContextsCountZero, RGoto, TypeOK, ThreadSteps,
       ReloadSteps, LoopInv, HoldInv, Holding, switchVars, poolVars, registryVars,
       threadVars, reloadVars
  <2>13. CASE CloseDatabase(p)
    BY <2>13 DEF CloseDatabase, RGoto, TypeOK, ThreadSteps, ReloadSteps, LoopInv,
       HoldInv, Holding, switchVars, poolVars, registryVars, threadVars, reloadVars
  <2>14. CASE OpenDatabase(p)
    BY <2>14 DEF OpenDatabase, RGoto, TypeOK, ThreadSteps, ReloadSteps, LoopInv,
       HoldInv, Holding, switchVars, poolVars, registryVars, threadVars, reloadVars
  <2>15. CASE RestoreContexts(p)
    BY <2>15 DEF RestoreContexts, RGoto, TypeOK, ThreadSteps, ReloadSteps, LoopInv,
       HoldInv, Holding, switchVars, poolVars, registryVars, threadVars, reloadVars
  <2>16. CASE ReloadEnds(p)
    BY <2>16 DEF ReloadEnds, UnRegisterContext, RGoto, TypeOK, ThreadSteps,
       ReloadSteps, LoopInv, HoldInv, Holding, switchVars, poolVars, registryVars,
       threadVars, reloadVars
  <2>17. QED
    BY <1>2, <2>1, <2>2, <2>3, <2>4, <2>4a, <2>5, <2>6, <2>6a, <2>7, <2>8,
       <2>9, <2>10, <2>11, <2>12, <2>13, <2>14, <2>15, <2>16 DEF ReloadNext
<1>3. CASE UNCHANGED vars
  BY <1>3 DEF vars, TypeOK, ThreadSteps, ReloadSteps, LoopInv, HoldInv, Holding,
     switchVars, poolVars, registryVars, threadVars, reloadVars
<1>4. QED
  BY <1>1, <1>2, <1>3 DEF Next

\* A context changes hands only by TakeUnused, FindStale and AttachSolution, which
\* take one that nobody holds, and is put back or destroyed by its holder.
LEMMA HoldStep ==
  ASSUME ReloadInv, [Next]_vars
  PROVE  HoldInv'
<1> USE CatalogAssumption, OrderFacts DEF ReloadInv, Threads
<1>1. ASSUME NEW t \in Threads, RequestRetains(t) \/ ThreadNext(t)
      PROVE  HoldInv'
  <2>1. CASE RequestRetains(t)
    BY <2>1 DEF RequestRetains, RetainContext, Goto, TypeOK, HoldInv, Holding,
       switchVars, poolVars, registryVars, threadVars, reloadVars
  <2>2. CASE TakeUnused(t)
    BY <2>2 DEF TakeUnused, Goto, TypeOK, HoldInv, Holding, switchVars, poolVars,
       registryVars, threadVars, reloadVars
  <2>3. CASE FindStale(t)
    BY <2>3 DEF FindStale, Goto, TypeOK, HoldInv, Holding, switchVars, poolVars,
       registryVars, threadVars, reloadVars
  <2>4. CASE DiscardStale(t)
    BY <2>4 DEF DiscardStale, UnRegisterContext, Goto, TypeOK, HoldInv, Holding,
       switchVars, poolVars, registryVars, threadVars, reloadVars
  <2>5. CASE FindNoUnused(t)
    BY <2>5 DEF FindNoUnused, Goto, TypeOK, HoldInv, Holding, switchVars, poolVars,
       registryVars, threadVars, reloadVars
  <2>6. CASE AttachSolution(t)
    BY <2>6 DEF AttachSolution, FreshContexts, Goto, TypeOK, HoldInv, Holding,
       switchVars, poolVars, registryVars, threadVars, reloadVars
  <2>7. CASE ChecksCreation(t)
    <3>1. /\ tpc[t] = "attach" /\ next[t] <= Len(Order)
          /\ UNCHANGED <<home, held, switchVars, poolVars, registryVars, appsOwner, reloadVars,
                          woken>>
      BY <2>7, ChecksCreationDoes
    <3>2. CASE tpc' = [tpc EXCEPT ![t] = "enter"] /\ next' = next
      BY <3>1, <3>2 DEF TypeOK, HoldInv, Holding,
         switchVars, poolVars, registryVars, threadVars, reloadVars
    <3>3. CASE tpc' = tpc /\ next' = [next EXCEPT ![t] = next[t] + 1]
      BY <3>1, <3>3 DEF TypeOK, HoldInv, Holding,
         switchVars, poolVars, registryVars, threadVars, reloadVars
    <3>4. QED
      BY <2>7, <3>2, <3>3, ChecksCreationDoes
  <2>8. CASE RegisterContext(t)
    BY <2>8 DEF RegisterContext, Goto, TypeOK, HoldInv, Holding, switchVars, poolVars,
       registryVars, threadVars, reloadVars
  <2>9. CASE RetainDatabase(t)
    BY <2>9 DEF RetainDatabase, Goto, TypeOK, HoldInv, Holding, switchVars, poolVars,
       registryVars, threadVars, reloadVars
  <2>10. CASE JoinsPool(t)
    BY <2>10 DEF JoinsPool, Goto, TypeOK, HoldInv, Holding, switchVars, poolVars,
       registryVars, threadVars, reloadVars
  <2>11. CASE ScriptLooksUp(t)
    BY <2>11 DEF ScriptLooksUp, Goto, TypeOK, HoldInv, Holding, switchVars, poolVars,
       registryVars, threadVars, reloadVars
  <2>12. CASE GetApplications(t)
    BY <2>12 DEF GetApplications, Goto, TypeOK, HoldInv, Holding, switchVars, poolVars,
       registryVars, threadVars, reloadVars
  <2>13. CASE ReleaseContext(t)
    <3>1. /\ tpc[t] \in {"using", "ending"}
          /\ used' = [used EXCEPT ![home[t]] = used[home[t]] \ {held[t]}]
          /\ UNCHANGED <<home, next, switchVars, registryVars, appsOwner, reloadVars>>
      BY <2>13, ReleaseContextDoes
    <3>2. CASE /\ unused' = [unused EXCEPT ![home[t]] = unused[home[t]] \cup {held[t]}]
               /\ held' = [held EXCEPT ![t] = None]
               /\ tpc' = [tpc EXCEPT ![t] = "idle"]
      BY <3>1, <3>2 DEF TypeOK, HoldInv, Holding,
         switchVars, poolVars, registryVars, threadVars, reloadVars
    <3>3. CASE tpc' = [tpc EXCEPT ![t] = "detach"] /\ unused' = unused /\ held' = held
      BY <3>1, <3>3 DEF TypeOK, HoldInv, Holding,
         switchVars, poolVars, registryVars, threadVars, reloadVars
    <3>4. QED
      BY <2>13, <3>2, <3>3, ReleaseContextDoes
  <2>14. CASE DetachSolution(t)
    BY <2>14 DEF DetachSolution, UnRegisterContext, Goto, TypeOK, HoldInv, Holding,
       switchVars, poolVars, registryVars, threadVars, reloadVars
  <2>15. QED
    BY <1>1, <2>1, <2>2, <2>3, <2>4, <2>5, <2>6, <2>7, <2>8, <2>9, <2>10, <2>11, <2>12,
       <2>13, <2>14 DEF ThreadNext
<1>2. ASSUME NEW p \in Reloaders, ReloadCatalog(p) \/ ReloadNext(p)
      PROVE  HoldInv'
  <2>1. CASE ReloadCatalog(p)
    BY <2>1 DEF ReloadCatalog, RGoto, TypeOK, HoldInv, Holding, switchVars, poolVars,
       registryVars, threadVars, reloadVars
  <2>2. CASE PostServicesMessage(p)
    BY <2>2 DEF PostServicesMessage, RetainContext, Goto, RGoto, TypeOK, HoldInv,
       Holding, switchVars, poolVars, registryVars, threadVars, reloadVars
  <2>3. CASE TestDatabase(p)
    BY <2>3 DEF TestDatabase, RGoto, TypeOK, HoldInv, Holding, switchVars, poolVars,
       registryVars, threadVars, reloadVars
  <2>4. CASE DisableContexts(p)
    BY <2>4 DEF DisableContexts, RGoto, TypeOK, HoldInv, Holding, switchVars, poolVars,
       registryVars, threadVars, reloadVars
  <2>4a. CASE DisablePool(p)
    BY <2>4a DEF DisablePool, RGoto, TypeOK, HoldInv, Holding, switchVars, poolVars,
       registryVars, threadVars, reloadVars
  <2>5. CASE DropAllJSContexts(p)
    BY <2>5 DEF DropAllJSContexts, RGoto, TypeOK, HoldInv, Holding, switchVars,
       poolVars, registryVars, threadVars, reloadVars
  <2>6. CASE ClearDisables(p)
    BY <2>6 DEF ClearDisables, RGoto, TypeOK, HoldInv, Holding, switchVars, poolVars,
       registryVars, threadVars, reloadVars
  <2>6a. CASE ClearSavesState(p)
    BY <2>6a DEF ClearSavesState, RGoto, TypeOK, HoldInv, Holding, switchVars, poolVars,
       registryVars, threadVars, reloadVars
  <2>7. CASE ClearLooks(p)
    BY <2>7 DEF ClearLooks, RGoto, TypeOK, HoldInv, Holding, switchVars, poolVars,
       registryVars, threadVars, reloadVars
  <2>8. CASE Wakes(p)
    BY <2>8 DEF Wakes, RGoto, TypeOK, HoldInv, Holding, switchVars, poolVars,
       registryVars, threadVars, reloadVars
  <2>9. CASE ClearSweeps(p)
    BY <2>9 DEF ClearSweeps, UnRegisterContext, TypeOK, HoldInv, Holding, switchVars,
       poolVars, registryVars, threadVars, reloadVars
  <2>10. CASE ClearRestores(p)
    BY <2>10 DEF ClearRestores, RGoto, TypeOK, HoldInv, Holding, switchVars, poolVars,
       registryVars, threadVars, reloadVars
  <2>11. CASE ReleaseOwnContext(p)
    BY <2>11 DEF ReleaseOwnContext, UnRegisterContext, RGoto, TypeOK, HoldInv, Holding,
       switchVars, poolVars, registryVars, threadVars, reloadVars
  <2>12. CASE WaitForRegisteredContextsCountZero(p)
    BY <2>12 DEF WaitForRegisteredContextsCountZero, RGoto, TypeOK, HoldInv, Holding,
       switchVars, poolVars, registryVars, threadVars, reloadVars
  <2>13. CASE CloseDatabase(p)
    BY <2>13 DEF CloseDatabase, RGoto, TypeOK, HoldInv, Holding, switchVars, poolVars,
       registryVars, threadVars, reloadVars
  <2>14. CASE OpenDatabase(p)
    BY <2>14 DEF OpenDatabase, RGoto, TypeOK, HoldInv, Holding, switchVars, poolVars,
       registryVars, threadVars, reloadVars
  <2>15. CASE RestoreContexts(p)
    BY <2>15 DEF RestoreContexts, RGoto, TypeOK, HoldInv, Holding, switchVars,
       poolVars, registryVars, threadVars, reloadVars
  <2>16. CASE ReloadEnds(p)
    BY <2>16 DEF ReloadEnds, UnRegisterContext, RGoto, TypeOK, HoldInv, Holding,
       switchVars, poolVars, registryVars, threadVars, reloadVars
  <2>17. QED
    BY <1>2, <2>1, <2>2, <2>3, <2>4, <2>4a, <2>5, <2>6, <2>6a, <2>7, <2>8,
       <2>9, <2>10, <2>11, <2>12, <2>13, <2>14, <2>15, <2>16 DEF ReloadNext
<1>3. CASE UNCHANGED vars
  BY <1>3 DEF vars, TypeOK, HoldInv, Holding, switchVars, poolVars, registryVars,
     threadVars, reloadVars
<1>4. QED
  BY <1>1, <1>2, <1>3 DEF Next

\* Nobody unregisters the context that another thread is attaching.
LEMMA LoopStep ==
  ASSUME ReloadInv, [Next]_vars
  PROVE  LoopInv'
<1> USE CatalogAssumption, OrderFacts DEF ReloadInv, Threads
<1>1. ASSUME NEW t \in Threads, RequestRetains(t) \/ ThreadNext(t)
      PROVE  LoopInv'
  <2>1. CASE RequestRetains(t)
    BY <2>1 DEF RequestRetains, RetainContext, Goto, TypeOK, HoldInv, Holding, LoopInv,
       switchVars, poolVars, registryVars, threadVars, reloadVars
  <2>2. CASE TakeUnused(t)
    BY <2>2 DEF TakeUnused, Goto, TypeOK, HoldInv, Holding, LoopInv, switchVars,
       poolVars, registryVars, threadVars, reloadVars
  <2>3. CASE FindStale(t)
    BY <2>3 DEF FindStale, Goto, TypeOK, HoldInv, Holding, LoopInv, switchVars,
       poolVars, registryVars, threadVars, reloadVars
  <2>4. CASE DiscardStale(t)
    BY <2>4 DEF DiscardStale, UnRegisterContext, Goto, TypeOK, HoldInv, Holding,
       LoopInv, switchVars, poolVars, registryVars, threadVars, reloadVars
  <2>5. CASE FindNoUnused(t)
    BY <2>5 DEF FindNoUnused, Goto, TypeOK, HoldInv, Holding, LoopInv, switchVars,
       poolVars, registryVars, threadVars, reloadVars
  <2>6. CASE AttachSolution(t)
    BY <2>6 DEF AttachSolution, FreshContexts, Goto, TypeOK, HoldInv, Holding, LoopInv,
       switchVars, poolVars, registryVars, threadVars, reloadVars
  <2>7. CASE ChecksCreation(t)
    <3>1. /\ tpc[t] = "attach" /\ next[t] <= Len(Order)
          /\ UNCHANGED <<home, held, switchVars, poolVars, registryVars, appsOwner, reloadVars,
                          woken>>
      BY <2>7, ChecksCreationDoes
    <3>2. CASE tpc' = [tpc EXCEPT ![t] = "enter"] /\ next' = next
      BY <3>1, <3>2 DEF TypeOK, HoldInv, Holding, LoopInv,
         switchVars, poolVars, registryVars, threadVars, reloadVars
    <3>3. CASE tpc' = tpc /\ next' = [next EXCEPT ![t] = next[t] + 1]
      BY <3>1, <3>3 DEF TypeOK, HoldInv, Holding, LoopInv,
         switchVars, poolVars, registryVars, threadVars, reloadVars
    <3>4. QED
      BY <2>7, <3>2, <3>3, ChecksCreationDoes
  <2>8. CASE RegisterContext(t)
    BY <2>8 DEF RegisterContext, Goto, TypeOK, HoldInv, Holding, LoopInv, switchVars,
       poolVars, registryVars, threadVars, reloadVars
  <2>9. CASE RetainDatabase(t)
    BY <2>9 DEF RetainDatabase, Goto, TypeOK, HoldInv, Holding, LoopInv, switchVars,
       poolVars, registryVars, threadVars, reloadVars
  <2>10. CASE JoinsPool(t)
    BY <2>10 DEF JoinsPool, Goto, TypeOK, HoldInv, Holding, LoopInv, switchVars,
       poolVars, registryVars, threadVars, reloadVars
  <2>11. CASE ScriptLooksUp(t)
    BY <2>11 DEF ScriptLooksUp, Goto, TypeOK, HoldInv, Holding, LoopInv, switchVars,
       poolVars, registryVars, threadVars, reloadVars
  <2>12. CASE GetApplications(t)
    BY <2>12 DEF GetApplications, Goto, TypeOK, HoldInv, Holding, LoopInv, switchVars,
       poolVars, registryVars, threadVars, reloadVars
  <2>13. CASE ReleaseContext(t)
    BY <2>13 DEF ReleaseContext, WakePoolWaiters, Goto, TypeOK, HoldInv, Holding,
       LoopInv, switchVars, poolVars, registryVars, threadVars, reloadVars
  <2>14. CASE DetachSolution(t)
    BY <2>14 DEF DetachSolution, UnRegisterContext, Goto, TypeOK, HoldInv, Holding,
       LoopInv, switchVars, poolVars, registryVars, threadVars, reloadVars
  <2>15. QED
    BY <1>1, <2>1, <2>2, <2>3, <2>4, <2>5, <2>6, <2>7, <2>8, <2>9, <2>10, <2>11, <2>12,
       <2>13, <2>14 DEF ThreadNext
<1>2. ASSUME NEW p \in Reloaders, ReloadCatalog(p) \/ ReloadNext(p)
      PROVE  LoopInv'
  <2>1. CASE ReloadCatalog(p)
    BY <2>1 DEF ReloadCatalog, RGoto, TypeOK, HoldInv, Holding, LoopInv, switchVars,
       poolVars, registryVars, threadVars, reloadVars
  <2>2. CASE PostServicesMessage(p)
    BY <2>2 DEF PostServicesMessage, RetainContext, Goto, RGoto, TypeOK, HoldInv,
       Holding, LoopInv, switchVars, poolVars, registryVars, threadVars, reloadVars
  <2>3. CASE TestDatabase(p)
    BY <2>3 DEF TestDatabase, RGoto, TypeOK, HoldInv, Holding, LoopInv, switchVars,
       poolVars, registryVars, threadVars, reloadVars
  <2>4. CASE DisableContexts(p)
    BY <2>4 DEF DisableContexts, RGoto, TypeOK, HoldInv, Holding, LoopInv, switchVars,
       poolVars, registryVars, threadVars, reloadVars
  <2>4a. CASE DisablePool(p)
    BY <2>4a DEF DisablePool, RGoto, TypeOK, HoldInv, Holding, LoopInv, switchVars,
       poolVars, registryVars, threadVars, reloadVars
  <2>5. CASE DropAllJSContexts(p)
    BY <2>5 DEF DropAllJSContexts, RGoto, TypeOK, HoldInv, Holding, LoopInv,
       switchVars, poolVars, registryVars, threadVars, reloadVars
  <2>6. CASE ClearDisables(p)
    BY <2>6 DEF ClearDisables, RGoto, TypeOK, HoldInv, Holding, LoopInv, switchVars,
       poolVars, registryVars, threadVars, reloadVars
  <2>6a. CASE ClearSavesState(p)
    BY <2>6a DEF ClearSavesState, RGoto, TypeOK, HoldInv, Holding, LoopInv, switchVars,
       poolVars, registryVars, threadVars, reloadVars
  <2>7. CASE ClearLooks(p)
    BY <2>7 DEF ClearLooks, RGoto, TypeOK, HoldInv, Holding, LoopInv, switchVars,
       poolVars, registryVars, threadVars, reloadVars
  <2>8. CASE Wakes(p)
    BY <2>8 DEF Wakes, RGoto, TypeOK, HoldInv, Holding, LoopInv, switchVars, poolVars,
       registryVars, threadVars, reloadVars
  <2>9. CASE ClearSweeps(p)
    <3>1. PICK c \in unused[Order[at[p]]] :
              /\ unused' = [unused EXCEPT ![Order[at[p]]] = @ \ {c}]
              /\ UnRegisterContext(c, Apps)
      BY <2>9 DEF ClearSweeps
    <3>2. c \in Contexts /\ \A x \in Threads : held[x] # c
      BY <3>1 DEF TypeOK, HoldInv
    <3>3. QED
      BY <2>9, <3>1, <3>2 DEF ClearSweeps, UnRegisterContext, TypeOK,
       HoldInv, Holding, LoopInv, switchVars, poolVars, registryVars, threadVars,
       reloadVars
  <2>10. CASE ClearRestores(p)
    BY <2>10 DEF ClearRestores, RGoto, TypeOK, HoldInv, Holding, LoopInv, switchVars,
       poolVars, registryVars, threadVars, reloadVars
  <2>11. CASE ReleaseOwnContext(p)
    BY <2>11 DEF ReleaseOwnContext, UnRegisterContext, RGoto, TypeOK, HoldInv, Holding,
       LoopInv, switchVars, poolVars, registryVars, threadVars, reloadVars
  <2>12. CASE WaitForRegisteredContextsCountZero(p)
    BY <2>12 DEF WaitForRegisteredContextsCountZero, RGoto, TypeOK, HoldInv, Holding,
       LoopInv, switchVars, poolVars, registryVars, threadVars, reloadVars
  <2>13. CASE CloseDatabase(p)
    BY <2>13 DEF CloseDatabase, RGoto, TypeOK, HoldInv, Holding, LoopInv, switchVars,
       poolVars, registryVars, threadVars, reloadVars
  <2>14. CASE OpenDatabase(p)
    BY <2>14 DEF OpenDatabase, RGoto, TypeOK, HoldInv, Holding, LoopInv, switchVars,
       poolVars, registryVars, threadVars, reloadVars
  <2>15. CASE RestoreContexts(p)
    BY <2>15 DEF RestoreContexts, RGoto, TypeOK, HoldInv, Holding, LoopInv, switchVars,
       poolVars, registryVars, threadVars, reloadVars
  <2>16. CASE ReloadEnds(p)
    BY <2>16 DEF ReloadEnds, UnRegisterContext, RGoto, TypeOK, HoldInv, Holding,
       LoopInv, switchVars, poolVars, registryVars, threadVars, reloadVars
  <2>17. QED
    BY <1>2, <2>1, <2>2, <2>3, <2>4, <2>4a, <2>5, <2>6, <2>6a, <2>7, <2>8,
       <2>9, <2>10, <2>11, <2>12, <2>13, <2>14, <2>15, <2>16 DEF ReloadNext
<1>3. CASE UNCHANGED vars
  BY <1>3 DEF vars, TypeOK, HoldInv, Holding, LoopInv, switchVars, poolVars,
     registryVars, threadVars, reloadVars
<1>4. QED
  BY <1>1, <1>2, <1>3 DEF Next

\* Contexts move between pools and threads without being lost; those that are
\* destroyed are unregistered in the same step.
LEMMA RegistrationStep ==
  ASSUME ReloadInv, [Next]_vars
  PROVE  RegistrationInv'
<1> USE CatalogAssumption, OrderFacts DEF ReloadInv, Threads
<1>1. ASSUME NEW t \in Threads, RequestRetains(t) \/ ThreadNext(t)
      PROVE  RegistrationInv'
  <2>1. CASE RequestRetains(t)
    <3>1. UNCHANGED <<registered, based, unused, held>>
      BY <2>1 DEF RequestRetains, RetainContext, poolVars, registryVars, reloadVars
    <3>2. \A q \in Reloaders : rpc[q] # "idle" => rpc'[q] # "idle"
      BY <2>1 DEF RequestRetains, RetainContext, poolVars, registryVars, reloadVars, TypeOK
    <3>3. QED
      BY <3>1, <3>2, RegistrationKept
  <2>2. CASE TakeUnused(t)
    <3>1. PICK c \in unused[home[t]] :
              /\ unused' = [unused EXCEPT ![home[t]] = @ \ {c}]
              /\ held' = [held EXCEPT ![t] = c]
      BY <2>2 DEF TakeUnused
    <3>2. held[t] = None
      BY <2>2 DEF TakeUnused, TypeOK, HoldInv, Holding
    <3>3. \A d \in Contexts : Placed(d) => Placed(d)'
      BY <3>1, <3>2, PlacedMoves
    <3>4. UNCHANGED <<registered, based, rpc>>
      BY <2>2 DEF TakeUnused, registryVars, reloadVars
    <3>5. QED
      BY <3>3, <3>4 DEF RegistrationInv
  <2>3. CASE FindStale(t)
    <3>1. PICK c \in unused[home[t]] :
              /\ unused' = [unused EXCEPT ![home[t]] = @ \ {c}]
              /\ held' = [held EXCEPT ![t] = c]
      BY <2>3 DEF FindStale
    <3>2. held[t] = None
      BY <2>3 DEF FindStale, TypeOK, HoldInv, Holding
    <3>3. \A d \in Contexts : Placed(d) => Placed(d)'
      BY <3>1, <3>2, PlacedMoves
    <3>4. UNCHANGED <<registered, based, rpc>>
      BY <2>3 DEF FindStale, registryVars, reloadVars
    <3>5. QED
      BY <3>3, <3>4 DEF RegistrationInv
  <2>4. CASE DiscardStale(t)
    BY <2>4 DEF DiscardStale, UnRegisterContext, Goto, TypeOK, HoldInv, Holding,
       LoopInv, RegistrationInv, Placed, switchVars, poolVars, registryVars,
       threadVars, reloadVars
  <2>5. CASE FindNoUnused(t)
    BY <2>5 DEF FindNoUnused, Goto, TypeOK, HoldInv, Holding, LoopInv, RegistrationInv,
       Placed, switchVars, poolVars, registryVars, threadVars, reloadVars
  <2>6. CASE AttachSolution(t)
    <3>1. PICK c \in FreshContexts : held' = [held EXCEPT ![t] = c]
      BY <2>6 DEF AttachSolution
    <3>2. held[t] = None /\ unused' = unused
      BY <2>6 DEF AttachSolution, TypeOK, HoldInv, Holding, poolVars
    <3>3. \A d \in Contexts : Placed(d) => Placed(d)'
      BY <3>1, <3>2 DEF Placed, TypeOK
    <3>4. UNCHANGED <<registered, based, rpc>>
      BY <2>6 DEF AttachSolution, registryVars, reloadVars
    <3>5. QED
      BY <3>3, <3>4 DEF RegistrationInv
  <2>7. CASE ChecksCreation(t)
    BY <2>7 DEF ChecksCreation, Goto, TypeOK, HoldInv, Holding, LoopInv,
       RegistrationInv, Placed, switchVars, poolVars, registryVars, threadVars,
       reloadVars
  <2>8. CASE RegisterContext(t)
    <3>1. \A c : Placed(c) => Placed(c)'
      BY <2>8 DEF RegisterContext, Placed, poolVars
    <3>2. held[t] \in Contexts /\ Placed(held[t])
      BY <2>8 DEF RegisterContext, TypeOK, HoldInv, Holding, Placed
    <3>3. /\ registered' = [registered EXCEPT ![Order[next[t]]] = @ \cup {held[t]}]
          /\ UNCHANGED <<based, rpc>>
      BY <2>8 DEF RegisterContext, reloadVars
    <3>4. QED
      BY <3>1, <3>2, <3>3 DEF RegistrationInv, TypeOK
  <2>9. CASE RetainDatabase(t)
    <3>1. \A c : Placed(c) => Placed(c)'
      BY <2>9 DEF RetainDatabase, Placed, poolVars
    <3>2. \/ based' = [based EXCEPT ![Order[next[t]]] = based[Order[next[t]]] \cup {held[t]}]
          \/ based' = based
      BY <2>9 DEF RetainDatabase
    <3>3. UNCHANGED <<registered, rpc>> /\ held[t] \in registered[Order[next[t]]]
      BY <2>9 DEF RetainDatabase, LoopInv, reloadVars
    <3>4. CASE based' = [based EXCEPT ![Order[next[t]]] = based[Order[next[t]]] \cup {held[t]}]
      BY <3>1, <3>3, <3>4 DEF RegistrationInv, TypeOK
    <3>5. CASE based' = based
      BY <3>1, <3>3, <3>5 DEF RegistrationInv
    <3>6. QED
      BY <3>2, <3>4, <3>5
  <2>10. CASE JoinsPool(t)
    BY <2>10 DEF JoinsPool, Goto, TypeOK, HoldInv, Holding, LoopInv, RegistrationInv,
       Placed, switchVars, poolVars, registryVars, threadVars, reloadVars
  <2>11. CASE ScriptLooksUp(t)
    BY <2>11 DEF ScriptLooksUp, Goto, TypeOK, HoldInv, Holding, LoopInv,
       RegistrationInv, Placed, switchVars, poolVars, registryVars, threadVars,
       reloadVars
  <2>12. CASE GetApplications(t)
    BY <2>12 DEF GetApplications, Goto, TypeOK, HoldInv, Holding, LoopInv,
       RegistrationInv, Placed, switchVars, poolVars, registryVars, threadVars,
       reloadVars
  <2>13. CASE ReleaseContext(t)
    <3>1. \A c \in Contexts : Placed(c) => Placed(c)'
      <4>1. CASE /\ unused' = [unused EXCEPT ![home[t]] = unused[home[t]] \cup {held[t]}]
                 /\ held' = [held EXCEPT ![t] = None]
        BY <4>1 DEF Placed, TypeOK
      <4>2. CASE unused' = unused /\ held' = held
        BY <4>2 DEF Placed
      <4>3. QED
        BY <2>13, <4>1, <4>2, ReleaseContextDoes
    <3>2. UNCHANGED <<registered, based, rpc>>
      BY <2>13, ReleaseContextDoes DEF registryVars, reloadVars
    <3>3. QED
      BY <3>1, <3>2 DEF RegistrationInv
  <2>14. CASE DetachSolution(t)
    BY <2>14 DEF DetachSolution, UnRegisterContext, Goto, TypeOK, HoldInv, Holding,
       LoopInv, RegistrationInv, Placed, switchVars, poolVars, registryVars,
       threadVars, reloadVars
  <2>15. QED
    BY <1>1, <2>1, <2>2, <2>3, <2>4, <2>5, <2>6, <2>7, <2>8, <2>9, <2>10, <2>11, <2>12,
       <2>13, <2>14 DEF ThreadNext
<1>2. ASSUME NEW p \in Reloaders, ReloadCatalog(p) \/ ReloadNext(p)
      PROVE  RegistrationInv'
  <2>1. CASE ReloadCatalog(p)
    <3>1. \A c : Placed(c) => Placed(c)'
      BY <2>1 DEF ReloadCatalog, Placed, poolVars, threadVars
    <3>2. /\ registered' = [registered EXCEPT ![p] = @ \cup {p}] /\ based' = based
          /\ rpc' = [rpc EXCEPT ![p] = "willReload"]
      BY <2>1 DEF ReloadCatalog, RGoto
    <3>3. QED
      BY <3>1, <3>2 DEF RegistrationInv, TypeOK
  <2>2. CASE PostServicesMessage(p)
    <3>1. UNCHANGED <<registered, based, unused, held>>
      BY <2>2 DEF PostServicesMessage, RetainContext, RGoto, poolVars, registryVars,
         threadVars, reloadVars
    <3>2. \A q \in Reloaders : rpc[q] # "idle" => rpc'[q] # "idle"
      BY <2>2 DEF PostServicesMessage, RetainContext, RGoto, poolVars, registryVars,
         threadVars, reloadVars, TypeOK
    <3>3. QED
      BY <3>1, <3>2, RegistrationKept
  <2>3. CASE TestDatabase(p)
    BY <2>3 DEF TestDatabase, RGoto, TypeOK, HoldInv, Holding, LoopInv,
       RegistrationInv, Placed, switchVars, poolVars, registryVars, threadVars,
       reloadVars
  <2>4. CASE DisableContexts(p)
    BY <2>4 DEF DisableContexts, RGoto, TypeOK, HoldInv, Holding, LoopInv,
       RegistrationInv, Placed, switchVars, poolVars, registryVars, threadVars,
       reloadVars
  <2>4a. CASE DisablePool(p)
    BY <2>4a DEF DisablePool, RGoto, TypeOK, HoldInv, Holding, LoopInv,
       RegistrationInv, Placed, switchVars, poolVars, registryVars, threadVars,
       reloadVars
  <2>5. CASE DropAllJSContexts(p)
    BY <2>5 DEF DropAllJSContexts, RGoto, TypeOK, HoldInv, Holding, LoopInv,
       RegistrationInv, Placed, switchVars, poolVars, registryVars, threadVars,
       reloadVars
  <2>6. CASE ClearDisables(p)
    BY <2>6 DEF ClearDisables, RGoto, TypeOK, HoldInv, Holding, LoopInv,
       RegistrationInv, Placed, switchVars, poolVars, registryVars, threadVars,
       reloadVars
  <2>6a. CASE ClearSavesState(p)
    BY <2>6a DEF ClearSavesState, RGoto, TypeOK, HoldInv, Holding, LoopInv,
       RegistrationInv, Placed, switchVars, poolVars, registryVars, threadVars,
       reloadVars
  <2>7. CASE ClearLooks(p)
    BY <2>7 DEF ClearLooks, RGoto, TypeOK, HoldInv, Holding, LoopInv, RegistrationInv,
       Placed, switchVars, poolVars, registryVars, threadVars, reloadVars
  <2>8. CASE Wakes(p)
    <3>1. UNCHANGED <<registered, based, unused, held>>
      BY <2>8 DEF Wakes, RGoto, poolVars, registryVars, threadVars, reloadVars
    <3>2. \A q \in Reloaders : rpc[q] # "idle" => rpc'[q] # "idle"
      BY <2>8 DEF Wakes, RGoto, poolVars, registryVars, threadVars, reloadVars, TypeOK
    <3>3. QED
      BY <3>1, <3>2, RegistrationKept
  <2>9. CASE ClearSweeps(p)
    <3>1. PICK c \in unused[Order[at[p]]] :
              /\ unused' = [unused EXCEPT ![Order[at[p]]] = @ \ {c}]
              /\ UnRegisterContext(c, Apps)
      BY <2>9 DEF ClearSweeps
    <3>2. held' = held /\ rpc' = rpc
      BY <2>9 DEF ClearSweeps, threadVars, reloadVars
    <3>3. \A d : Placed(d) /\ d # c => Placed(d)'
      BY <3>1, <3>2 DEF Placed, TypeOK
    <3>4. \A q \in Apps : /\ registered'[q] = registered[q] \ {c}
                         /\ based'[q] = based[q] \ {c}
      BY <3>1 DEF UnRegisterContext
    <3>5. QED
      BY <3>2, <3>3, <3>4 DEF RegistrationInv
  <2>10. CASE ClearRestores(p)
    <3>1. UNCHANGED <<registered, based, unused, held>>
      BY <2>10, ClearRestoresDoes DEF poolVars, registryVars, threadVars
    <3>2. PICK step \in {"clear", "leave"} : rpc' = [rpc EXCEPT ![p] = step]
      BY <2>10, ClearRestoresDoes
    <3>3. \A q \in Reloaders : rpc[q] # "idle" => rpc'[q] # "idle"
      BY <3>2 DEF TypeOK
    <3>4. QED
      BY <3>1, <3>3, RegistrationKept
  <2>11. CASE ReleaseOwnContext(p)
    BY <2>11 DEF ReleaseOwnContext, UnRegisterContext, RGoto, TypeOK, HoldInv, Holding,
       LoopInv, RegistrationInv, Placed, switchVars, poolVars, registryVars,
       threadVars, reloadVars
  <2>12. CASE WaitForRegisteredContextsCountZero(p)
    BY <2>12 DEF WaitForRegisteredContextsCountZero, RGoto, TypeOK, HoldInv, Holding,
       LoopInv, RegistrationInv, Placed, switchVars, poolVars, registryVars,
       threadVars, reloadVars
  <2>13. CASE CloseDatabase(p)
    BY <2>13 DEF CloseDatabase, RGoto, TypeOK, HoldInv, Holding, LoopInv,
       RegistrationInv, Placed, switchVars, poolVars, registryVars, threadVars,
       reloadVars
  <2>14. CASE OpenDatabase(p)
    BY <2>14 DEF OpenDatabase, RGoto, TypeOK, HoldInv, Holding, LoopInv,
       RegistrationInv, Placed, switchVars, poolVars, registryVars, threadVars,
       reloadVars
  <2>15. CASE RestoreContexts(p)
    BY <2>15 DEF RestoreContexts, RGoto, TypeOK, HoldInv, Holding, LoopInv,
       RegistrationInv, Placed, switchVars, poolVars, registryVars, threadVars,
       reloadVars
  <2>16. CASE ReloadEnds(p)
    BY <2>16 DEF ReloadEnds, UnRegisterContext, RGoto, TypeOK, HoldInv, Holding,
       LoopInv, RegistrationInv, Placed, switchVars, poolVars, registryVars,
       threadVars, reloadVars
  <2>17. QED
    BY <1>2, <2>1, <2>2, <2>3, <2>4, <2>4a, <2>5, <2>6, <2>6a, <2>7, <2>8,
       <2>9, <2>10, <2>11, <2>12, <2>13, <2>14, <2>15, <2>16 DEF ReloadNext
<1>3. CASE UNCHANGED vars
  BY <1>3 DEF vars, TypeOK, HoldInv, Holding, LoopInv, RegistrationInv, Placed,
     switchVars, poolVars, registryVars, threadVars, reloadVars
<1>4. QED
  BY <1>1, <1>2, <1>3 DEF Next

\* The unregistration that empties the set wakes the reload, and only it does.
LEMMA WaitStep ==
  ASSUME ReloadInv, [Next]_vars
  PROVE  WaitInv'
<1> USE CatalogAssumption, OrderFacts DEF ReloadInv, Threads
<1>1. ASSUME NEW t \in Threads, RequestRetains(t) \/ ThreadNext(t)
      PROVE  WaitInv'
  <2>1. CASE RequestRetains(t)
    BY <2>1 DEF RequestRetains, RetainContext, Goto, TypeOK, HoldInv, Holding, WaitInv,
       switchVars, poolVars, registryVars, threadVars, reloadVars
  <2>2. CASE TakeUnused(t)
    BY <2>2 DEF TakeUnused, Goto, TypeOK, HoldInv, Holding, WaitInv, switchVars,
       poolVars, registryVars, threadVars, reloadVars
  <2>3. CASE FindStale(t)
    BY <2>3 DEF FindStale, Goto, TypeOK, HoldInv, Holding, WaitInv, switchVars,
       poolVars, registryVars, threadVars, reloadVars
  <2>4. CASE DiscardStale(t)
    BY <2>4 DEF DiscardStale, UnRegisterContext, Goto, TypeOK, HoldInv, Holding,
       WaitInv, switchVars, poolVars, registryVars, threadVars, reloadVars
  <2>5. CASE FindNoUnused(t)
    BY <2>5 DEF FindNoUnused, Goto, TypeOK, HoldInv, Holding, WaitInv, switchVars,
       poolVars, registryVars, threadVars, reloadVars
  <2>6. CASE AttachSolution(t)
    BY <2>6 DEF AttachSolution, FreshContexts, Goto, TypeOK, HoldInv, Holding, WaitInv,
       switchVars, poolVars, registryVars, threadVars, reloadVars
  <2>7. CASE ChecksCreation(t)
    BY <2>7 DEF ChecksCreation, Goto, TypeOK, HoldInv, Holding, WaitInv, switchVars,
       poolVars, registryVars, threadVars, reloadVars
  <2>8. CASE RegisterContext(t)
    BY <2>8 DEF RegisterContext, Goto, TypeOK, HoldInv, Holding, WaitInv, switchVars,
       poolVars, registryVars, threadVars, reloadVars
  <2>9. CASE RetainDatabase(t)
    BY <2>9 DEF RetainDatabase, Goto, TypeOK, HoldInv, Holding, WaitInv, switchVars,
       poolVars, registryVars, threadVars, reloadVars
  <2>10. CASE JoinsPool(t)
    BY <2>10 DEF JoinsPool, Goto, TypeOK, HoldInv, Holding, WaitInv, switchVars,
       poolVars, registryVars, threadVars, reloadVars
  <2>11. CASE ScriptLooksUp(t)
    BY <2>11 DEF ScriptLooksUp, Goto, TypeOK, HoldInv, Holding, WaitInv, switchVars,
       poolVars, registryVars, threadVars, reloadVars
  <2>12. CASE GetApplications(t)
    BY <2>12 DEF GetApplications, Goto, TypeOK, HoldInv, Holding, WaitInv, switchVars,
       poolVars, registryVars, threadVars, reloadVars
  <2>13. CASE ReleaseContext(t)
    BY <2>13 DEF ReleaseContext, WakePoolWaiters, Goto, TypeOK, HoldInv, Holding,
       WaitInv, switchVars, poolVars, registryVars, threadVars, reloadVars
  <2>14. CASE DetachSolution(t)
    BY <2>14 DEF DetachSolution, UnRegisterContext, Goto, TypeOK, HoldInv, Holding,
       WaitInv, switchVars, poolVars, registryVars, threadVars, reloadVars
  <2>15. QED
    BY <1>1, <2>1, <2>2, <2>3, <2>4, <2>5, <2>6, <2>7, <2>8, <2>9, <2>10, <2>11, <2>12,
       <2>13, <2>14 DEF ThreadNext
<1>2. ASSUME NEW p \in Reloaders, ReloadCatalog(p) \/ ReloadNext(p)
      PROVE  WaitInv'
  <2>1. CASE ReloadCatalog(p)
    BY <2>1 DEF ReloadCatalog, RGoto, TypeOK, HoldInv, Holding, WaitInv, switchVars,
       poolVars, registryVars, threadVars, reloadVars
  <2>2. CASE PostServicesMessage(p)
    BY <2>2 DEF PostServicesMessage, RetainContext, Goto, RGoto, TypeOK, HoldInv,
       Holding, WaitInv, switchVars, poolVars, registryVars, threadVars, reloadVars
  <2>3. CASE TestDatabase(p)
    BY <2>3 DEF TestDatabase, RGoto, TypeOK, HoldInv, Holding, WaitInv, switchVars,
       poolVars, registryVars, threadVars, reloadVars
  <2>4. CASE DisableContexts(p)
    BY <2>4 DEF DisableContexts, RGoto, TypeOK, HoldInv, Holding, WaitInv, switchVars,
       poolVars, registryVars, threadVars, reloadVars
  <2>4a. CASE DisablePool(p)
    BY <2>4a DEF DisablePool, RGoto, TypeOK, HoldInv, Holding, WaitInv, switchVars,
       poolVars, registryVars, threadVars, reloadVars
  <2>5. CASE DropAllJSContexts(p)
    BY <2>5 DEF DropAllJSContexts, RGoto, TypeOK, HoldInv, Holding, WaitInv,
       switchVars, poolVars, registryVars, threadVars, reloadVars
  <2>6. CASE ClearDisables(p)
    BY <2>6 DEF ClearDisables, RGoto, TypeOK, HoldInv, Holding, WaitInv, switchVars,
       poolVars, registryVars, threadVars, reloadVars
  <2>6a. CASE ClearSavesState(p)
    BY <2>6a DEF ClearSavesState, RGoto, TypeOK, HoldInv, Holding, WaitInv, switchVars,
       poolVars, registryVars, threadVars, reloadVars
  <2>7. CASE ClearLooks(p)
    BY <2>7 DEF ClearLooks, RGoto, TypeOK, HoldInv, Holding, WaitInv, switchVars,
       poolVars, registryVars, threadVars, reloadVars
  <2>8. CASE Wakes(p)
    BY <2>8 DEF Wakes, RGoto, TypeOK, HoldInv, Holding, WaitInv, switchVars, poolVars,
       registryVars, threadVars, reloadVars
  <2>9. CASE ClearSweeps(p)
    <3>1. PICK c : UnRegisterContext(c, Apps)
      BY <2>9 DEF ClearSweeps
    <3>2. rpc' = rpc
      BY <2>9 DEF ClearSweeps, reloadVars
    <3>3. ASSUME NEW q \in Reloaders
          PROVE  /\ registered'[q] = registered[q] \ {c}
                 /\ awaited'[q] = awaited[q] \ {c}
                 /\ woken'[q] <=> woken[q] \/ (rpc[q] = "waitRia" /\ registered'[q] = {})
      BY <3>1 DEF UnRegisterContext
    <3>4. QED
      BY <3>2, <3>3 DEF WaitInv
  <2>10. CASE ClearRestores(p)
    <3>1. /\ rpc[p] = "sweep"
          /\ UNCHANGED <<creation, database, poolVars, registryVars, threadVars, phase,
                         savedContexts, savedClear, woken>>
      BY <2>10, ClearRestoresDoes
    <3>2. CASE /\ at[p] < Len(Order) /\ at' = [at EXCEPT ![p] = at[p] + 1]
               /\ rpc' = [rpc EXCEPT ![p] = "clear"] /\ appsOwner' = appsOwner
      BY <3>1, <3>2 DEF TypeOK, WaitInv,
         switchVars, poolVars, registryVars, threadVars, reloadVars
    <3>3. CASE at' = at /\ rpc' = [rpc EXCEPT ![p] = "leave"] /\ appsOwner' = None
      BY <3>1, <3>3 DEF TypeOK, WaitInv,
         switchVars, poolVars, registryVars, threadVars, reloadVars
    <3>4. QED
      BY <2>10, <3>2, <3>3, ClearRestoresDoes
  <2>11. CASE ReleaseOwnContext(p)
    BY <2>11 DEF ReleaseOwnContext, UnRegisterContext, RGoto, TypeOK, HoldInv, Holding,
       WaitInv, switchVars, poolVars, registryVars, threadVars, reloadVars
  <2>12. CASE WaitForRegisteredContextsCountZero(p)
    BY <2>12 DEF WaitForRegisteredContextsCountZero, RGoto, TypeOK, HoldInv, Holding,
       WaitInv, switchVars, poolVars, registryVars, threadVars, reloadVars
  <2>13. CASE CloseDatabase(p)
    BY <2>13 DEF CloseDatabase, RGoto, TypeOK, HoldInv, Holding, WaitInv, switchVars,
       poolVars, registryVars, threadVars, reloadVars
  <2>14. CASE OpenDatabase(p)
    BY <2>14 DEF OpenDatabase, RGoto, TypeOK, HoldInv, Holding, WaitInv, switchVars,
       poolVars, registryVars, threadVars, reloadVars
  <2>15. CASE RestoreContexts(p)
    BY <2>15 DEF RestoreContexts, RGoto, TypeOK, HoldInv, Holding, WaitInv, switchVars,
       poolVars, registryVars, threadVars, reloadVars
  <2>16. CASE ReloadEnds(p)
    BY <2>16 DEF ReloadEnds, UnRegisterContext, RGoto, TypeOK, HoldInv, Holding,
       WaitInv, switchVars, poolVars, registryVars, threadVars, reloadVars
  <2>17. QED
    BY <1>2, <2>1, <2>2, <2>3, <2>4, <2>4a, <2>5, <2>6, <2>6a, <2>7, <2>8,
       <2>9, <2>10, <2>11, <2>12, <2>13, <2>14, <2>15, <2>16 DEF ReloadNext
<1>3. CASE UNCHANGED vars
  BY <1>3 DEF vars, TypeOK, HoldInv, Holding, WaitInv, switchVars, poolVars,
     registryVars, threadVars, reloadVars
<1>4. QED
  BY <1>1, <1>2, <1>3 DEF Next
-----------------------------------------------------------------------------
(* The theorems.                                                            *)

\* The invariant holds in every reachable state.
THEOREM ReloadInvariance == Spec => []ReloadInv
<1>1. Init => ReloadInv
  <2> USE CatalogAssumption, OrderFacts DEF Init, Threads
  <2>1. Init => TypeOK
    BY DEF TypeOK, ThreadSteps, ReloadSteps
  <2>2. Init => HoldInv /\ LoopInv
    BY DEF HoldInv, LoopInv, Holding
  <2>3. Init => RegistrationInv /\ WaitInv
    BY DEF RegistrationInv, WaitInv
  <2>4. QED
    BY <2>1, <2>2, <2>3 DEF ReloadInv
<1>2. ReloadInv /\ [Next]_vars => ReloadInv'
  BY TypeStep, HoldStep, LoopStep, RegistrationStep, WaitStep DEF ReloadInv
<1>3. QED
  BY <1>1, <1>2, PTL DEF Spec

\* Every variable keeps its type: the loop over the applications stays within
\* them, and no pool, set or lock gets a value it cannot have.
THEOREM ReloadTypeCorrect == Spec => []TypeOK
<1>1. ReloadInv => TypeOK
  BY DEF ReloadInv
<1>2. QED
  BY <1>1, ReloadInvariance, PTL

\* When the reload detaches the database, every application context that was
\* registered when it looked has been unregistered.
THEOREM ReloadBarrier == Spec => []ReloadIsABarrier
<1>1. ReloadInv => ReloadIsABarrier
  BY DEF ReloadInv, WaitInv, ReloadIsABarrier
<1>2. QED
  BY <1>1, ReloadInvariance, PTL

\* Each registered application context belongs to a JavaScript context that a
\* pool or a thread has, or to a reload in progress, and base contexts are held
\* by registered ones only.
THEOREM RegistrationsHeld == Spec => []RegistrationsAreHeld
<1>1. ASSUME ReloadInv PROVE RegistrationsAreHeld
  <2> DEFINE U == UNION {unused[a] : a \in Apps}
             H == {held[t] : t \in Threads}
  <2>1. \A a \in Apps : unused[a] \subseteq U
    OBVIOUS
  <2>2. \A t \in Threads : held[t] \in H
    OBVIOUS
  <2>3. \A c : Placed(c) => c \in U \cup H
    <3> HIDE DEF U, H
    <3> QED
      BY <2>1, <2>2 DEF Placed
  <2>4. \A q \in Apps : registered[q] \cap Contexts \subseteq U \cup H
    <3> HIDE DEF U, H
    <3> QED
      BY <1>1, <2>3 DEF ReloadInv, RegistrationInv
  <2>5. \A q \in Apps : /\ q \in registered[q] => q \in Reloaders /\ rpc[q] # "idle"
                        /\ based[q] \subseteq registered[q]
    BY <1>1 DEF ReloadInv, RegistrationInv
  <2>6. QED
    BY <2>4, <2>5 DEF RegistrationsAreHeld
<1>2. QED
  BY <1>1, ReloadInvariance, PTL

-----------------------------------------------------------------------------
(* The wait implements the zero gate.                                       *)

\* The gate of p is left alone by a step that leaves its set and its place.
LEMMA GateStutters ==
  ASSUME NEW p \in Reloaders, registered'[p] = registered[p], GateValue(p)' = GateValue(p)
  PROVE  [GateOf(p)!Next]_(GateOf(p)!vars)
  BY DEF GateOf!vars

\* A registration adds to the set, or finds it there.
LEMMA GateAdds ==
  ASSUME NEW p \in Reloaders, NEW m \in Contexts \cup Apps,
         registered'[p] = registered[p] \cup {m}, GateValue(p)' = GateValue(p)
  PROVE  [GateOf(p)!Next]_(GateOf(p)!vars)
<1>1. CASE m \in registered[p]
  <2>1. registered'[p] = registered[p]
    BY <1>1
  <2>2. QED
    BY <2>1, GateStutters
<1>2. CASE m \notin registered[p]
  BY <1>2 DEF GateOf!Next, GateOf!Add
<1>3. QED
  BY <1>1, <1>2

\* Steps of reload p outside the wait, and steps of others, keep its place.
LEMMA GateValueKept ==
  ASSUME NEW p \in Reloaders,
         \/ rpc'[p] = rpc[p] /\ (rpc[p] = "waitRia" => (woken'[p] <=> woken[p]))
         \/ rpc[p] \notin {"waitRia", "close"} /\ rpc'[p] \notin {"waitRia", "close"},
         woken[p] \in BOOLEAN, woken'[p] \in BOOLEAN
  PROVE  GateValue(p)' = GateValue(p)
  BY DEF GateValue

\* An unregistration opens the gate exactly when it empties the set.
LEMMA GateRemoves ==
  ASSUME ReloadInv, TypeOK', NEW p \in Reloaders, NEW o \in Contexts \cup Apps,
         NEW A, UnRegisterContext(o, A),
         \/ rpc'[p] = rpc[p]
         \/ rpc[p] \notin {"waitRia", "close"} /\ rpc'[p] \notin {"waitRia", "close"}
  PROVE  [GateOf(p)!Next]_(GateOf(p)!vars)
<1>0. p \in Apps /\ woken[p] \in BOOLEAN /\ woken'[p] \in BOOLEAN
  BY CatalogAssumption DEF ReloadInv, TypeOK
<1>1. woken'[p] <=> woken[p] \/ (rpc[p] = "waitRia" /\ registered'[p] = {})
  BY DEF UnRegisterContext
<1>2. registered'[p] = IF p \in A THEN registered[p] \ {o} ELSE registered[p]
  BY <1>0 DEF UnRegisterContext
<1>3. CASE p \in A /\ o \in registered[p]
  <2>1. registered'[p] = registered[p] \ {o}
    BY <1>2, <1>3
  <2>2. GateValue(p)' = IF registered'[p] = {} /\ GateValue(p) = "in" THEN "open"
                        ELSE GateValue(p)
    BY <1>0, <1>1 DEF GateValue
  <2>3. GateOf(p)!Remove(o)
    BY <1>3, <2>1, <2>2 DEF GateOf!Remove, GateOf!Opened
  <2>4. QED
    BY <2>3 DEF GateOf!Next
<1>4. CASE ~(p \in A /\ o \in registered[p])
  <2>1. registered'[p] = registered[p]
    BY <1>2, <1>4
  <2>2. rpc[p] = "waitRia" => (woken'[p] <=> woken[p])
    BY <1>1, <2>1 DEF ReloadInv, WaitInv
  <2>3. QED
    BY <1>0, <2>1, <2>2, GateValueKept, GateStutters
<1>5. QED
  BY <1>3, <1>4

\* Every step of the system is a step of each gate, or leaves it alone.
LEMMA GateStep ==
  ASSUME ReloadInv, ReloadInv', [Next]_vars, NEW p \in Reloaders
  PROVE  [GateOf(p)!Next]_(GateOf(p)!vars)
<1> USE CatalogAssumption DEF Threads
<1>0. p \in Apps /\ woken[p] \in BOOLEAN /\ woken'[p] \in BOOLEAN /\ TypeOK /\ TypeOK'
  BY DEF ReloadInv, TypeOK
<1>a. ASSUME registered'[p] = registered[p], rpc'[p] = rpc[p],
             rpc[p] = "waitRia" => (woken'[p] <=> woken[p])
      PROVE  [GateOf(p)!Next]_(GateOf(p)!vars)
  BY <1>a, <1>0, GateValueKept, GateStutters
<1>1. ASSUME NEW t \in Threads, RequestRetains(t) \/ ThreadNext(t)
      PROVE  [GateOf(p)!Next]_(GateOf(p)!vars)
  <2>1. CASE RequestRetains(t)
    BY <2>1, <1>a DEF RequestRetains, RetainContext, registryVars, reloadVars
  <2>2. CASE TakeUnused(t)
    BY <2>2, <1>a DEF TakeUnused, registryVars, reloadVars
  <2>3. CASE FindStale(t)
    BY <2>3, <1>a DEF FindStale, registryVars, reloadVars
  <2>4. CASE DiscardStale(t)
    <3>1. UnRegisterContext(held[t], Apps) /\ rpc' = rpc
      BY <2>4 DEF DiscardStale, reloadVars
    <3>2. held[t] \in Contexts
      BY <2>4, <1>0 DEF DiscardStale, ReloadInv, HoldInv, Holding, TypeOK
    <3>3. QED
      BY <1>0, <3>1, <3>2, GateRemoves
  <2>5. CASE FindNoUnused(t)
    BY <2>5, <1>a DEF FindNoUnused, registryVars, reloadVars
  <2>6. CASE AttachSolution(t)
    BY <2>6, <1>a DEF AttachSolution, registryVars, reloadVars
  <2>7. CASE ChecksCreation(t)
    BY <2>7, <1>a, ChecksCreationDoes DEF registryVars, reloadVars
  <2>8. CASE RegisterContext(t)
    <3>1. /\ registered' = [registered EXCEPT ![Order[next[t]]] = @ \cup {held[t]}]
          /\ UNCHANGED <<rpc, woken>>
      BY <2>8 DEF RegisterContext, reloadVars
    <3>2. held[t] \in Contexts
      BY <2>8, <1>0 DEF RegisterContext, ReloadInv, HoldInv, Holding, TypeOK
    <3>3. registered'[p] = registered[p] \/ registered'[p] = registered[p] \cup {held[t]}
      BY <1>0, <3>1 DEF TypeOK
    <3>4. QED
      BY <1>0, <1>a, <3>1, <3>2, <3>3, GateValueKept, GateAdds
  <2>9. CASE RetainDatabase(t)
    BY <2>9, <1>a DEF RetainDatabase, reloadVars
  <2>10. CASE JoinsPool(t)
    BY <2>10, <1>a DEF JoinsPool, registryVars, reloadVars
  <2>11. CASE ScriptLooksUp(t)
    BY <2>11, <1>a DEF ScriptLooksUp, registryVars, reloadVars
  <2>12. CASE GetApplications(t)
    BY <2>12, <1>a DEF GetApplications, registryVars, reloadVars
  <2>13. CASE ReleaseContext(t)
    <3>1. registered' = registered /\ rpc' = rpc
      BY <2>13, ReleaseContextDoes DEF registryVars, reloadVars
    <3>2. rpc[p] = "waitRia" => (woken'[p] <=> woken[p])
      BY <2>13 DEF ReleaseContext, WakePoolWaiters
    <3>3. QED
      BY <1>a, <3>1, <3>2
  <2>14. CASE DetachSolution(t)
    <3>1. UnRegisterContext(held[t], Apps) /\ rpc' = rpc
      BY <2>14 DEF DetachSolution, reloadVars
    <3>2. held[t] \in Contexts
      BY <2>14, <1>0 DEF DetachSolution, ReloadInv, HoldInv, Holding, TypeOK
    <3>3. QED
      BY <1>0, <3>1, <3>2, GateRemoves
  <2>15. QED
    BY <1>1, <2>1, <2>2, <2>3, <2>4, <2>5, <2>6, <2>7, <2>8, <2>9, <2>10, <2>11, <2>12,
       <2>13, <2>14 DEF ThreadNext
<1>2. ASSUME NEW r \in Reloaders, ReloadCatalog(r) \/ ReloadNext(r)
      PROVE  [GateOf(p)!Next]_(GateOf(p)!vars)
  <2>a. ASSUME registered'[p] = registered[p], woken' = woken,
               NEW from \in ReloadSteps \ {"waitRia", "close"}, rpc[r] = from,
               NEW to \in ReloadSteps \ {"waitRia", "close"}, rpc' = [rpc EXCEPT ![r] = to]
        PROVE  [GateOf(p)!Next]_(GateOf(p)!vars)
    <3>1. \/ rpc'[p] = rpc[p]
          \/ rpc[p] \notin {"waitRia", "close"} /\ rpc'[p] \notin {"waitRia", "close"}
      BY <2>a, <1>0 DEF TypeOK
    <3>2. QED
      BY <1>0, <2>a, <3>1, GateValueKept, GateStutters
  <2>1. CASE ReloadCatalog(r)
    <3>1. /\ registered' = [registered EXCEPT ![r] = @ \cup {r}] /\ woken' = woken
          /\ rpc[r] = "idle" /\ rpc' = [rpc EXCEPT ![r] = "willReload"]
      BY <2>1 DEF ReloadCatalog, RGoto
    <3>2. \/ rpc'[p] = rpc[p]
          \/ rpc[p] \notin {"waitRia", "close"} /\ rpc'[p] \notin {"waitRia", "close"}
      BY <3>1, <1>0 DEF TypeOK
    <3>3. registered'[p] = registered[p] \/ registered'[p] = registered[p] \cup {p}
      BY <1>0, <3>1 DEF TypeOK
    <3>4. QED
      BY <1>0, <3>1, <3>2, <3>3, GateValueKept, GateAdds, GateStutters
  <2>2. CASE PostServicesMessage(r)
    <3>1. registered' = registered /\ woken' = woken /\ rpc[r] \in {"willReload", "didReload"}
      BY <2>2 DEF PostServicesMessage, RGoto, RetainContext, registryVars
    <3>2. PICK step \in {"posted", "finish"} : rpc' = [rpc EXCEPT ![r] = step]
      BY <2>2 DEF PostServicesMessage, RGoto
    <3>3. QED
      BY <2>a, <3>1, <3>2 DEF ReloadSteps
  <2>3. CASE TestDatabase(r)
    BY <2>3, <2>a DEF TestDatabase, RGoto, registryVars, ReloadSteps
  <2>4. CASE DisableContexts(r)
    BY <2>4, <2>a DEF DisableContexts, RGoto, registryVars, ReloadSteps
  <2>4a. CASE DisablePool(r)
    <3>1. registered' = registered /\ woken' = woken /\ rpc[r] \in {"disablePool"}
      BY <2>4a DEF DisablePool, RGoto, registryVars
    <3>2. PICK step \in {"dropAll", "open"} : rpc' = [rpc EXCEPT ![r] = step]
      BY <2>4a DEF DisablePool, RGoto
    <3>3. QED
      BY <2>a, <3>1, <3>2 DEF ReloadSteps
  <2>5. CASE DropAllJSContexts(r)
    BY <2>5, <2>a DEF DropAllJSContexts, RGoto, registryVars, ReloadSteps
  <2>6. CASE ClearDisables(r)
    BY <2>6, <2>a DEF ClearDisables, RGoto, registryVars, ReloadSteps
  <2>6a. CASE ClearSavesState(r)
    BY <2>6a, <2>a DEF ClearSavesState, RGoto, registryVars, ReloadSteps
  <2>7. CASE ClearLooks(r)
    <3>1. registered' = registered /\ woken' = woken /\ rpc[r] \in {"look"}
      BY <2>7 DEF ClearLooks, RGoto, registryVars
    <3>2. PICK step \in {"sweep", "waitPool"} : rpc' = [rpc EXCEPT ![r] = step]
      BY <2>7 DEF ClearLooks, RGoto
    <3>3. QED
      BY <2>a, <3>1, <3>2 DEF ReloadSteps
  <2>8. CASE Wakes(r)
    <3>1. /\ registered' = registered /\ woken[r] /\ woken' = [woken EXCEPT ![r] = FALSE]
          /\ \/ rpc[r] = "waitPool" /\ rpc' = [rpc EXCEPT ![r] = "sweep"]
             \/ rpc[r] = "waitRia" /\ rpc' = [rpc EXCEPT ![r] = "close"]
      BY <2>8 DEF Wakes, RGoto, registryVars
    <3>2. CASE p # r
      BY <1>0, <1>a, <3>1, <3>2 DEF TypeOK
    <3>3. CASE p = r /\ rpc[r] = "waitPool"
      <4>1. rpc'[p] = "sweep"
        BY <1>0, <3>1, <3>3 DEF TypeOK
      <4>2. QED
        BY <1>0, <3>1, <3>3, <4>1, GateValueKept, GateStutters
    <3>4. CASE p = r /\ rpc[r] = "waitRia"
      <4>1. rpc'[p] = "close"
        BY <1>0, <3>1, <3>4 DEF TypeOK
      <4>2. GateValue(p) = "open" /\ GateValue(p)' = "open"
        BY <3>1, <3>4, <4>1 DEF GateValue
      <4>3. QED
        BY <3>1, <4>2, GateStutters
    <3>5. QED
      BY <3>1, <3>2, <3>3, <3>4
  <2>9. CASE ClearSweeps(r)
    <3>1. PICK c \in unused[Order[at[r]]] : UnRegisterContext(c, Apps)
      BY <2>9 DEF ClearSweeps
    <3>2. c \in Contexts /\ rpc' = rpc
      BY <2>9, <1>0, OrderFacts DEF ClearSweeps, reloadVars, TypeOK
    <3>3. QED
      BY <1>0, <3>1, <3>2, GateRemoves
  <2>10. CASE ClearRestores(r)
    <3>1. registered' = registered /\ woken' = woken /\ rpc[r] = "sweep"
      BY <2>10, ClearRestoresDoes DEF registryVars
    <3>2. PICK step \in {"clear", "leave"} : rpc' = [rpc EXCEPT ![r] = step]
      BY <2>10, ClearRestoresDoes
    <3>3. QED
      BY <2>a, <3>1, <3>2 DEF ReloadSteps
  <2>11. CASE ReleaseOwnContext(r)
    <3>1. UnRegisterContext(r, {r}) /\ r \in Apps
      BY <2>11 DEF ReleaseOwnContext
    <3>2. \/ rpc'[p] = rpc[p]
          \/ rpc[p] \notin {"waitRia", "close"} /\ rpc'[p] \notin {"waitRia", "close"}
      BY <2>11, <1>0 DEF ReleaseOwnContext, RGoto, TypeOK
    <3>3. QED
      BY <1>0, <3>1, <3>2, GateRemoves
  <2>12. CASE WaitForRegisteredContextsCountZero(r)
    <3>1. /\ registered' = registered /\ woken' = woken /\ rpc[r] = "lookRia"
          /\ rpc' = [rpc EXCEPT ![r] = IF registered[r] = {} THEN "close" ELSE "waitRia"]
      BY <2>12 DEF WaitForRegisteredContextsCountZero, RGoto
    <3>2. CASE p # r
      BY <1>0, <1>a, <3>1, <3>2 DEF TypeOK
    <3>3. CASE p = r
      <4>1. rpc'[p] = IF registered[p] = {} THEN "close" ELSE "waitRia"
        BY <1>0, <3>1, <3>3 DEF TypeOK
      <4>2. ~woken'[p]
        BY <3>1, <3>3 DEF ReloadInv, WaitInv
      <4>3. GateValue(p) = "out"
        BY <3>1, <3>3 DEF GateValue
      <4>4. GateValue(p)' = IF registered[p] = {} THEN "open" ELSE "in"
        BY <4>1, <4>2 DEF GateValue
      <4>5. GateOf(p)!Arrive(p)
        BY <3>1, <4>3, <4>4 DEF GateOf!Arrive
      <4>6. QED
        BY <4>5 DEF GateOf!Next
    <3>4. QED
      BY <3>2, <3>3
  <2>13. CASE CloseDatabase(r)
    <3>1. /\ registered' = registered /\ woken' = woken /\ rpc[r] = "close"
          /\ rpc' = [rpc EXCEPT ![r] = "closed"]
      BY <2>13 DEF CloseDatabase, RGoto, registryVars
    <3>2. CASE p # r
      BY <1>0, <1>a, <3>1, <3>2 DEF TypeOK
    <3>3. CASE p = r
      <4>1. rpc'[p] = "closed"
        BY <1>0, <3>1, <3>3 DEF TypeOK
      <4>2. GateValue(p) = "open" /\ GateValue(p)' = "out"
        BY <3>1, <3>3, <4>1 DEF GateValue
      <4>3. GateOf(p)!Pass(p)
        BY <3>1, <4>2 DEF GateOf!Pass
      <4>4. QED
        BY <4>3 DEF GateOf!Next
    <3>4. QED
      BY <3>2, <3>3
  <2>14. CASE OpenDatabase(r)
    BY <2>14, <2>a DEF OpenDatabase, RGoto, registryVars, ReloadSteps
  <2>15. CASE RestoreContexts(r)
    <3>1. registered' = registered /\ woken' = woken /\ rpc[r] \in {"closed", "restore"}
      BY <2>15 DEF RestoreContexts, RGoto, registryVars
    <3>2. PICK step \in {"disable", "didReload"} : rpc' = [rpc EXCEPT ![r] = step]
      BY <2>15 DEF RestoreContexts, RGoto
    <3>3. QED
      BY <2>a, <3>1, <3>2 DEF ReloadSteps
  <2>16. CASE ReloadEnds(r)
    <3>1. UnRegisterContext(r, {r}) /\ r \in Apps
      BY <2>16 DEF ReloadEnds
    <3>2. \/ rpc'[p] = rpc[p]
          \/ rpc[p] \notin {"waitRia", "close"} /\ rpc'[p] \notin {"waitRia", "close"}
      BY <2>16, <1>0 DEF ReloadEnds, RGoto, TypeOK
    <3>3. QED
      BY <1>0, <3>1, <3>2, GateRemoves
  <2>17. QED
    BY <1>2, <2>1, <2>2, <2>3, <2>4, <2>4a, <2>5, <2>6, <2>6a, <2>7, <2>8,
       <2>9, <2>10, <2>11, <2>12, <2>13, <2>14, <2>15, <2>16 DEF ReloadNext
<1>3. CASE UNCHANGED vars
  BY <1>3, <1>a DEF vars, registryVars, reloadVars
<1>4. QED
  BY <1>1, <1>2, <1>3 DEF Next

\* VRIAContextManager's wait implements the zero gate for every reload: the one
\* who waits passes only after the set of application contexts was empty.
THEOREM ReloadGate == Spec => ImplementsGate
<1>1. Init => \A p \in Reloaders : GateOf(p)!Init
  BY CatalogAssumption DEF Init, GateOf!Init, GateValue
<1>2. ReloadInv /\ ReloadInv' /\ [Next]_vars
        => [\A p \in Reloaders : [GateOf(p)!Next]_(GateOf(p)!vars)]_vars
  BY GateStep
<1>3. QED
  BY <1>1, <1>2, ReloadInvariance, PTL DEF Spec, ImplementsGate

-----------------------------------------------------------------------------
(* The switches, with reloads of any applications in each other's midst.    *)

\* fApplicationsMutex admits one loop of Clear() at a time.
ClearsAlone ==
  \A p \in Reloaders :
    rpc[p] \in {"clear", "saved", "look", "waitPool", "sweep"} => appsOwner = p

\* While a reload of q is between its read of the flags and its write, what it saved
\* stands for them.  Unless the pool was crossed, the value that the last of the
\* reload and the Clear() writes back is TRUE: with no Clear() open the pool is
\* enabled, and with one the reload that writes back after it, or the Clear() itself.
SwitchOf(q) ==
  /\ IF Disables(q) THEN savedContexts[q].creation ELSE creation[q]
  /\ q \notin crossed =>
       /\ ~IsCleared(q) => IF Disables(q) THEN savedContexts[q].pool ELSE poolEnabled[q]
       /\ \A r \in Reloaders : Clears(r, q) => \/ Disables(q) /\ savedContexts[q].pool
                                               \/ savedClear[r]

SwitchInv == ClearsAlone /\ \A q \in Apps : SwitchOf(q)

\* A step that does not pass one of the reads or writes of q's flags.
LEMMA SwitchFrame ==
  ASSUME NEW q \in Apps, SwitchOf(q),
         Disables(q)' <=> Disables(q), \A r \in Reloaders : Clears(r, q)' <=> Clears(r, q),
         creation'[q] = creation[q],
         Disables(q) \/ IsCleared(q) \/ poolEnabled'[q] = poolEnabled[q],
         q \in crossed => q \in crossed',
         Disables(q) => savedContexts'[q] = savedContexts[q],
         \A r \in Reloaders : Clears(r, q) => savedClear'[r] = savedClear[r]
  PROVE  SwitchOf(q)'
<1>1. IsCleared(q)' <=> IsCleared(q)
  BY DEF IsCleared
<1>2. IF Disables(q)' THEN savedContexts'[q].creation ELSE creation'[q]
  BY DEF SwitchOf
<1>3. ASSUME q \notin crossed', ~IsCleared(q)'
      PROVE  IF Disables(q)' THEN savedContexts'[q].pool ELSE poolEnabled'[q]
  BY <1>1, <1>3 DEF SwitchOf
<1>4. ASSUME q \notin crossed', NEW r \in Reloaders, Clears(r, q)'
      PROVE  (Disables(q)' /\ savedContexts'[q].pool) \/ savedClear'[r]
  BY <1>4 DEF SwitchOf
<1>5. QED
  BY <1>2, <1>3, <1>4 DEF SwitchOf

\* A step of reload p that goes from one step of the list to another.
LEMMA GoesOn ==
  ASSUME TypeOK, NEW p \in Reloaders, NEW step \in ReloadSteps,
         rpc' = [rpc EXCEPT ![p] = step]
  PROVE  rpc'[p] = step /\ \A r \in Reloaders : r # p => rpc'[r] = rpc[r]
  BY DEF TypeOK

LEMMA ClearsAloneStep ==
  ASSUME TypeOK, ClearsAlone, [Next]_vars
  PROVE  ClearsAlone'
<1> USE DEF reloadVars
<1>1. ASSUME NEW t \in Threads, RequestRetains(t) \/ ThreadNext(t) PROVE ClearsAlone'
  <2>1. UNCHANGED <<rpc, appsOwner>>
    BY <1>1 DEF RequestRetains, RetainContext, ThreadNext, TakeUnused, FindStale,
                DiscardStale, FindNoUnused, AttachSolution, ChecksCreation, RegisterContext,
                RetainDatabase, JoinsPool, ScriptLooksUp, GetApplications, ReleaseContext,
                DetachSolution
  <2>2. QED
    BY <2>1 DEF ClearsAlone
<1>2. ASSUME NEW p \in Reloaders, ReloadCatalog(p) \/ ReloadNext(p) PROVE ClearsAlone'
  <2>0. None \notin Reloaders
    BY CatalogAssumption
  <2>1. CASE \/ ReloadCatalog(p) \/ PostServicesMessage(p) \/ TestDatabase(p) \/ ReloadEnds(p)
             \/ DisableContexts(p) \/ DisablePool(p) \/ ReleaseOwnContext(p)
             \/ WaitForRegisteredContextsCountZero(p) \/ CloseDatabase(p) \/ OpenDatabase(p)
             \/ RestoreContexts(p)
    <3>1. /\ UNCHANGED appsOwner
          /\ \E step \in ReloadSteps \ {"clear", "saved", "look", "waitPool", "sweep"} :
               rpc' = [rpc EXCEPT ![p] = step]
      BY <2>1 DEF ReloadCatalog, PostServicesMessage, RetainContext, TestDatabase, ReloadEnds,
                  DisableContexts, DisablePool, ReleaseOwnContext,
                  WaitForRegisteredContextsCountZero, CloseDatabase, OpenDatabase,
                  RestoreContexts, RGoto, ReloadSteps
    <3>2. QED
      BY <3>1, GoesOn DEF ClearsAlone
  <2>2. CASE DropAllJSContexts(p)
    <3>1. appsOwner = None /\ appsOwner' = p /\ rpc' = [rpc EXCEPT ![p] = "clear"]
      BY <2>2 DEF DropAllJSContexts, RGoto
    <3>2. QED
      BY <2>0, <3>1, GoesOn DEF ClearsAlone, ReloadSteps
  <2>3. CASE ClearSavesState(p) \/ ClearDisables(p) \/ ClearLooks(p) \/ ClearSweeps(p)
    <3>1. /\ UNCHANGED appsOwner
          /\ rpc[p] \in {"clear", "saved", "look", "sweep"}
          /\ UNCHANGED rpc \/ \E step \in ReloadSteps : rpc' = [rpc EXCEPT ![p] = step]
      BY <2>3 DEF ClearSavesState, ClearDisables, ClearLooks, ClearSweeps, RGoto, ReloadSteps
    <3>2. QED
      BY <3>1, GoesOn DEF ClearsAlone
  <2>4. CASE Wakes(p)
    <3>1. /\ UNCHANGED appsOwner
          /\ \/ rpc[p] = "waitPool" /\ rpc' = [rpc EXCEPT ![p] = "sweep"]
             \/ rpc' = [rpc EXCEPT ![p] = "close"]
      BY <2>4 DEF Wakes, RGoto
    <3>2. QED
      BY <3>1, GoesOn DEF ClearsAlone, ReloadSteps
  <2>5. CASE ClearRestores(p)
    <3>1. /\ rpc[p] = "sweep"
          /\ \/ rpc' = [rpc EXCEPT ![p] = "clear"] /\ appsOwner' = appsOwner
             \/ rpc' = [rpc EXCEPT ![p] = "leave"]
      BY <2>5, ClearRestoresDoes
    <3>2. appsOwner = p /\ \A r \in Reloaders : r # p => rpc[r] \notin {"clear", "saved", "look", "waitPool", "sweep"}
      BY <3>1 DEF ClearsAlone
    <3>3. QED
      BY <3>1, <3>2, GoesOn DEF ClearsAlone, ReloadSteps
  <2>6. QED
    BY <1>2, <2>1, <2>2, <2>3, <2>4, <2>5 DEF ReloadNext
<1>3. CASE UNCHANGED vars
  BY <1>3 DEF vars, ClearsAlone
<1>4. QED
  BY <1>1, <1>2, <1>3 DEF Next

LEMMA SwitchStep ==
  ASSUME TypeOK, SwitchInv, [Next]_vars, NEW q \in Apps
  PROVE  SwitchOf(q)'
<1> USE DEF switchVars, reloadVars
<1>1. ASSUME NEW t \in Threads, RequestRetains(t) \/ ThreadNext(t) PROVE SwitchOf(q)'
  <2>1. UNCHANGED <<creation, poolEnabled, crossed, rpc, at, savedContexts, savedClear>>
    BY <1>1 DEF RequestRetains, RetainContext, ThreadNext, TakeUnused, FindStale,
                DiscardStale, FindNoUnused, AttachSolution, ChecksCreation, RegisterContext,
                RetainDatabase, JoinsPool, ScriptLooksUp, GetApplications, ReleaseContext,
                DetachSolution
  <2>2. QED
    BY <2>1, SwitchFrame DEF SwitchInv, Disables, Clears
<1>2. ASSUME NEW p \in Reloaders, ReloadCatalog(p) \/ ReloadNext(p) PROVE SwitchOf(q)'
  <2>0. p \in Apps /\ at[p] \in 1..Len(Order) /\ Order[at[p]] \in Apps /\ SwitchOf(q)
    BY CatalogAssumption, OrderFacts DEF SwitchInv, TypeOK
  <2>a. ASSUME UNCHANGED <<creation, poolEnabled, crossed, savedContexts, savedClear>>,
               \/ UNCHANGED rpc
               \/ rpc'[p] \in ReloadSteps /\ \A r \in Reloaders : r # p => rpc'[r] = rpc[r],
               Disables(p)' <=> Disables(p), \A r \in Reloaders : Clears(r, q)' <=> Clears(r, q)
        PROVE  SwitchOf(q)'
    BY <2>0, <2>a, SwitchFrame DEF Disables
  <2>1. CASE \/ ReloadCatalog(p) \/ PostServicesMessage(p) \/ TestDatabase(p) \/ ReloadEnds(p)
    <3>1. /\ UNCHANGED <<creation, poolEnabled, crossed, at, savedContexts, savedClear>>
          /\ rpc[p] \in {"idle", "willReload", "posted", "didReload", "finish"}
          /\ \E step \in {"idle", "willReload", "posted", "disable", "finish"} :
               rpc' = [rpc EXCEPT ![p] = step]
      BY <2>1 DEF ReloadCatalog, PostServicesMessage, RetainContext, TestDatabase, ReloadEnds,
                  RGoto
    <3>2. /\ rpc'[p] \in {"idle", "willReload", "posted", "disable", "finish"}
          /\ \A r \in Reloaders : r # p => rpc'[r] = rpc[r]
      BY <3>1, GoesOn DEF ReloadSteps
    <3>3. QED
      BY <2>a, <3>1, <3>2 DEF Disables, Clears, ReloadSteps
  <2>2. CASE DisableContexts(p)
    <3>1. /\ rpc[p] = "disable" /\ rpc'[p] = "disablePool"
          /\ \A r \in Reloaders : r # p => rpc'[r] = rpc[r]
          /\ UNCHANGED <<poolEnabled, crossed, at, savedClear>>
      BY <2>2, GoesOn DEF DisableContexts, RGoto, ReloadSteps
    <3>2. \A r \in Reloaders : Clears(r, q)' <=> Clears(r, q)
      BY <3>1 DEF Clears
    <3>3. CASE q = p
      <4>1. savedContexts'[q].creation = creation[q] /\ savedContexts'[q].pool = poolEnabled[q]
        BY <2>2, <3>3 DEF DisableContexts, TypeOK
      <4>2. ~Disables(q) /\ Disables(q)'
        BY <3>1, <3>3 DEF Disables, ReloadSteps
      <4>3. IsCleared(q)' <=> IsCleared(q)
        BY <3>2 DEF IsCleared
      <4>4. IF Disables(q)' THEN savedContexts'[q].creation ELSE creation'[q]
        BY <2>0, <4>1, <4>2 DEF SwitchOf
      <4>5. ASSUME q \notin crossed', ~IsCleared(q)'
            PROVE  IF Disables(q)' THEN savedContexts'[q].pool ELSE poolEnabled'[q]
        BY <2>0, <3>1, <4>1, <4>2, <4>3, <4>5 DEF SwitchOf
      <4>6. ASSUME q \notin crossed', NEW r \in Reloaders, Clears(r, q)'
            PROVE  savedClear'[r]
        BY <2>0, <3>1, <3>2, <4>2, <4>6 DEF SwitchOf
      <4>7. QED
        BY <4>4, <4>5, <4>6 DEF SwitchOf
    <3>4. CASE q # p
      <4>1. creation'[q] = creation[q] /\ (Disables(q) => savedContexts'[q] = savedContexts[q])
        BY <2>2, <3>4 DEF DisableContexts, TypeOK, Disables
      <4>2. QED
        BY <2>0, <3>1, <3>2, <3>4, <4>1, SwitchFrame DEF Disables
    <3>5. QED
      BY <3>3, <3>4
  <2>3. CASE DisablePool(p)
    <3>1. /\ rpc[p] = "disablePool" /\ rpc'[p] \in {"dropAll", "open"}
          /\ \A r \in Reloaders : r # p => rpc'[r] = rpc[r]
          /\ UNCHANGED <<creation, crossed, at, savedContexts, savedClear>>
      BY <2>3, GoesOn DEF DisablePool, RGoto, ReloadSteps
    <3>2. q # p => poolEnabled'[q] = poolEnabled[q]
      BY <2>3 DEF DisablePool, TypeOK
    <3>3. Disables(p) /\ Disables(p)'
      BY <3>1 DEF Disables, ReloadSteps
    <3>4. /\ Disables(q)' <=> Disables(q)
          /\ \A r \in Reloaders : Clears(r, q)' <=> Clears(r, q)
      BY <3>1, <3>3 DEF Disables, Clears
    <3>5. QED
      BY <2>0, <3>1, <3>2, <3>3, <3>4, SwitchFrame
  <2>4. CASE \/ DropAllJSContexts(p) \/ ReleaseOwnContext(p)
             \/ WaitForRegisteredContextsCountZero(p) \/ CloseDatabase(p) \/ OpenDatabase(p)
    <3>1. /\ UNCHANGED <<creation, poolEnabled, crossed, savedContexts, savedClear>>
          /\ rpc[p] \in {"dropAll", "leave", "lookRia", "close", "open"}
          /\ \E step \in {"clear", "lookRia", "close", "waitRia", "closed", "restore"} :
               rpc' = [rpc EXCEPT ![p] = step]
          /\ at' = [at EXCEPT ![p] = 1] \/ at' = at
      BY <2>4 DEF DropAllJSContexts, ReleaseOwnContext, WaitForRegisteredContextsCountZero,
                  CloseDatabase, OpenDatabase, RGoto
    <3>2. /\ rpc'[p] \in {"clear", "lookRia", "close", "waitRia", "closed", "restore"}
          /\ \A r \in Reloaders : r # p => rpc'[r] = rpc[r] /\ at'[r] = at[r]
      BY <3>1, GoesOn DEF ReloadSteps, TypeOK
    <3>3. QED
      BY <2>a, <3>1, <3>2 DEF Disables, Clears, ReloadSteps
  <2>5. CASE ClearSavesState(p)
    <3>1. /\ rpc[p] = "clear" /\ rpc'[p] = "saved"
          /\ \A r \in Reloaders : r # p => rpc'[r] = rpc[r]
          /\ UNCHANGED <<creation, poolEnabled, crossed, at, savedContexts>>
          /\ savedClear'[p] = poolEnabled[Order[at[p]]]
          /\ \A r \in Reloaders : r # p => savedClear'[r] = savedClear[r]
      BY <2>5, GoesOn DEF ClearSavesState, RGoto, ReloadSteps, TypeOK
    <3>2. Disables(q)' <=> Disables(q)
      BY <3>1 DEF Disables, ReloadSteps
    <3>3. \A r \in Reloaders : ~Clears(r, q)
      <4>1. appsOwner = p
        BY <3>1 DEF SwitchInv, ClearsAlone
      <4>2. QED
        BY <3>1, <4>1 DEF SwitchInv, ClearsAlone, Clears
    <3>4. CASE q = Order[at[p]]
      <4>1. IsCleared(q)' /\ ~IsCleared(q)
        BY <3>1, <3>3, <3>4 DEF IsCleared, Clears
      <4>2. \A r \in Reloaders : Clears(r, q)' => r = p
        BY <3>1, <3>3 DEF Clears
      <4>3. IF Disables(q)' THEN savedContexts'[q].creation ELSE creation'[q]
        BY <2>0, <3>1, <3>2 DEF SwitchOf
      <4>4. ASSUME q \notin crossed'
            PROVE  (Disables(q)' /\ savedContexts'[q].pool) \/ savedClear'[p]
        BY <2>0, <3>1, <3>2, <3>4, <4>1, <4>4 DEF SwitchOf
      <4>5. QED
        BY <4>1, <4>2, <4>3, <4>4 DEF SwitchOf
    <3>5. CASE q # Order[at[p]]
      <4>1. \A r \in Reloaders : Clears(r, q)' <=> Clears(r, q)
        BY <3>1, <3>5 DEF Clears
      <4>2. QED
        BY <2>0, <3>1, <3>2, <3>3, <4>1, SwitchFrame
    <3>6. QED
      BY <3>4, <3>5
  <2>6. CASE ClearDisables(p)
    <3>1. /\ rpc[p] = "saved" /\ rpc'[p] = "look"
          /\ \A r \in Reloaders : r # p => rpc'[r] = rpc[r]
          /\ UNCHANGED <<creation, crossed, at, savedContexts, savedClear>>
          /\ q # Order[at[p]] => poolEnabled'[q] = poolEnabled[q]
      BY <2>6, GoesOn DEF ClearDisables, RGoto, ReloadSteps, TypeOK
    <3>2. /\ Disables(q)' <=> Disables(q)
          /\ \A r \in Reloaders : Clears(r, q)' <=> Clears(r, q)
      BY <3>1 DEF Disables, Clears, ReloadSteps
    <3>3. q = Order[at[p]] => IsCleared(q)
      BY <3>1 DEF IsCleared, Clears
    <3>4. QED
      BY <2>0, <3>1, <3>2, <3>3, SwitchFrame
  <2>7. CASE ClearLooks(p) \/ ClearSweeps(p) \/ Wakes(p)
    <3>1. /\ UNCHANGED <<creation, poolEnabled, crossed, at, savedContexts, savedClear>>
          /\ \/ UNCHANGED rpc
             \/ /\ rpc[p] \in {"look", "waitPool"}
                /\ \E step \in {"waitPool", "sweep"} : rpc' = [rpc EXCEPT ![p] = step]
             \/ rpc[p] = "waitRia" /\ rpc' = [rpc EXCEPT ![p] = "close"]
      BY <2>7 DEF ClearLooks, ClearSweeps, Wakes, RGoto
    <3>2. \/ UNCHANGED rpc
          \/ /\ \/ rpc[p] \in {"look", "waitPool"} /\ rpc'[p] \in {"waitPool", "sweep"}
                \/ rpc[p] = "waitRia" /\ rpc'[p] = "close"
             /\ \A r \in Reloaders : r # p => rpc'[r] = rpc[r]
      BY <3>1, GoesOn DEF ReloadSteps
    <3>3. QED
      BY <2>a, <3>1, <3>2 DEF Disables, Clears, ReloadSteps
  <2>8. CASE ClearRestores(p)
    <3>1. /\ rpc[p] = "sweep" /\ rpc'[p] \in {"clear", "leave"}
          /\ \A r \in Reloaders : r # p => rpc'[r] = rpc[r] /\ at'[r] = at[r]
          /\ UNCHANGED <<creation, savedContexts, savedClear>>
      BY <2>8, ClearRestoresDoes, GoesOn DEF ReloadSteps, TypeOK
    <3>2. /\ poolEnabled' = [poolEnabled EXCEPT ![Order[at[p]]] = savedClear[p]]
          /\ crossed' = IF savedClear[p] /\ Disables(Order[at[p]])
                        THEN crossed \cup {Order[at[p]]} ELSE crossed
      BY <2>8 DEF ClearRestores
    <3>3. Disables(q)' <=> Disables(q)
      BY <3>1 DEF Disables, ReloadSteps
    <3>4. \A r \in Reloaders : ~Clears(r, q)' /\ (Clears(r, q) => r = p)
      <4>1. appsOwner = p
        BY <3>1 DEF SwitchInv, ClearsAlone
      <4>2. QED
        BY <3>1, <4>1 DEF SwitchInv, ClearsAlone, Clears
    <3>5. CASE q = Order[at[p]]
      <4>1. Clears(p, q) /\ ~IsCleared(q)'
        BY <3>1, <3>4, <3>5 DEF IsCleared, Clears
      <4>2. IF Disables(q)' THEN savedContexts'[q].creation ELSE creation'[q]
        BY <2>0, <3>1, <3>3 DEF SwitchOf
      <4>3. ASSUME q \notin crossed'
            PROVE  IF Disables(q)' THEN savedContexts'[q].pool ELSE poolEnabled'[q]
        <5>1. q \notin crossed /\ ~(savedClear[p] /\ Disables(q))
          BY <3>2, <3>5, <4>3
        <5>2. (Disables(q) /\ savedContexts[q].pool) \/ savedClear[p]
          BY <2>0, <4>1, <5>1 DEF SwitchOf
        <5>3. poolEnabled'[q] = savedClear[p]
          BY <2>0, <3>2, <3>5 DEF TypeOK
        <5>4. QED
          BY <3>1, <3>3, <5>1, <5>2, <5>3
      <4>4. QED
        BY <3>4, <4>2, <4>3 DEF SwitchOf
    <3>6. CASE q # Order[at[p]]
      <4>1. \A r \in Reloaders : Clears(r, q)' <=> Clears(r, q)
        BY <3>4, <3>6 DEF Clears
      <4>2. poolEnabled'[q] = poolEnabled[q] /\ (q \in crossed => q \in crossed')
        BY <3>2, <3>6 DEF TypeOK
      <4>3. QED
        BY <2>0, <3>1, <3>3, <4>1, <4>2, SwitchFrame
    <3>7. QED
      BY <3>5, <3>6
  <2>9. CASE RestoreContexts(p)
    <3>1. /\ rpc[p] \in {"closed", "restore"} /\ rpc'[p] \in {"disable", "didReload"}
          /\ \A r \in Reloaders : r # p => rpc'[r] = rpc[r]
          /\ UNCHANGED <<at, savedContexts, savedClear>>
      BY <2>9, GoesOn DEF RestoreContexts, RGoto, ReloadSteps
    <3>2. /\ creation' = [creation EXCEPT ![p] = savedContexts[p].creation]
          /\ poolEnabled' = [poolEnabled EXCEPT ![p] = savedContexts[p].pool]
          /\ crossed' = IF savedContexts[p].pool /\ IsCleared(p) THEN crossed \cup {p} ELSE crossed
      BY <2>9 DEF RestoreContexts
    <3>3. \A r \in Reloaders : Clears(r, q)' <=> Clears(r, q)
      BY <3>1 DEF Clears
    <3>4. CASE q = p
      <4>1. Disables(q) /\ ~Disables(q)'
        BY <3>1, <3>4 DEF Disables, ReloadSteps
      <4>2. IsCleared(q)' <=> IsCleared(q)
        BY <3>3 DEF IsCleared
      <4>3. creation'[q] = savedContexts[q].creation /\ poolEnabled'[q] = savedContexts[q].pool
        BY <2>0, <3>2, <3>4 DEF TypeOK
      <4>4. IF Disables(q)' THEN savedContexts'[q].creation ELSE creation'[q]
        BY <2>0, <4>1, <4>3 DEF SwitchOf
      <4>5. ASSUME q \notin crossed'
            PROVE  q \notin crossed /\ ~(savedContexts[q].pool /\ IsCleared(q))
        BY <3>2, <3>4, <4>5
      <4>6. ASSUME q \notin crossed', ~IsCleared(q)'
            PROVE  IF Disables(q)' THEN savedContexts'[q].pool ELSE poolEnabled'[q]
        BY <2>0, <4>1, <4>2, <4>3, <4>5, <4>6 DEF SwitchOf
      <4>7. ASSUME q \notin crossed', NEW r \in Reloaders, Clears(r, q)'
            PROVE  savedClear'[r]
        <5>1. Clears(r, q) /\ IsCleared(q)
          BY <3>3, <4>7 DEF IsCleared
        <5>2. ~savedContexts[q].pool
          BY <4>5, <4>7, <5>1
        <5>3. (Disables(q) /\ savedContexts[q].pool) \/ savedClear[r]
          BY <2>0, <4>5, <4>7, <5>1 DEF SwitchOf
        <5>4. QED
          BY <3>1, <5>2, <5>3
      <4>8. QED
        BY <4>4, <4>6, <4>7 DEF SwitchOf
    <3>5. CASE q # p
      <4>1. creation'[q] = creation[q] /\ poolEnabled'[q] = poolEnabled[q]
            /\ (q \in crossed => q \in crossed')
        BY <3>2, <3>5 DEF TypeOK
      <4>2. Disables(q)' <=> Disables(q)
        BY <3>1, <3>5 DEF Disables
      <4>3. QED
        BY <2>0, <3>1, <3>3, <4>1, <4>2, SwitchFrame
    <3>6. QED
      BY <3>4, <3>5
  <2>10. QED
    BY <1>2, <2>1, <2>2, <2>3, <2>4, <2>5, <2>6, <2>7, <2>8, <2>9 DEF ReloadNext
<1>3. CASE UNCHANGED vars
  BY <1>3, SwitchFrame DEF vars, SwitchInv, Disables, Clears
<1>4. QED
  BY <1>1, <1>2, <1>3 DEF Next

\* Reloads of any applications of the solution may overlap, again and again: the creation
\* of contexts is enabled again at the end of each, and so is the pool once no Clear()
\* has it disabled, unless one of the two enabled it while the other had it disabled.
THEOREM SwitchesRestored == Spec => []SwitchesAreRestored
<1>1. Init => SwitchInv
  BY DEF Init, SwitchInv, SwitchOf, ClearsAlone, Disables, IsCleared, Clears
<1>2. TypeOK /\ SwitchInv /\ [Next]_vars => SwitchInv'
  BY SwitchStep, ClearsAloneStep DEF SwitchInv
<1>3. SwitchInv => SwitchesAreRestored
  BY DEF SwitchInv, SwitchOf, SwitchesAreRestored
<1>4. QED
  BY <1>1, <1>2, <1>3, ReloadTypeCorrect, PTL DEF Spec
=============================================================================
