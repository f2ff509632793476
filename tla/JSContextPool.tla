---------------------------- MODULE JSContextPool ----------------------------
(***************************************************************************)
(* VJSContextPool: the pool of JavaScript contexts of one application (the *)
(* solution and the server own one each).  Request threads retain a        *)
(* context, run a script in it and release it; other threads disable the   *)
(* pool or clear it.  A step is what one thread does between two points    *)
(* where another thread may interfere: a whole fPoolMutex section is one   *)
(* step, and everything outside the mutex is a step of its own.            *)
(***************************************************************************)
EXTENDS Integers, FiniteSets

CONSTANTS Users,        \* threads that retain and release contexts
          Clearers,     \* threads that call Clear()
          Contexts,     \* the VJSGlobalContext objects that may exist
          Events,       \* the VSyncEvent objects that may exist
          None,         \* the NULL pointer
          MaxReusable,  \* kREUSABLE_JSCONTEXT_MAX_COUNT
          Toggles       \* the values other code passes to SetEnabled

ASSUME PoolAssumption == /\ IsFiniteSet(Contexts)
                         /\ None \notin Contexts \cup Events
                         /\ MaxReusable \in Nat
                         /\ Toggles \subseteq BOOLEAN

VARIABLES
  enabled,        \* fEnabled, read and written without the mutex
  reusing,        \* fContextReusingEnabled, set once when the project opens
  used,           \* keys of fUsedContexts
  unused,         \* keys of fUnusedContexts
  reusable,       \* pooled contexts whose VJSContextInfo says IsReusable
  reusableCount,  \* fReusableContextCount
  live,           \* contexts created and not yet given to _ReleaseContext
  stale,          \* live contexts whose IsIncludedFilesHaveBeenChanged
  noUsedEvent,    \* fNoUsedContextEvent
  unlocked,       \* events on which Unlock() was called
  upc, held, wants,     \* per user: where it is, its context, its inReusable
  cpc, saved, myEvent,  \* per clearer: where it is and its locals
  awaited         \* history: the uses in progress when the clearer looked

poolVars == <<used, unused, reusable, reusableCount>>
eventVars == <<noUsedEvent, unlocked>>
userVars == <<upc, held, wants>>
clearVars == <<cpc, saved, myEvent>>
vars == <<enabled, reusing, poolVars, live, stale, eventVars, userVars,
          clearVars, awaited>>

TypeOK ==
  /\ enabled \in BOOLEAN /\ reusing \in BOOLEAN
  /\ used \subseteq Contexts /\ unused \subseteq Contexts
  /\ reusable \subseteq Contexts /\ reusableCount \in Nat
  /\ live \subseteq Contexts /\ stale \subseteq Contexts
  /\ noUsedEvent \in Events \cup {None} /\ unlocked \subseteq Events
  /\ upc \in [Users -> {"idle", "reuse", "create", "register", "using", "destroy"}]
  /\ held \in [Users -> Contexts \cup {None}] /\ wants \in [Users -> BOOLEAN]
  /\ cpc \in [Clearers -> {"idle", "disable", "look", "wait", "sweep", "restore"}]
  /\ saved \in [Clearers -> BOOLEAN] /\ myEvent \in [Clearers -> Events \cup {None}]
  /\ awaited \in [Clearers -> SUBSET Contexts]

Init ==
  /\ enabled = TRUE /\ reusing \in BOOLEAN
  /\ used = {} /\ unused = {} /\ reusable = {} /\ reusableCount = 0
  /\ live = {} /\ stale = {}
  /\ noUsedEvent = None /\ unlocked = {}
  /\ upc = [u \in Users |-> "idle"]
  /\ held = [u \in Users |-> None] /\ wants = [u \in Users |-> FALSE]
  /\ cpc = [a \in Clearers |-> "idle"] /\ saved = [a \in Clearers |-> FALSE]
  /\ myEvent = [a \in Clearers |-> None]
  /\ awaited = [a \in Clearers |-> {}]

-----------------------------------------------------------------------------
(* Request threads.                                                         *)

\* Seeded fault: the test of fEnabled is missing.
RetainContextUnguarded(u, inReusable) ==
  /\ upc[u] = "idle"
  /\ upc' = [upc EXCEPT ![u] = IF inReusable /\ reusing THEN "reuse" ELSE "create"]
  /\ wants' = [wants EXCEPT ![u] = inReusable]
  /\ UNCHANGED <<enabled, reusing, poolVars, live, stale, eventVars, held,
                 clearVars, awaited>>

\* RetainContext, first reads: fEnabled and fContextReusingEnabled, no mutex.
\* A disabled pool returns NULL, which changes nothing.
RetainContext(u, inReusable) ==
  /\ upc[u] = "idle" /\ enabled
  /\ upc' = [upc EXCEPT ![u] = IF inReusable /\ reusing THEN "reuse" ELSE "create"]
  /\ wants' = [wants EXCEPT ![u] = inReusable]
  /\ UNCHANGED <<enabled, reusing, poolVars, live, stale, eventVars, held,
                 clearVars, awaited>>

\* Seeded faults: the counter is not decremented; the context is not released.
DiscardKeepsCount(D) ==
  /\ reusable' = reusable \ D
  /\ UNCHANGED reusableCount
  /\ live' = live \ D
  /\ stale' = stale \ D

DiscardLeaks(D) ==
  /\ reusable' = reusable \ D
  /\ reusableCount' = reusableCount - Cardinality(D)
  /\ UNCHANGED <<live, stale>>

\* The unused contexts D are deleted from the pool and released.
Discard(D) ==
  /\ reusable' = reusable \ D
  /\ reusableCount' = reusableCount - Cardinality(D)
  /\ live' = live \ D
  /\ stale' = stale \ D

\* Seeded fault: the context handed out is not erased from fUnusedContexts.
TakeUnusedKeepsIt(u) ==
  /\ upc[u] = "reuse"
  /\ \E D \in SUBSET (unused \cap stale), c \in unused \ stale :
       /\ Discard(D)
       /\ unused' = unused \ D
       /\ used' = used \cup {c}
       /\ held' = [held EXCEPT ![u] = c]
  /\ upc' = [upc EXCEPT ![u] = "using"]
  /\ UNCHANGED <<enabled, reusing, eventVars, wants, clearVars, awaited>>

\* Search of fUnusedContexts under the mutex.  The preferred context, or else
\* the order of the pointers, decides which changed contexts are met first.
TakeUnused(u) ==
  /\ upc[u] = "reuse"
  /\ \E D \in SUBSET (unused \cap stale), c \in unused \ stale :
       /\ Discard(D)
       /\ unused' = unused \ (D \cup {c})
       /\ used' = used \cup {c}
       /\ held' = [held EXCEPT ![u] = c]
  /\ upc' = [upc EXCEPT ![u] = "using"]
  /\ UNCHANGED <<enabled, reusing, eventVars, wants, clearVars, awaited>>

FindNoUnused(u) ==
  /\ upc[u] = "reuse"
  /\ unused \subseteq stale
  /\ Discard(unused)
  /\ unused' = {}
  /\ upc' = [upc EXCEPT ![u] = "create"]
  /\ UNCHANGED <<enabled, reusing, used, eventVars, held, wants, clearVars, awaited>>

\* _RetainNewContext, outside the mutex: creation, required scripts and the
\* delegate's InitializeJSContext, whose error does not keep the context out.
CreateContext(u) ==
  /\ upc[u] = "create"
  /\ \E c \in Contexts \ live :
       /\ live' = live \cup {c}
       /\ held' = [held EXCEPT ![u] = c]
  /\ upc' = [upc EXCEPT ![u] = "register"]
  /\ UNCHANGED <<enabled, reusing, poolVars, stale, eventVars, wants, clearVars, awaited>>

CreateContextFails(u) ==
  /\ upc[u] = "create"
  /\ upc' = [upc EXCEPT ![u] = "idle"]
  /\ UNCHANGED <<enabled, reusing, poolVars, live, stale, eventVars, held, wants,
                 clearVars, awaited>>

GrantsReuse(u) == wants[u] /\ reusing /\ reusableCount < MaxReusable

\* Second mutex section of RetainContext: the new context becomes used.
RegisterContext(u) ==
  /\ upc[u] = "register"
  /\ used' = used \cup {held[u]}
  /\ IF GrantsReuse(u)
     THEN /\ reusable' = reusable \cup {held[u]}
          /\ reusableCount' = reusableCount + 1
     ELSE UNCHANGED <<reusable, reusableCount>>
  /\ upc' = [upc EXCEPT ![u] = "using"]
  /\ UNCHANGED <<enabled, reusing, unused, live, stale, eventVars, held, wants,
                 clearVars, awaited>>

\* Seeded faults: the event is dropped without Unlock(); it is unlocked when
\* any context is released.
SignalForgetsUnlock ==
  /\ noUsedEvent' = IF used' = {} THEN None ELSE noUsedEvent
  /\ UNCHANGED unlocked

SignalAtAnyRelease ==
  IF noUsedEvent # None
  THEN /\ unlocked' = unlocked \cup {noUsedEvent}
       /\ noUsedEvent' = None
  ELSE UNCHANGED eventVars

\* Unlock of the shared event, and its release, when no context is used.
SignalNoUsed ==
  IF used' = {} /\ noUsedEvent # None
  THEN /\ unlocked' = unlocked \cup {noUsedEvent}
       /\ noUsedEvent' = None
  ELSE UNCHANGED eventVars

\* Seeded fault: the counter goes down for contexts it never counted.
ForgetUncounted(c) ==
  /\ reusable' = reusable \ {c}
  /\ reusableCount' = reusableCount - 1

\* The VJSContextInfo of c is deleted.
Forget(c) ==
  /\ reusable' = reusable \ {c}
  /\ reusableCount' = IF c \in reusable THEN reusableCount - 1 ELSE reusableCount

\* Mutex section of ReleaseContext: keep the context for reuse or drop it.
ReleaseContext(u) ==
  LET c == held[u]
      keep == reusing /\ c \in reusable /\ c \notin stale
  IN /\ upc[u] = "using"
     /\ used' = used \ {c}
     /\ unused' = IF keep THEN unused \cup {c} ELSE unused
     /\ IF keep THEN UNCHANGED <<reusable, reusableCount>> ELSE Forget(c)
     /\ SignalNoUsed
     /\ upc' = [upc EXCEPT ![u] = IF keep THEN "idle" ELSE "destroy"]
     /\ held' = [held EXCEPT ![u] = IF keep THEN None ELSE c]
     /\ awaited' = [a \in Clearers |-> awaited[a] \ {c}]
     /\ UNCHANGED <<enabled, reusing, live, stale, wants, clearVars>>

\* _ReleaseContext outside the mutex: UninitializeJSContext, last reference.
DestroyContext(u) ==
  /\ upc[u] = "destroy"
  /\ live' = live \ {held[u]}
  /\ stale' = stale \ {held[u]}
  /\ held' = [held EXCEPT ![u] = None]
  /\ upc' = [upc EXCEPT ![u] = "idle"]
  /\ UNCHANGED <<enabled, reusing, poolVars, eventVars, wants, clearVars, awaited>>

-----------------------------------------------------------------------------
(* Threads that clear the pool: Stop() and DropAllJSContexts().             *)

ClearSavesState(a) ==
  /\ cpc[a] = "idle"
  /\ saved' = [saved EXCEPT ![a] = enabled]
  /\ cpc' = [cpc EXCEPT ![a] = "disable"]
  /\ UNCHANGED <<enabled, reusing, poolVars, live, stale, eventVars, userVars,
                 myEvent, awaited>>

ClearDisables(a) ==
  /\ cpc[a] = "disable"
  /\ enabled' = FALSE
  /\ cpc' = [cpc EXCEPT ![a] = "look"]
  /\ UNCHANGED <<reusing, poolVars, live, stale, eventVars, userVars, saved,
                 myEvent, awaited>>

\* An event object that nobody references any more can be allocated again.
FreshEvents == Events \ ({noUsedEvent} \cup {myEvent[b] : b \in Clearers})

\* Seeded fault: a second waiter replaces the event the first one sleeps on.
WaitReplacesEvent(a) ==
  /\ cpc[a] = "look"
  /\ IF used = {}
     THEN /\ cpc' = [cpc EXCEPT ![a] = "sweep"]
          /\ UNCHANGED <<eventVars, myEvent>>
     ELSE /\ noUsedEvent' \in FreshEvents
          /\ unlocked' = unlocked \ {noUsedEvent'}
          /\ myEvent' = [myEvent EXCEPT ![a] = noUsedEvent']
          /\ cpc' = [cpc EXCEPT ![a] = "wait"]
  /\ awaited' = [awaited EXCEPT ![a] = used]
  /\ UNCHANGED <<enabled, reusing, poolVars, live, stale, userVars, saved>>

\* The caller of Clear shares the pool's event, which the first one creates.
WaitForNumberOfUsedContextEqualZero(a) ==
  /\ cpc[a] = "look"
  /\ IF used = {}
     THEN /\ cpc' = [cpc EXCEPT ![a] = "sweep"]
          /\ UNCHANGED <<eventVars, myEvent>>
     ELSE /\ IF noUsedEvent # None
             THEN UNCHANGED eventVars
             ELSE /\ noUsedEvent' \in FreshEvents
                  /\ unlocked' = unlocked \ {noUsedEvent'}
          /\ myEvent' = [myEvent EXCEPT ![a] = noUsedEvent']
          /\ cpc' = [cpc EXCEPT ![a] = "wait"]
  /\ awaited' = [awaited EXCEPT ![a] = used]
  /\ UNCHANGED <<enabled, reusing, poolVars, live, stale, userVars, saved>>

\* syncEvent->Lock() returns once the event is unlocked; then Release().
ClearWakes(a) ==
  /\ cpc[a] = "wait" /\ myEvent[a] \in unlocked
  /\ myEvent' = [myEvent EXCEPT ![a] = None]
  /\ cpc' = [cpc EXCEPT ![a] = "sweep"]
  /\ UNCHANGED <<enabled, reusing, poolVars, live, stale, eventVars, userVars,
                 saved, awaited>>

\* Mutex section of Clear: every unused context is destroyed.
ClearSweeps(a) ==
  /\ cpc[a] = "sweep"
  /\ Discard(unused)
  /\ unused' = {}
  /\ cpc' = [cpc EXCEPT ![a] = "restore"]
  /\ UNCHANGED <<enabled, reusing, used, eventVars, userVars, saved, myEvent, awaited>>

ClearRestores(a) ==
  /\ cpc[a] = "restore"
  /\ enabled' = saved[a]
  /\ cpc' = [cpc EXCEPT ![a] = "idle"]
  /\ UNCHANGED <<reusing, poolVars, live, stale, eventVars, userVars, saved,
                 myEvent, awaited>>

-----------------------------------------------------------------------------
(* The rest of the program.                                                 *)

SetEnabled(inEnabled) ==
  /\ enabled' = inEnabled
  /\ UNCHANGED <<reusing, poolVars, live, stale, eventVars, userVars, clearVars, awaited>>

\* Someone edits a script that live contexts have included.
IncludedFilesChange ==
  /\ \E S \in (SUBSET live) \ {{}} : stale' = stale \cup S
  /\ UNCHANGED <<enabled, reusing, poolVars, live, eventVars, userVars, clearVars, awaited>>

RetainSteps(u) == TakeUnused(u) \/ FindNoUnused(u) \/ CreateContext(u)
                  \/ CreateContextFails(u) \/ RegisterContext(u)

UserNext(u) == \/ \E r \in BOOLEAN : RetainContext(u, r)
               \/ RetainSteps(u) \/ ReleaseContext(u) \/ DestroyContext(u)

ClearSteps(a) == ClearDisables(a) \/ WaitForNumberOfUsedContextEqualZero(a)
                 \/ ClearWakes(a) \/ ClearSweeps(a) \/ ClearRestores(a)

ClearNext(a) == ClearSavesState(a) \/ ClearSteps(a)

Next == \/ \E u \in Users : UserNext(u)
        \/ \E a \in Clearers : ClearNext(a)
        \/ \E b \in Toggles : SetEnabled(b)
        \/ IncludedFilesChange

Spec == Init /\ [][Next]_vars

\* A thread inside a call of the pool is scheduled, and a script ends.
Fairness ==
  /\ \A u \in Users : WF_vars(RetainSteps(u) \/ ReleaseContext(u) \/ DestroyContext(u))
  /\ \A a \in Clearers : WF_vars(ClearSteps(a))

FairSpec == Spec /\ Fairness

-----------------------------------------------------------------------------
(* Properties.                                                              *)

\* fReusableContextCount, the number the limit of 50 is tested on, is exactly
\* the number of pooled contexts marked reusable, whatever calls overlap.
CountIsExact == /\ reusable \subseteq used \cup unused
                /\ reusableCount = Cardinality(reusable)

\* The pool never keeps more idle contexts than kREUSABLE_JSCONTEXT_MAX_COUNT.
PoolWithinLimit == Cardinality(unused) <= MaxReusable

\* A context that a thread runs a script in is used, alive, out of reach of
\* Clear's sweep, and no other thread holds it.
ExclusiveUse ==
  /\ \A u \in Users : upc[u] = "using" => held[u] \in (used \cap live) \ unused
  /\ \A u, v \in Users : u # v /\ held[u] # None => held[u] # held[v]

\* Every live context is in the pool or in the hands of one thread about to
\* register or to destroy it: the pool neither leaks a context nor lists a
\* destroyed one.
NothingLeaks ==
  live = used \cup unused
         \cup {held[u] : u \in {v \in Users : upc[v] \in {"register", "destroy"}}}

\* A sleeping Clear sleeps on the event that the last release will unlock:
\* no wake-up is lost, even when a second Clear shares or replaces the event.
NoLostWakeup ==
  \A a \in Clearers : cpc[a] = "wait" /\ myEvent[a] \notin unlocked
                        => myEvent[a] = noUsedEvent /\ used # {}

\* When Clear starts to sweep, every use that was in progress when it looked
\* has ended (what Stop() and ReloadCatalog rely on).
ClearIsABarrier == \A a \in Clearers : cpc[a] = "sweep" => awaited[a] = {}

\* Clear() returns, if scripts end and nobody else enables the pool.
ClearReturns == \A a \in Clearers : cpc[a] = "look" ~> cpc[a] = "idle"

\* A pool that stays disabled ends up with no context in use.
DisabledPoolDrains == <>[](~enabled) => <>[](used = {})

\* xbox_assert(fReusableContextCount == 0) in Clear().
ClearAssertion == [][\A a \in Clearers : ClearSweeps(a) => reusableCount' = 0]_vars

\* "restore the enabled state" in Clear(): in a pool that nothing but Clear
\* disables, the state is enabled again once every Clear has returned.
EnabledIsRestored == (\A a \in Clearers : cpc[a] = "idle") => enabled

-----------------------------------------------------------------------------
(* The inductive invariant behind the safety properties.                    *)

\* Contexts: where each one is, and who may touch it.
PlaceInv ==
  /\ used \cap unused = {}
  /\ used \cup unused \subseteq live
  /\ unused \subseteq reusable
  /\ reusable \subseteq used \cup unused
  /\ \A u \in Users :
       /\ upc[u] \in {"idle", "reuse", "create"} => held[u] = None
       /\ upc[u] = "using" => held[u] \in used
       /\ upc[u] \in {"register", "destroy"} => held[u] \in live \ (used \cup unused)
  /\ \A u, v \in Users : u # v /\ held[u] # None => held[u] # held[v]
  /\ \A c \in live : \/ c \in used \cup unused
                     \/ \E u \in Users : upc[u] \in {"register", "destroy"} /\ held[u] = c

\* The counter and its limit.
CountInv == reusableCount = Cardinality(reusable) /\ reusableCount <= MaxReusable

\* The event handshake: a clearer sleeps on the pool's event or on an unlocked
\* one, and the uses it waits for are still in the used map or all ended.
EventInv ==
  /\ noUsedEvent # None => noUsedEvent \notin unlocked /\ used # {}
  /\ \A a \in Clearers :
       /\ cpc[a] = "wait" => myEvent[a] \in Events
       /\ cpc[a] = "wait" /\ myEvent[a] \notin unlocked
            => myEvent[a] = noUsedEvent /\ awaited[a] \subseteq used
       /\ cpc[a] = "wait" /\ myEvent[a] \in unlocked => awaited[a] = {}
       /\ cpc[a] = "sweep" => awaited[a] = {}

IInv == TypeOK /\ PlaceInv /\ CountInv /\ EventInv

-----------------------------------------------------------------------------
(* The handshake on its own.                                                *)

gateOf == [a \in Clearers |->
             CASE cpc[a] = "wait" -> IF myEvent[a] \in unlocked THEN "open" ELSE "in"
               [] cpc[a] = "sweep" -> "open"
               [] OTHER -> "out"]

Gate == INSTANCE ZeroGate WITH Members <- Contexts, Waiters <- Clearers,
                               members <- used, gate <- gateOf

\* The pool's event handshake implements the zero gate.
ImplementsGate == Gate!Spec
=============================================================================
