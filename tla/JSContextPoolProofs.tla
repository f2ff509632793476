------------------------- MODULE JSContextPoolProofs -------------------------
(***************************************************************************)
(* The safety properties of VJSContextPool for any number of threads,      *)
(* contexts and events and any limit.  IInv of JSContextPool is inductive; *)
(* each property follows from one of its parts.                            *)
(***************************************************************************)
EXTENDS JSContextPool, FiniteSetTheorems, TLAPS

-----------------------------------------------------------------------------
(* The counter.                                                             *)

\* The deletion of reusable contexts D keeps the counter exact.
LEMMA DiscardCounts ==
  ASSUME TypeOK, CountInv, NEW D \in SUBSET reusable, Discard(D)
  PROVE  /\ reusableCount' \in Nat
         /\ CountInv'
<1>1. IsFiniteSet(reusable)
  BY PoolAssumption, FS_Subset DEF TypeOK
<1>2. /\ IsFiniteSet(reusable \ D)
      /\ Cardinality(reusable \ D) = Cardinality(reusable) - Cardinality(reusable \cap D)
  BY <1>1, FS_Difference
<1>3. reusable \cap D = D
  OBVIOUS
<1>4. Cardinality(D) \in Nat /\ Cardinality(reusable \ D) \in Nat
  BY <1>1, <1>2, FS_Subset, FS_CardinalityType
<1>5. Cardinality(reusable \ D) = reusableCount - Cardinality(D)
  BY <1>2, <1>3 DEF CountInv
<1>6. reusable' = reusable \ D /\ reusableCount' = reusableCount - Cardinality(D)
  BY DEF Discard
<1>7. reusableCount' = Cardinality(reusable')
  BY <1>5, <1>6
<1>8. reusableCount' \in Nat
  BY <1>4, <1>5, <1>6
<1>9. reusableCount \in Nat /\ reusableCount <= MaxReusable
  BY DEF CountInv, TypeOK
<1>10. reusableCount' <= MaxReusable
  BY <1>4, <1>6, <1>9, PoolAssumption
<1>11. QED
  BY <1>7, <1>8, <1>10 DEF CountInv

\* So does the deletion of one context, counted or not.
LEMMA ForgetCounts ==
  ASSUME TypeOK, CountInv, NEW c, Forget(c)
  PROVE  /\ reusableCount' \in Nat
         /\ CountInv'
<1>1. IsFiniteSet(reusable)
  BY PoolAssumption, FS_Subset DEF TypeOK
<1>2. /\ IsFiniteSet(reusable \ {c})
      /\ Cardinality(reusable \ {c}) = IF c \in reusable THEN Cardinality(reusable) - 1
                                       ELSE Cardinality(reusable)
  BY <1>1, FS_RemoveElement
<1>3. Cardinality(reusable \ {c}) \in Nat
  BY <1>2, FS_CardinalityType
<1>4. QED
  BY <1>2, <1>3, PoolAssumption DEF Forget, CountInv, TypeOK

\* A new context is counted only below the limit.
LEMMA RegisterCounts ==
  ASSUME TypeOK, PlaceInv, CountInv, NEW u \in Users, RegisterContext(u)
  PROVE  /\ reusableCount' \in Nat
         /\ CountInv'
<1>1. CASE ~GrantsReuse(u)
  BY <1>1 DEF RegisterContext, CountInv, TypeOK
<1>2. CASE GrantsReuse(u)
  <2>1. IsFiniteSet(reusable)
    BY PoolAssumption, FS_Subset DEF TypeOK
  <2>2. held[u] \notin reusable
    BY DEF RegisterContext, PlaceInv
  <2>3. Cardinality(reusable \cup {held[u]}) = Cardinality(reusable) + 1
    BY <2>1, <2>2, FS_AddElement
  <2>4. reusableCount < MaxReusable
    BY <1>2 DEF GrantsReuse
  <2>5. reusable' = reusable \cup {held[u]} /\ reusableCount' = reusableCount + 1
    BY <1>2 DEF RegisterContext
  <2>6. reusableCount \in Nat /\ reusableCount = Cardinality(reusable)
    BY DEF CountInv, TypeOK
  <2>7. QED
    BY <2>3, <2>4, <2>5, <2>6, PoolAssumption DEF CountInv
<1>3. QED
  BY <1>1, <1>2

\* Every step keeps the counter a natural number, exact and within the limit.
LEMMA CountStep ==
  ASSUME TypeOK, PlaceInv, CountInv, [Next]_vars
  PROVE  /\ reusableCount' \in Nat
         /\ CountInv'
<1> DEFINE Same == UNCHANGED <<reusable, reusableCount>>
<1>0. ASSUME Same PROVE reusableCount' \in Nat /\ CountInv'
  BY <1>0 DEF CountInv, TypeOK
<1>1. ASSUME NEW u \in Users, UserNext(u)
      PROVE  reusableCount' \in Nat /\ CountInv'
  <2>1. CASE TakeUnused(u)
    <3>1. PICK D \in SUBSET (unused \cap stale) : Discard(D)
      BY <2>1 DEF TakeUnused
    <3>2. D \in SUBSET reusable
      BY DEF PlaceInv
    <3>3. QED
      BY <3>1, <3>2, DiscardCounts
  <2>2. CASE FindNoUnused(u)
    <3>1. unused \in SUBSET reusable
      BY DEF PlaceInv
    <3>2. QED
      BY <2>2, <3>1, DiscardCounts DEF FindNoUnused
  <2>3. CASE RegisterContext(u)
    BY <2>3, RegisterCounts
  <2>4. CASE ReleaseContext(u)
    <3>1. CASE Forget(held[u])
      BY <3>1, ForgetCounts
    <3>2. CASE Same
      BY <3>2, <1>0
    <3>3. QED
      BY <2>4, <3>1, <3>2 DEF ReleaseContext
  <2>5. CASE \E r \in BOOLEAN : RetainContext(u, r)
    BY <2>5, <1>0 DEF RetainContext, poolVars
  <2>6. CASE CreateContext(u) \/ CreateContextFails(u) \/ DestroyContext(u)
    BY <2>6, <1>0 DEF CreateContext, CreateContextFails, DestroyContext, poolVars
  <2>7. QED
    BY <1>1, <2>1, <2>2, <2>3, <2>4, <2>5, <2>6 DEF UserNext, RetainSteps
<1>2. ASSUME NEW a \in Clearers, ClearNext(a)
      PROVE  reusableCount' \in Nat /\ CountInv'
  <2>1. CASE ClearSweeps(a)
    <3>1. unused \in SUBSET reusable
      BY DEF PlaceInv
    <3>2. QED
      BY <2>1, <3>1, DiscardCounts DEF ClearSweeps
  <2>2. CASE ~ClearSweeps(a)
    BY <1>2, <2>2, <1>0 DEF ClearNext, ClearSteps, ClearSavesState, ClearDisables,
       WaitForNumberOfUsedContextEqualZero, ClearWakes, ClearRestores, poolVars
  <2>3. QED
    BY <2>1, <2>2
<1>3. CASE (\E b \in Toggles : SetEnabled(b)) \/ IncludedFilesChange
  BY <1>3, <1>0 DEF SetEnabled, IncludedFilesChange, poolVars
<1>4. CASE UNCHANGED vars
  BY <1>4, <1>0 DEF vars, poolVars
<1>5. QED
  BY <1>1, <1>2, <1>3, <1>4 DEF Next

-----------------------------------------------------------------------------
(* Types.                                                                   *)

\* Every step keeps the variables in their types.
LEMMA TypeStep ==
  ASSUME TypeOK, PlaceInv, CountInv, [Next]_vars
  PROVE  TypeOK'
<1>0. reusableCount' \in Nat
  BY CountStep
<1>1. ASSUME NEW u \in Users, UserNext(u)
      PROVE  TypeOK'
  <2>0. held[u] \in Contexts \/ upc[u] \notin {"register", "using", "destroy"}
    BY DEF TypeOK, PlaceInv
  <2>1. CASE \E r \in BOOLEAN : RetainContext(u, r)
    BY <2>1, <1>0 DEF TypeOK, RetainContext, poolVars, eventVars, clearVars
  <2>2. CASE TakeUnused(u)
    BY <2>2, <1>0 DEF TypeOK, TakeUnused, Discard, eventVars, clearVars
  <2>3. CASE FindNoUnused(u)
    BY <2>3, <1>0 DEF TypeOK, FindNoUnused, Discard, eventVars, clearVars
  <2>4. CASE CreateContext(u)
    BY <2>4, <1>0 DEF TypeOK, CreateContext, poolVars, eventVars, clearVars
  <2>5. CASE CreateContextFails(u)
    BY <2>5, <1>0 DEF TypeOK, CreateContextFails, poolVars, eventVars, clearVars
  <2>6. CASE RegisterContext(u)
    BY <2>6, <2>0, <1>0 DEF TypeOK, RegisterContext, eventVars, clearVars
  <2>7. CASE ReleaseContext(u)
    <3>1. noUsedEvent' \in Events \cup {None} /\ unlocked' \subseteq Events
      BY <2>7 DEF TypeOK, ReleaseContext, SignalNoUsed, eventVars
    <3>2. reusable' \subseteq Contexts
      BY <2>7 DEF TypeOK, ReleaseContext, Forget
    <3>3. QED
      BY <2>7, <3>1, <3>2, <2>0, <1>0 DEF TypeOK, ReleaseContext, clearVars
  <2>8. CASE DestroyContext(u)
    BY <2>8, <1>0 DEF TypeOK, DestroyContext, poolVars, eventVars, clearVars
  <2>9. QED
    BY <1>1, <2>1, <2>2, <2>3, <2>4, <2>5, <2>6, <2>7, <2>8 DEF UserNext, RetainSteps
<1>2. ASSUME NEW a \in Clearers, ClearNext(a)
      PROVE  TypeOK'
  <2>1. CASE ClearSavesState(a)
    BY <2>1 DEF TypeOK, ClearSavesState, poolVars, eventVars, userVars
  <2>2. CASE ClearDisables(a)
    BY <2>2 DEF TypeOK, ClearDisables, poolVars, eventVars, userVars
  <2>3. CASE WaitForNumberOfUsedContextEqualZero(a)
    <3>1. noUsedEvent' \in Events \cup {None} /\ unlocked' \subseteq Events
      BY <2>3 DEF TypeOK, WaitForNumberOfUsedContextEqualZero, eventVars, FreshEvents
    <3>2. myEvent' \in [Clearers -> Events \cup {None}]
      BY <2>3, <3>1 DEF TypeOK, WaitForNumberOfUsedContextEqualZero
    <3>3. cpc' \in [Clearers -> {"idle", "disable", "look", "wait", "sweep", "restore"}]
      BY <2>3 DEF TypeOK, WaitForNumberOfUsedContextEqualZero
    <3>4. QED
      BY <2>3, <3>1, <3>2, <3>3
         DEF TypeOK, WaitForNumberOfUsedContextEqualZero, poolVars, userVars
  <2>4. CASE ClearWakes(a)
    BY <2>4 DEF TypeOK, ClearWakes, poolVars, eventVars, userVars
  <2>5. CASE ClearSweeps(a)
    BY <2>5, <1>0 DEF TypeOK, ClearSweeps, Discard, eventVars, userVars
  <2>6. CASE ClearRestores(a)
    BY <2>6 DEF TypeOK, ClearRestores, poolVars, eventVars, userVars
  <2>7. QED
    BY <1>2, <2>1, <2>2, <2>3, <2>4, <2>5, <2>6 DEF ClearNext, ClearSteps
<1>3. ASSUME NEW b \in Toggles, SetEnabled(b)
      PROVE  TypeOK'
  BY <1>3, PoolAssumption DEF TypeOK, SetEnabled, poolVars, eventVars, userVars, clearVars
<1>4. CASE IncludedFilesChange
  BY <1>4 DEF TypeOK, IncludedFilesChange, poolVars, eventVars, userVars, clearVars
<1>5. CASE UNCHANGED vars
  BY <1>5 DEF TypeOK, vars, poolVars, eventVars, userVars, clearVars
<1>6. QED
  BY <1>1, <1>2, <1>3, <1>4, <1>5 DEF Next

-----------------------------------------------------------------------------
(* Where the contexts are.                                                  *)

\* Every step keeps each context in one place, in the hands of one thread.
LEMMA PlaceStep ==
  ASSUME TypeOK, PlaceInv, [Next]_vars
  PROVE  PlaceInv'
<1> USE PoolAssumption
<1>1. ASSUME NEW u \in Users, UserNext(u)
      PROVE  PlaceInv'
  <2>1. CASE \E r \in BOOLEAN : RetainContext(u, r)
    BY <2>1 DEF TypeOK, PlaceInv, RetainContext, poolVars
  <2>2. CASE TakeUnused(u)
    BY <2>2 DEF TypeOK, PlaceInv, TakeUnused, Discard
  <2>3. CASE FindNoUnused(u)
    BY <2>3 DEF TypeOK, PlaceInv, FindNoUnused, Discard
  <2>4. CASE CreateContext(u)
    BY <2>4 DEF TypeOK, PlaceInv, CreateContext, poolVars
  <2>5. CASE CreateContextFails(u)
    BY <2>5 DEF TypeOK, PlaceInv, CreateContextFails, poolVars
  <2>6. CASE RegisterContext(u)
    BY <2>6 DEF TypeOK, PlaceInv, RegisterContext
  <2>7. CASE ReleaseContext(u)
    BY <2>7 DEF TypeOK, PlaceInv, ReleaseContext, Forget
  <2>8. CASE DestroyContext(u)
    BY <2>8 DEF TypeOK, PlaceInv, DestroyContext, poolVars
  <2>9. QED
    BY <1>1, <2>1, <2>2, <2>3, <2>4, <2>5, <2>6, <2>7, <2>8 DEF UserNext, RetainSteps
<1>2. ASSUME NEW a \in Clearers, ClearNext(a)
      PROVE  PlaceInv'
  <2>1. CASE ClearSweeps(a)
    BY <2>1 DEF TypeOK, PlaceInv, ClearSweeps, Discard, userVars
  <2>2. CASE ~ClearSweeps(a)
    BY <1>2, <2>2 DEF PlaceInv, ClearNext, ClearSteps, ClearSavesState, ClearDisables,
       WaitForNumberOfUsedContextEqualZero, ClearWakes, ClearRestores, poolVars, userVars
  <2>3. QED
    BY <2>1, <2>2
<1>3. CASE (\E b \in Toggles : SetEnabled(b)) \/ IncludedFilesChange
  BY <1>3 DEF PlaceInv, SetEnabled, IncludedFilesChange, poolVars, userVars
<1>4. CASE UNCHANGED vars
  BY <1>4 DEF PlaceInv, vars, poolVars, userVars
<1>5. QED
  BY <1>1, <1>2, <1>3, <1>4 DEF Next

-----------------------------------------------------------------------------
(* The event handshake.                                                     *)

\* Every step keeps each sleeping clearer on an event that will be unlocked,
\* or already is, and what it waits for among the used contexts.
LEMMA EventStep ==
  ASSUME TypeOK, PlaceInv, EventInv, [Next]_vars
  PROVE  EventInv'
<1> USE PoolAssumption
<1>1. ASSUME NEW u \in Users, UserNext(u)
      PROVE  EventInv'
  <2>1. CASE ReleaseContext(u)
    <3>1. CASE used' = {} /\ noUsedEvent # None
      <4>1. /\ unlocked' = unlocked \cup {noUsedEvent}
            /\ noUsedEvent' = None
        BY <2>1, <3>1 DEF ReleaseContext, SignalNoUsed
      <4>2. /\ awaited' = [a \in Clearers |-> awaited[a] \ {held[u]}]
            /\ used' = used \ {held[u]}
            /\ cpc' = cpc /\ myEvent' = myEvent
        BY <2>1 DEF ReleaseContext, clearVars
      <4>3. ASSUME NEW a \in Clearers, cpc'[a] = "wait"
            PROVE  myEvent'[a] \in Events /\ myEvent'[a] \in unlocked' /\ awaited'[a] = {}
        BY <4>1, <4>2, <4>3, <3>1 DEF EventInv
      <4>4. ASSUME NEW a \in Clearers, cpc'[a] = "sweep"
            PROVE  awaited'[a] = {}
        BY <4>2, <4>4 DEF EventInv
      <4>5. QED
        BY <4>1, <4>3, <4>4 DEF EventInv
    <3>2. CASE ~(used' = {} /\ noUsedEvent # None)
      <4>1. /\ unlocked' = unlocked /\ noUsedEvent' = noUsedEvent
            /\ awaited' = [a \in Clearers |-> awaited[a] \ {held[u]}]
            /\ used' = used \ {held[u]}
            /\ cpc' = cpc /\ myEvent' = myEvent
        BY <2>1, <3>2 DEF ReleaseContext, SignalNoUsed, eventVars, clearVars
      <4>2. QED
        BY <4>1, <3>2 DEF EventInv
    <3>3. QED
      BY <3>1, <3>2
  <2>2. CASE ~ReleaseContext(u)
    <3>1. /\ UNCHANGED <<eventVars, clearVars, awaited>>
          /\ used \subseteq used'
      BY <1>1, <2>2 DEF UserNext, RetainSteps, RetainContext, TakeUnused, FindNoUnused,
         CreateContext, CreateContextFails, RegisterContext, DestroyContext, poolVars
    <3>2. QED
      BY <3>1 DEF EventInv, eventVars, clearVars
  <2>3. QED
    BY <2>1, <2>2
<1>2. ASSUME NEW a \in Clearers, ClearNext(a)
      PROVE  EventInv'
  <2>1. CASE ClearSavesState(a)
    BY <2>1 DEF TypeOK, EventInv, ClearSavesState, poolVars, eventVars
  <2>2. CASE ClearDisables(a)
    BY <2>2 DEF TypeOK, EventInv, ClearDisables, poolVars, eventVars
  <2>3. CASE WaitForNumberOfUsedContextEqualZero(a)
    <3>1. CASE used = {}
      BY <2>3, <3>1 DEF TypeOK, EventInv, WaitForNumberOfUsedContextEqualZero,
                        poolVars, eventVars
    <3>2. CASE used # {} /\ noUsedEvent # None
      BY <2>3, <3>2 DEF TypeOK, EventInv, WaitForNumberOfUsedContextEqualZero,
                        poolVars, eventVars
    <3>3. CASE used # {} /\ noUsedEvent = None
      <4>1. /\ noUsedEvent' \in FreshEvents /\ unlocked' = unlocked \ {noUsedEvent'}
            /\ myEvent' = [myEvent EXCEPT ![a] = noUsedEvent']
            /\ cpc' = [cpc EXCEPT ![a] = "wait"]
            /\ awaited' = [awaited EXCEPT ![a] = used]
            /\ used' = used
        BY <2>3, <3>3 DEF WaitForNumberOfUsedContextEqualZero, poolVars
      <4>2. noUsedEvent' \in Events /\ noUsedEvent' # None
        BY <4>1 DEF FreshEvents
      <4>3. \A b \in Clearers : myEvent[b] # noUsedEvent'
        BY <4>1 DEF FreshEvents
      <4>4. ASSUME NEW b \in Clearers, b # a, cpc[b] = "wait"
            PROVE  myEvent[b] \in unlocked
        BY <4>4, <3>3 DEF EventInv
      <4>5. QED
        BY <4>1, <4>2, <4>3, <4>4, <3>3 DEF EventInv, TypeOK
    <3>4. QED
      BY <3>1, <3>2, <3>3
  <2>4. CASE ClearWakes(a)
    BY <2>4 DEF TypeOK, EventInv, ClearWakes, poolVars, eventVars
  <2>5. CASE ClearSweeps(a)
    BY <2>5 DEF TypeOK, EventInv, ClearSweeps, eventVars
  <2>6. CASE ClearRestores(a)
    BY <2>6 DEF TypeOK, EventInv, ClearRestores, poolVars, eventVars
  <2>7. QED
    BY <1>2, <2>1, <2>2, <2>3, <2>4, <2>5, <2>6 DEF ClearNext, ClearSteps
<1>3. CASE (\E b \in Toggles : SetEnabled(b)) \/ IncludedFilesChange
  BY <1>3 DEF EventInv, SetEnabled, IncludedFilesChange, poolVars, eventVars, clearVars
<1>4. CASE UNCHANGED vars
  BY <1>4 DEF EventInv, vars, poolVars, eventVars, clearVars
<1>5. QED
  BY <1>1, <1>2, <1>3, <1>4 DEF Next

-----------------------------------------------------------------------------
(* The inductive invariant and the properties that follow from it.          *)

\* IInv holds in every state of every behaviour of the pool.
THEOREM Invariance == Spec => []IInv
<1>1. Init => IInv
  BY PoolAssumption, FS_EmptySet DEF Init, IInv, TypeOK, PlaceInv, CountInv, EventInv
<1>2. IInv /\ [Next]_vars => IInv'
  BY TypeStep, PlaceStep, CountStep, EventStep DEF IInv
<1>3. QED
  BY <1>1, <1>2, PTL DEF Spec

\* fReusableContextCount is a natural number and every other variable keeps
\* its type: the unsigned counter of the code never wraps below zero.
THEOREM TypeCorrect == Spec => []TypeOK
<1>1. IInv => TypeOK
  BY DEF IInv
<1>2. QED
  BY <1>1, Invariance, PTL

\* The counter tested against the limit of 50 is exact.
THEOREM ExactCount == Spec => []CountIsExact
<1>1. IInv => CountIsExact
  BY DEF IInv, PlaceInv, CountInv, CountIsExact
<1>2. QED
  BY <1>1, Invariance, PTL

\* The idle contexts never outnumber kREUSABLE_JSCONTEXT_MAX_COUNT.
THEOREM WithinLimit == Spec => []PoolWithinLimit
<1>1. IInv => PoolWithinLimit
  <2> SUFFICES ASSUME IInv PROVE PoolWithinLimit
    OBVIOUS
  <2>1. IsFiniteSet(reusable) /\ unused \in SUBSET reusable
    BY PoolAssumption, FS_Subset DEF IInv, TypeOK, PlaceInv
  <2>2. Cardinality(unused) <= Cardinality(reusable)
    BY <2>1, FS_Subset
  <2>3. Cardinality(unused) \in Nat /\ Cardinality(reusable) \in Nat
    BY <2>1, FS_Subset, FS_CardinalityType
  <2>4. Cardinality(reusable) <= MaxReusable
    BY DEF IInv, CountInv
  <2>5. QED
    BY <2>2, <2>3, <2>4, PoolAssumption DEF PoolWithinLimit
<1>2. QED
  BY <1>1, Invariance, PTL

\* No two threads run scripts in one context, and none runs in a context that
\* is idle in the pool or destroyed.
THEOREM Exclusive == Spec => []ExclusiveUse
<1>1. IInv => ExclusiveUse
  BY DEF IInv, PlaceInv, ExclusiveUse
<1>2. QED
  BY <1>1, Invariance, PTL

\* The pool neither leaks a context nor keeps a destroyed one.
THEOREM NoLeak == Spec => []NothingLeaks
<1>1. IInv => NothingLeaks
  BY DEF IInv, PlaceInv, NothingLeaks
<1>2. QED
  BY <1>1, Invariance, PTL

\* A sleeping Clear() will be woken by the last release.
THEOREM WakeupNotLost == Spec => []NoLostWakeup
<1>1. IInv => NoLostWakeup
  BY PoolAssumption DEF IInv, EventInv, NoLostWakeup
<1>2. QED
  BY <1>1, Invariance, PTL

\* Clear() sweeps only after every use it found in progress has ended.
THEOREM ClearBarrier == Spec => []ClearIsABarrier
<1>1. IInv => ClearIsABarrier
  BY DEF IInv, EventInv, ClearIsABarrier
<1>2. QED
  BY <1>1, Invariance, PTL

-----------------------------------------------------------------------------
(* The handshake implements the zero gate.                                  *)

\* A step that touches neither the used contexts, the event nor the place of a
\* clearer relative to its gate is a stutter of the gate.
LEMMA GateStutters ==
  ASSUME used' = used, gateOf' = gateOf
  PROVE  UNCHANGED Gate!vars
BY DEF Gate!vars

\* The clearers keep their gates when only contexts or flags change.
LEMMA GateKept ==
  ASSUME UNCHANGED <<cpc, myEvent, unlocked>>
  PROVE  gateOf' = gateOf
BY DEF gateOf

\* Every step of the pool is a step of the gate or leaves it unchanged.
LEMMA GateStep ==
  ASSUME IInv, [Next]_vars
  PROVE  [Gate!Next]_(Gate!vars)
<1> USE PoolAssumption
<1>0. TypeOK /\ PlaceInv /\ EventInv
  BY DEF IInv
<1>1. ASSUME NEW u \in Users, UserNext(u)
      PROVE  [Gate!Next]_(Gate!vars)
  <2>1. CASE TakeUnused(u)
    <3>1. PICK c \in unused : used' = used \cup {c}
      BY <2>1 DEF TakeUnused
    <3>2. gateOf' = gateOf
      BY <2>1, GateKept DEF TakeUnused, clearVars, eventVars
    <3>3. c \in Contexts \ used
      BY <1>0 DEF TypeOK, PlaceInv
    <3>4. Gate!Add(c)
      BY <3>1, <3>2, <3>3 DEF Gate!Add
    <3>5. QED
      BY <3>3, <3>4 DEF Gate!Next
  <2>2. CASE RegisterContext(u)
    <3>1. used' = used \cup {held[u]}
      BY <2>2 DEF RegisterContext
    <3>2. gateOf' = gateOf
      BY <2>2, GateKept DEF RegisterContext, clearVars, eventVars
    <3>3. held[u] \in Contexts \ used
      BY <1>0, <2>2 DEF TypeOK, PlaceInv, RegisterContext
    <3>4. Gate!Add(held[u])
      BY <3>1, <3>2, <3>3 DEF Gate!Add
    <3>5. QED
      BY <3>3, <3>4 DEF Gate!Next
  <2>3. CASE ReleaseContext(u)
    <3>1. used' = used \ {held[u]} /\ held[u] \in used /\ held[u] \in Contexts
      BY <1>0, <2>3 DEF TypeOK, PlaceInv, ReleaseContext
    <3>2. cpc' = cpc /\ myEvent' = myEvent
      BY <2>3 DEF ReleaseContext, clearVars
    <3>3. gateOf' = IF used' = {} THEN Gate!Opened ELSE gateOf
      <4>1. CASE used' = {} /\ noUsedEvent # None
        <5>1. unlocked' = unlocked \cup {noUsedEvent}
          BY <2>3, <4>1 DEF ReleaseContext, SignalNoUsed
        <5>2. ASSUME NEW a \in Clearers, cpc[a] = "wait"
              PROVE  myEvent[a] \in unlocked'
          BY <5>1, <5>2, <1>0 DEF EventInv
        <5>3. QED
          BY <3>2, <4>1, <5>2 DEF gateOf, Gate!Opened
      <4>2. CASE used' = {} /\ noUsedEvent = None
        <5>1. unlocked' = unlocked
          BY <2>3, <4>2 DEF ReleaseContext, SignalNoUsed, eventVars
        <5>2. ASSUME NEW a \in Clearers, cpc[a] = "wait"
              PROVE  myEvent[a] \in unlocked
          BY <4>2, <5>2, <1>0 DEF EventInv
        <5>3. QED
          BY <3>2, <4>2, <5>1, <5>2 DEF gateOf, Gate!Opened
      <4>3. CASE used' # {}
        <5>1. unlocked' = unlocked
          BY <2>3, <4>3 DEF ReleaseContext, SignalNoUsed, eventVars
        <5>2. QED
          BY <3>2, <4>3, <5>1 DEF gateOf
      <4>4. QED
        BY <4>1, <4>2, <4>3
    <3>4. Gate!Remove(held[u])
      BY <3>1, <3>3 DEF Gate!Remove
    <3>5. QED
      BY <3>1, <3>4 DEF Gate!Next
  <2>4. CASE ~(TakeUnused(u) \/ RegisterContext(u) \/ ReleaseContext(u))
    <3>1. used' = used /\ UNCHANGED <<cpc, myEvent, unlocked>>
      BY <1>1, <2>4 DEF UserNext, RetainSteps, RetainContext, FindNoUnused, CreateContext,
         CreateContextFails, DestroyContext, poolVars, eventVars, clearVars
    <3>2. QED
      BY <3>1, GateKept, GateStutters
  <2>5. QED
    BY <2>1, <2>2, <2>3, <2>4
<1>2. ASSUME NEW a \in Clearers, ClearNext(a)
      PROVE  [Gate!Next]_(Gate!vars)
  <2>1. CASE WaitForNumberOfUsedContextEqualZero(a)
    <3>1. used' = used
      BY <2>1 DEF WaitForNumberOfUsedContextEqualZero, poolVars
    <3>2. gateOf[a] = "out"
      BY <2>1 DEF gateOf, WaitForNumberOfUsedContextEqualZero
    <3>3. gateOf' = [gateOf EXCEPT ![a] = IF used = {} THEN "open" ELSE "in"]
      <4>1. CASE used = {}
        BY <2>1, <4>1, <1>0 DEF gateOf, WaitForNumberOfUsedContextEqualZero, eventVars, TypeOK
      <4>2. CASE used # {} /\ noUsedEvent # None
        <5>1. /\ noUsedEvent' = noUsedEvent /\ unlocked' = unlocked
              /\ myEvent' = [myEvent EXCEPT ![a] = noUsedEvent]
              /\ cpc' = [cpc EXCEPT ![a] = "wait"]
          BY <2>1, <4>2 DEF WaitForNumberOfUsedContextEqualZero, eventVars
        <5>2. noUsedEvent \notin unlocked
          BY <4>2, <1>0 DEF EventInv
        <5>3. QED
          BY <4>2, <5>1, <5>2, <1>0 DEF gateOf, TypeOK
      <4>3. CASE used # {} /\ noUsedEvent = None
        <5>1. /\ noUsedEvent' \in FreshEvents /\ unlocked' = unlocked \ {noUsedEvent'}
              /\ myEvent' = [myEvent EXCEPT ![a] = noUsedEvent']
              /\ cpc' = [cpc EXCEPT ![a] = "wait"]
          BY <2>1, <4>3 DEF WaitForNumberOfUsedContextEqualZero
        <5>2. \A b \in Clearers : myEvent[b] # noUsedEvent'
          BY <5>1 DEF FreshEvents
        <5>3. QED
          BY <4>3, <5>1, <5>2, <1>0 DEF gateOf, TypeOK
      <4>4. QED
        BY <4>1, <4>2, <4>3
    <3>4. Gate!Arrive(a)
      BY <3>1, <3>2, <3>3 DEF Gate!Arrive
    <3>5. QED
      BY <3>4 DEF Gate!Next
  <2>2. CASE ClearSweeps(a)
    <3>1. used' = used
      BY <2>2 DEF ClearSweeps
    <3>2. gateOf[a] = "open"
      BY <2>2 DEF gateOf, ClearSweeps
    <3>3. gateOf' = [gateOf EXCEPT ![a] = "out"]
      BY <2>2, <1>0 DEF gateOf, ClearSweeps, eventVars, TypeOK
    <3>4. Gate!Pass(a)
      BY <3>1, <3>2, <3>3 DEF Gate!Pass
    <3>5. QED
      BY <3>4 DEF Gate!Next
  <2>3. CASE ClearWakes(a)
    <3>1. used' = used
      BY <2>3 DEF ClearWakes, poolVars
    <3>2. gateOf' = gateOf
      BY <2>3, <1>0 DEF gateOf, ClearWakes, eventVars, TypeOK
    <3>3. QED
      BY <3>1, <3>2, GateStutters
  <2>4. CASE ClearSavesState(a) \/ ClearDisables(a) \/ ClearRestores(a)
    <3>1. used' = used
      BY <2>4 DEF ClearSavesState, ClearDisables, ClearRestores, poolVars
    <3>2. gateOf' = gateOf
      BY <2>4, <1>0 DEF gateOf, ClearSavesState, ClearDisables, ClearRestores, eventVars, TypeOK
    <3>3. QED
      BY <3>1, <3>2, GateStutters
  <2>5. QED
    BY <1>2, <2>1, <2>2, <2>3, <2>4 DEF ClearNext, ClearSteps
<1>3. CASE (\E b \in Toggles : SetEnabled(b)) \/ IncludedFilesChange \/ UNCHANGED vars
  <2>1. used' = used /\ UNCHANGED <<cpc, myEvent, unlocked>>
    BY <1>3 DEF SetEnabled, IncludedFilesChange, vars, poolVars, eventVars, clearVars
  <2>2. QED
    BY <2>1, GateKept, GateStutters
<1>4. QED
  BY <1>1, <1>2, <1>3 DEF Next

\* The pool's event handshake implements the abstract gate: nobody who waits
\* for "no context in use" leaves before the used set was empty, and everybody
\* who waits may leave from then on.
THEOREM GateRefinement == Spec => ImplementsGate
<1>1. Init => Gate!Init
  BY DEF Init, Gate!Init, gateOf
<1>2. IInv /\ [Next]_vars => [Gate!Next]_(Gate!vars)
  BY GateStep
<1>3. QED
  BY <1>1, <1>2, Invariance, PTL DEF Spec, ImplementsGate, Gate!Spec
=============================================================================
