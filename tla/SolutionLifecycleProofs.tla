-------------------------- MODULE SolutionLifecycleProofs --------------------------
(***************************************************************************)
(* What holds of the life of a solution for any number of requests,        *)
(* applications and openings: OnlyCurrentIsOpen and StoppedMeansUnused,    *)
(* by the inductive invariant of SolutionLifecycle.                        *)
(***************************************************************************)
EXTENDS SolutionLifecycle, TLAPS

\* The steps of a request.
RequestStep(t) ==
  \/ Proceeds(t) \/ Request(t) \/ AskApplications(t) \/ AskSolution(t) \/ QuitAsynchronously(t)

\* The steps of the main task.
MainStep ==
  \/ MainProceeds
  \/ OpenSolutionAsCurrentSolution \/ CloseCurrentSolution \/ FlushDataCache

\* It holds before the first solution is opened.
LEMMA InitInv == Init => IInv
<1> SUFFICES ASSUME Init PROVE IInv
  OBVIOUS
<1> USE LifecycleAssumption DEF Init
<1>0. messages \in 0..Opens /\ openings \in 0..Opens /\ flushes \in 0..Opens
  BY DEF LifecycleAssumption
<1>1. TypeOK
  BY <1>0 DEF TypeOK, Places, Mains
<1>2. MainInv
  BY DEF MainInv, IsClosed
<1>3. StepInv /\ FlushInv
  BY DEF StepInv, FlushInv, Opening
<1>4. LateInv
  BY DEF LateInv, StoppedMeansUnused, InPool
<1> QED
  BY <1>1, <1>2, <1>3, <1>4 DEF IInv

-----------------------------------------------------------------------------
(* Requests.                                                                *)

\* A request changes nothing of the main task; it may post a message.
LEMMA RequestFrame ==
  ASSUME TypeOK, NEW t \in Requests, RequestStep(t)
  PROVE  /\ UNCHANGED <<solutionVars, appVars, mutexVars, mainVars, flushEnabled, flushes>>
         /\ \/ UNCHANGED <<openings, messages>>
            \/ openings < Opens /\ openings' = openings + 1 /\ messages' = messages + 1
         /\ quit' \in BOOLEAN
<1> USE DEF solutionVars, appVars, mutexVars, mainVars, messageVars
<1>1. CASE IsCurrentSolution(t)
  BY <1>1 DEF IsCurrentSolution, PostOpen, TypeOK
<1>2. CASE ~IsCurrentSolution(t)
  BY <1>2 DEF RequestStep, Proceeds, TakeUnused, AttachSolution, RegisterContext, UseDeletedPool,
              GetApplications, ReleaseContext, ReleaseWithoutPool, DetachSolution, Request,
              AskApplications, AskSolution, QuitAsynchronously, TypeOK
<1> QED
  BY <1>1, <1>2

\* A request keeps the types,
LEMMA RequestType ==
  ASSUME IInv, NEW t \in Requests, RequestStep(t)
  PROVE  TypeOK'
<1> USE DEF IInv, TypeOK, Places, requestVars, historyVars
<1>1. /\ UNCHANGED <<solutionVars, appVars, mutexVars, mainVars, flushEnabled, flushes>>
      /\ \/ UNCHANGED <<openings, messages>>
         \/ openings < Opens /\ openings' = openings + 1 /\ messages' = messages + 1
      /\ quit' \in BOOLEAN
  BY RequestFrame
<1>2. messages' \in 0..Opens /\ openings' \in 0..Opens
  BY <1>1, LifecycleAssumption DEF FlushInv
<1>3. /\ kept' \in [Applications -> SUBSET SUBSET Applications]
      /\ place' \in [Requests -> Places] /\ app' \in [Requests -> Applications \cup {None}]
      /\ registered' \in [Requests -> SUBSET Applications]
      /\ late' \subseteq Requests /\ gone' \subseteq Requests
      /\ leaked' \subseteq Applications /\ crashed' \in BOOLEAN
  <2>1. CASE TakeUnused(t)
    BY <2>1 DEF TakeUnused, Goes, LateInv
  <2>2. CASE AttachSolution(t)
    BY <2>2 DEF AttachSolution, Goes
  <2>3. CASE RegisterContext(t)
    BY <2>3 DEF RegisterContext, Goes
  <2>4. CASE UseDeletedPool(t)
    BY <2>4 DEF UseDeletedPool, Goes, Leaves
  <2>5. CASE GetApplications(t)
    BY <2>5 DEF GetApplications, Goes
  <2>6. CASE IsCurrentSolution(t)
    BY <2>6 DEF IsCurrentSolution, Goes
  <2>7. CASE ReleaseContext(t)
    BY <2>7 DEF ReleaseContext, Goes, Leaves, LateInv
  <2>8. CASE ReleaseWithoutPool(t)
    BY <2>8 DEF ReleaseWithoutPool, Goes, Leaves
  <2>9. CASE DetachSolution(t)
    BY <2>9 DEF DetachSolution, Goes, Leaves
  <2>10. CASE Request(t)
    BY <2>10 DEF Request, Goes
  <2>11. CASE AskApplications(t) \/ AskSolution(t)
    BY <2>11 DEF AskApplications, AskSolution, Goes
  <2>12. CASE QuitAsynchronously(t)
    BY <2>12 DEF QuitAsynchronously
  <2> QED
    BY <2>1, <2>2, <2>3, <2>4, <2>5, <2>6, <2>7, <2>8, <2>9, <2>10, <2>11, <2>12
    DEF RequestStep, Proceeds
<1> QED
  BY <1>1, <1>2, <1>3 DEF solutionVars, appVars, mutexVars, mainVars

\* what is known of the main task,
LEMMA RequestMain ==
  ASSUME IInv, NEW t \in Requests, RequestStep(t)
  PROVE  MainInv' /\ StepInv' /\ FlushInv'
<1>1. /\ UNCHANGED <<solutionVars, appVars, mutexVars, mainVars, flushEnabled, flushes>>
      /\ \/ UNCHANGED <<openings, messages>>
         \/ openings < Opens /\ openings' = openings + 1 /\ messages' = messages + 1
  BY RequestFrame DEF IInv
<1> USE <1>1 DEF IInv, solutionVars, appVars, mainVars
<1>2. MainInv'
  BY DEF MainInv, Runs, IsClosed, InHand
<1>3. StepInv'
  BY DEF StepInv
<1>4. FlushInv'
  BY LifecycleAssumption DEF FlushInv, Opening, TypeOK
<1> QED
  BY <1>2, <1>3, <1>4

\* A request enters a pool only by the flag, and is in the pool, and late, until it
\* leaves; main, and what is started, stay as they are.
LEMMA RequestLate ==
  ASSUME IInv, NEW t \in Requests, RequestStep(t)
  PROVE  LateInv'
<1> USE DEF IInv, TypeOK, InPool, requestVars, historyVars
<1>1. UNCHANGED <<appStarted, step, subject>>
  BY RequestFrame DEF appVars, mainVars
<1>2. /\ \A u \in Requests \ {t} :
           /\ place'[u] = place[u] /\ app'[u] = app[u]
           /\ u \in late' <=> u \in late
           /\ u \in gone' <=> u \in gone
      /\ \/ place'[t] = "idle" /\ t \notin gone'
         \/ /\ place[t] \in InPool /\ place'[t] = "detach" /\ app'[t] = app[t]
            /\ late' = late /\ gone' = gone
         \/ /\ place[t] = "idle" /\ place'[t] = "tested" /\ app'[t] \in http
            /\ late' = late /\ gone' = gone
         \/ /\ place[t] \in InPool /\ place'[t] \in InPool /\ app'[t] = app[t]
            /\ place'[t] \in {"tested", "attached"} => place[t] \in {"tested", "attached"}
            /\ late' = late /\ gone' = gone
         \/ UNCHANGED <<place, app, late, gone>>
  <2>1. CASE TakeUnused(t) \/ AttachSolution(t) \/ RegisterContext(t)
    BY <2>1 DEF TakeUnused, AttachSolution, RegisterContext, Goes
  <2>2. CASE UseDeletedPool(t) \/ ReleaseContext(t)
    BY <2>2 DEF UseDeletedPool, ReleaseContext, Goes, Leaves
  <2>3. CASE GetApplications(t) \/ IsCurrentSolution(t)
    BY <2>3 DEF GetApplications, IsCurrentSolution, Goes
  <2>4. CASE ReleaseWithoutPool(t) \/ DetachSolution(t)
    BY <2>4 DEF ReleaseWithoutPool, DetachSolution, Goes, Leaves
  <2>5. CASE Request(t)
    BY <2>5 DEF Request, Goes
  <2>6. CASE AskApplications(t) \/ AskSolution(t)
    BY <2>6 DEF AskApplications, AskSolution, Goes
  <2>7. CASE QuitAsynchronously(t)
    BY <2>7 DEF QuitAsynchronously
  <2> QED
    BY <2>1, <2>2, <2>3, <2>4, <2>5, <2>6, <2>7 DEF RequestStep, Proceeds
<1>3. http \subseteq appStarted /\ (step = "clear" => subject \notin http)
  BY DEF StepInv
<1>4. /\ \A u \in Requests : place'[u] # "idle" => app'[u] \in Applications
      /\ \A u \in gone' : place'[u] # "idle" /\ (place'[u] \in InPool => u \in late')
  <2>1. /\ place'[t] # "idle" => app'[t] \in Applications
        /\ t \in gone' => place'[t] # "idle" /\ (place'[t] \in InPool => t \in late')
    BY <1>2 DEF LateInv
  <2>2. ASSUME NEW u \in Requests \ {t}
        PROVE  /\ place'[u] # "idle" => app'[u] \in Applications
               /\ u \in gone' => place'[u] # "idle" /\ (place'[u] \in InPool => u \in late')
    BY <1>2, <2>2 DEF LateInv
  <2>3. gone' \subseteq Requests
    BY RequestType
  <2> QED
    BY <2>1, <2>2, <2>3
<1>5. step' = "clear" => \A u \in Requests \ gone' :
        app'[u] = subject' /\ place'[u] \in {"tested", "attached"} => u \in late'
  BY <1>1, <1>2, <1>3 DEF LateInv
<1>6. StoppedMeansUnused'
  BY <1>1, <1>2, <1>3 DEF LateInv, StoppedMeansUnused
<1> QED
  BY <1>4, <1>5, <1>6 DEF LateInv

-----------------------------------------------------------------------------
(* The main task.                                                           *)

\* The counters stay within their bound.
LEMMA MainCounters ==
  ASSUME IInv, MainStep
  PROVE  /\ messages' \in 0..Opens /\ openings' \in 0..Opens /\ flushes' \in 0..Opens
         /\ FlushInv'
<1> USE LifecycleAssumption DEF IInv, TypeOK, FlushInv, Opening, messageVars
<1>1. CASE ReleaseSolution
  BY <1>1 DEF ReleaseSolution, OpeningFails, PostOpen, Enters
<1>2. CASE OpenSolutionFails
  BY <1>2 DEF OpenSolutionFails, OpeningFails, PostOpen, Enters
<1>3. CASE OpenSolutionAsCurrentSolution
  BY <1>3 DEF OpenSolutionAsCurrentSolution
<1>4. CASE StartEnds
  BY <1>4 DEF StartEnds
<1>5. CASE FlushDataCache
  BY <1>5 DEF FlushDataCache, mainVars
<1>6. CASE Stop \/ OpenSolution
  BY <1>6 DEF Stop, OpenSolution
<1>7. CASE StopApplication \/ ClearEnds \/ DrainEnds \/ StopNext \/ StopEnds \/ Close \/ CloseNext
           \/ CloseEnds
  BY <1>7 DEF StopApplication, ClearEnds, DrainEnds, StopNext, StopEnds, Close, CloseNext,
              CloseEnds, Enters
<1>8. CASE Start \/ StartApplication \/ StartGoesOn \/ OnStartup \/ CloseCurrentSolution
  BY <1>8 DEF Start, StartApplication, StartGoesOn, OnStartup, CloseCurrentSolution, Enters
<1> QED
  BY <1>1, <1>2, <1>3, <1>4, <1>5, <1>6, <1>7, <1>8 DEF MainStep, MainProceeds

\* The main task keeps the types.
LEMMA MainType ==
  ASSUME IInv, MainStep
  PROVE  TypeOK'
<1> USE LifecycleAssumption
    DEF IInv, TypeOK, Mains,
        solutionVars, appVars, mutexVars, mainVars, messageVars, requestVars, historyVars
<1>0. messages' \in 0..Opens /\ openings' \in 0..Opens /\ flushes' \in 0..Opens
  BY MainCounters
<1>1. CASE StopApplication
  BY <1>1 DEF StopApplication, MainInv, StepInv
<1>2. CASE ClearEnds
  <2>1. subject \in Applications /\ kept' \in [Applications -> SUBSET SUBSET Applications]
    BY <1>2 DEF ClearEnds, StepInv
  <2> QED
    BY <1>0, <1>2, <2>1 DEF ClearEnds
<1>3. CASE DrainEnds
  BY <1>3 DEF DrainEnds, StepInv
<1>4. CASE Stop
  <2>1. todo' \subseteq Applications /\ flushEnabled' \in BOOLEAN /\ main' \in Mains
    BY <1>4 DEF Stop
  <2> QED
    BY <1>0, <1>4, <2>1 DEF Stop
<1>5. CASE StopNext
  BY <1>5 DEF StopNext
<1>6. CASE StopEnds
  BY <1>6 DEF StopEnds, Enters
<1>7. CASE Close
  BY <1>7 DEF Close, Enters
<1>8. CASE CloseNext
  BY <1>8 DEF CloseNext, CloseApplication
<1>9. CASE CloseEnds
  BY <1>9 DEF CloseEnds, Enters
<1>10. CASE ReleaseSolution
  <2>1. /\ current' \in BOOLEAN /\ main' \in Mains /\ solutionMutex' \in BOOLEAN
        /\ UNCHANGED <<purpose, step, subject, failed, flushEnabled>> /\ quit' \in BOOLEAN
    BY <1>10 DEF ReleaseSolution, OpeningFails, Enters
  <2> QED
    BY <1>0, <1>10, <2>1 DEF ReleaseSolution
<1>11. CASE OpenSolutionFails
  <2>1. /\ main' \in Mains /\ solutionMutex' \in BOOLEAN
        /\ UNCHANGED <<purpose, step, subject, failed, flushEnabled>> /\ quit' \in BOOLEAN
    BY <1>11 DEF OpenSolutionFails, OpeningFails, Enters
  <2> QED
    BY <1>0, <1>11, <2>1 DEF OpenSolutionFails
<1>12. CASE OpenSolution
  BY <1>12 DEF OpenSolution
<1>13. CASE Start
  BY <1>13 DEF Start
<1>14. CASE StartApplication
  BY <1>14 DEF StartApplication, FailedToStart
<1>15. CASE StartGoesOn
  BY <1>15 DEF StartGoesOn, Enters
<1>16. CASE OnStartup
  BY <1>16 DEF OnStartup, FailedToStart
<1>17. CASE StartEnds
  BY <1>0, <1>17 DEF StartEnds
<1>18. CASE OpenSolutionAsCurrentSolution
  BY <1>0, <1>18 DEF OpenSolutionAsCurrentSolution
<1>19. CASE CloseCurrentSolution
  BY <1>19 DEF CloseCurrentSolution
<1>20. CASE FlushDataCache
  BY <1>20 DEF FlushDataCache
<1> QED
  BY <1>1, <1>2, <1>3, <1>4, <1>5, <1>6, <1>7, <1>8, <1>9, <1>10, <1>11,
     <1>12, <1>13, <1>14, <1>15, <1>16, <1>17, <1>18, <1>19, <1>20
  DEF MainStep, MainProceeds

\* What is open and started agrees with the place the main task goes to.
LEMMA MainMain ==
  ASSUME IInv, MainStep
  PROVE  MainInv'
<1> USE DEF IInv, TypeOK, MainInv, StepInv, Runs, IsClosed, InHand,
           solutionVars, appVars, mutexVars, mainVars, messageVars, requestVars, historyVars
<1>1. CASE StopApplication
  BY <1>1 DEF StopApplication
<1>2. CASE ClearEnds
  BY <1>2 DEF ClearEnds
<1>3. CASE DrainEnds
  BY <1>3 DEF DrainEnds
<1>4. CASE Stop
  BY <1>4 DEF Stop
<1>5. CASE StopNext
  BY <1>5 DEF StopNext
<1>6. CASE StopEnds
  BY <1>6 DEF StopEnds, Enters
<1>7. CASE Close
  BY <1>7 DEF Close, Enters
<1>8. CASE CloseNext
  BY <1>8 DEF CloseNext, CloseApplication
<1>9. CASE CloseEnds
  BY <1>9 DEF CloseEnds, Enters
<1>10. CASE ReleaseSolution
  BY <1>10 DEF ReleaseSolution, OpeningFails, PostOpen, Enters
<1>11. CASE OpenSolutionFails
  BY <1>11 DEF OpenSolutionFails, OpeningFails, PostOpen, Enters
<1>12. CASE OpenSolution
  BY <1>12 DEF OpenSolution
<1>13. CASE Start
  BY <1>13 DEF Start
<1>14. CASE StartApplication
  BY <1>14 DEF StartApplication, FailedToStart
<1>15. CASE StartGoesOn
  BY <1>15 DEF StartGoesOn, Enters
<1>16. CASE OnStartup
  BY <1>16 DEF OnStartup, FailedToStart
<1>17. CASE StartEnds
  BY <1>17 DEF StartEnds
<1>18. CASE OpenSolutionAsCurrentSolution
  BY <1>18 DEF OpenSolutionAsCurrentSolution
<1>19. CASE CloseCurrentSolution
  BY <1>19 DEF CloseCurrentSolution
<1>20. CASE FlushDataCache
  BY <1>20 DEF FlushDataCache
<1> QED
  BY <1>1, <1>2, <1>3, <1>4, <1>5, <1>6, <1>7, <1>8, <1>9, <1>10, <1>11,
     <1>12, <1>13, <1>14, <1>15, <1>16, <1>17, <1>18, <1>19, <1>20
  DEF MainStep, MainProceeds

\* An application that is about to be closed has been stopped.
LEMMA StartedIsNotDrained ==
  IInv /\ step = "drain" => main = "closing" /\ appStarted = {}
  BY DEF IInv, TypeOK, MainInv, Mains, Runs, IsClosed

\* What is stopped no longer runs, and a flush that is enabled has its message.
LEMMA MainSteps ==
  ASSUME IInv, MainStep
  PROVE  StepInv'
<1> USE DEF IInv, TypeOK, MainInv, StepInv, Runs, IsClosed, InHand,
           solutionVars, appVars, mutexVars, mainVars, messageVars, requestVars, historyVars
<1>1. CASE StopApplication
  BY <1>1 DEF StopApplication
<1>2. CASE ClearEnds
  BY <1>2 DEF ClearEnds
<1>3. CASE DrainEnds
  <2>1. appStarted = {}
    BY <1>3, StartedIsNotDrained DEF DrainEnds
  <2> QED
    BY <1>3, <2>1 DEF DrainEnds
<1>4. CASE Stop
  BY <1>4 DEF Stop
<1>5. CASE StopNext
  BY <1>5 DEF StopNext
<1>6. CASE StopEnds
  BY <1>6 DEF StopEnds, Enters
<1>7. CASE Close
  BY <1>7 DEF Close, Enters
<1>8. CASE CloseNext
  BY <1>8 DEF CloseNext, CloseApplication
<1>9. CASE CloseEnds
  BY <1>9 DEF CloseEnds, Enters
<1>10. CASE ReleaseSolution
  BY <1>10 DEF ReleaseSolution, OpeningFails, Enters
<1>11. CASE OpenSolutionFails
  BY <1>11 DEF OpenSolutionFails, OpeningFails, Enters
<1>12. CASE OpenSolution
  BY <1>12 DEF OpenSolution
<1>13. CASE Start
  BY <1>13 DEF Start
<1>14. CASE StartApplication
  BY <1>14 DEF StartApplication, FailedToStart
<1>15. CASE StartGoesOn
  BY <1>15 DEF StartGoesOn, Enters
<1>16. CASE OnStartup
  BY <1>16 DEF OnStartup, FailedToStart
<1>17. CASE StartEnds
  BY <1>17 DEF StartEnds
<1>18. CASE OpenSolutionAsCurrentSolution
  BY <1>18 DEF OpenSolutionAsCurrentSolution
<1>19. CASE CloseCurrentSolution
  BY <1>19 DEF CloseCurrentSolution
<1>20. CASE FlushDataCache
  BY <1>20 DEF FlushDataCache
<1> QED
  BY <1>1, <1>2, <1>3, <1>4, <1>5, <1>6, <1>7, <1>8, <1>9, <1>10, <1>11,
     <1>12, <1>13, <1>14, <1>15, <1>16, <1>17, <1>18, <1>19, <1>20
  DEF MainStep, MainProceeds

\* Clear returns, and Close deletes the pool, when only late requests are in it.
LEMMA MainLate ==
  ASSUME IInv, MainStep
  PROVE  LateInv'
<1> USE DEF IInv, TypeOK, LateInv, StoppedMeansUnused, StepInv, InPool, UsedIn,
           solutionVars, appVars, mutexVars, mainVars, messageVars, requestVars, historyVars
<1>1. CASE StopApplication
  BY <1>1 DEF StopApplication
<1>2. CASE ClearEnds
  BY <1>2 DEF ClearEnds
<1>3. CASE DrainEnds
  <2>1. subject \in Applications
    BY <1>3 DEF DrainEnds
  <2>2. /\ gone' = gone \cup {t \in Requests : app[t] = subject /\ place[t] # "idle"}
        /\ UNCHANGED <<requestVars, late, appStarted>> /\ step' = "none"
    BY <1>3 DEF DrainEnds
  <2>3. subject \notin appStarted
    BY <1>3, StartedIsNotDrained DEF DrainEnds
  <2>4. ASSUME NEW t \in gone'
        PROVE  place'[t] # "idle" /\ (place'[t] \in InPool => t \in late')
    BY <2>2, <2>3, <2>4
  <2> QED
    BY <2>2, <2>4
<1>4. CASE Stop
  BY <1>4 DEF Stop
<1>5. CASE StopNext
  BY <1>5 DEF StopNext
<1>6. CASE StopEnds
  BY <1>6 DEF StopEnds, Enters
<1>7. CASE Close
  BY <1>7 DEF Close, Enters
<1>8. CASE CloseNext
  BY <1>8 DEF CloseNext, CloseApplication
<1>9. CASE CloseEnds
  BY <1>9 DEF CloseEnds, Enters
<1>10. CASE ReleaseSolution
  BY <1>10 DEF ReleaseSolution, OpeningFails, PostOpen, Enters
<1>11. CASE OpenSolutionFails
  BY <1>11 DEF OpenSolutionFails, OpeningFails, PostOpen, Enters
<1>12. CASE OpenSolution
  BY <1>12 DEF OpenSolution
<1>13. CASE Start
  BY <1>13 DEF Start
<1>14. CASE StartApplication
  BY <1>14 DEF StartApplication, FailedToStart
<1>15. CASE StartGoesOn
  BY <1>15 DEF StartGoesOn, Enters
<1>16. CASE OnStartup
  BY <1>16 DEF OnStartup, FailedToStart
<1>17. CASE StartEnds
  BY <1>17 DEF StartEnds
<1>18. CASE OpenSolutionAsCurrentSolution
  BY <1>18 DEF OpenSolutionAsCurrentSolution
<1>19. CASE CloseCurrentSolution
  BY <1>19 DEF CloseCurrentSolution
<1>20. CASE FlushDataCache
  BY <1>20 DEF FlushDataCache
<1> QED
  BY <1>1, <1>2, <1>3, <1>4, <1>5, <1>6, <1>7, <1>8, <1>9, <1>10, <1>11,
     <1>12, <1>13, <1>14, <1>15, <1>16, <1>17, <1>18, <1>19, <1>20
  DEF MainStep, MainProceeds

-----------------------------------------------------------------------------

\* Every step keeps the inductive invariant.
LEMMA Invariance == IInv /\ [Next]_vars => IInv'
<1>1. ASSUME IInv, NEW t \in Requests, RequestStep(t) PROVE IInv'
  BY <1>1, RequestType, RequestMain, RequestLate DEF IInv
<1>2. ASSUME IInv, MainStep PROVE IInv'
  BY <1>2, MainCounters, MainType, MainMain, MainSteps, MainLate DEF IInv
<1>3. ASSUME IInv, UNCHANGED vars PROVE IInv'
  BY <1>3
  DEF vars, solutionVars, appVars, mutexVars, mainVars, messageVars, requestVars, historyVars,
      IInv, TypeOK, MainInv, StepInv, FlushInv, LateInv, StoppedMeansUnused, Opening, Runs,
      IsClosed, InHand
<1> QED
  BY <1>1, <1>2, <1>3 DEF Next, MainStep, RequestStep

\* The variables keep their types; in particular the messages that wait for the main
\* task, the data-cache flush among them, are never more than the openings asked for:
\* a flush that is disabled and enabled again before its message was taken leaves two
\* chains of flushes (AddScheduledTasks), but never more than there were openings.
THEOREM LifeTypeCorrect == Spec => []TypeOK
<1>1. IInv => TypeOK
  BY DEF IInv
<1> QED
  BY <1>1, InitInv, Invariance, PTL DEF Spec

\* However the openings, starts and stops of solutions fail, between two messages the
\* current solution runs and nothing of a former one is left open, started or flushed
\* (_OpenSolutionAsCurrentSolution, _CloseCurrentSolution, VRIAServerSolution::Close).
THEOREM OnlyCurrentLives == Spec => []OnlyCurrentIsOpen
<1>1. IInv => OnlyCurrentIsOpen
  BY DEF IInv, MainInv, StepInv, Runs, IsClosed, OnlyCurrentIsOpen
<1> QED
  BY <1>1, InitInv, Invariance, PTL DEF Spec

\* When an application is stopped, the only requests in its pool are those that were
\* inside RetainContext when the pool was disabled (VJSContextPool::Clear).
THEOREM StoppedPoolsAreUnused == Spec => []StoppedMeansUnused
<1>1. IInv => StoppedMeansUnused
  BY DEF IInv, LateInv
<1> QED
  BY <1>1, InitInv, Invariance, PTL DEF Spec
================================================================================
