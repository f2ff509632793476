\* Two applications, one of which reloads its catalog, and one request thread
\* that may use either pool.  Four contexts: one kept in each pool, the
\* request's and the message's.  No symmetry, because of the liveness property.
\* DropAllJSContexts may be held up for ever, so the deadlock check is off.
CONSTANTS
  app1 = app1  app2 = app2  t1 = t1  c1 = c1  c2 = c2  c3 = c3  c4 = c4
  None = None
  Order <- TwoApplications
  Reloaders = {app1}
  Requests = {t1}
  Contexts = {c1, c2, c3, c4}
  MaxKept = 1
SPECIFICATION FairSpec
INVARIANTS TypeOK ReloadIsABarrier RegistrationsAreHeld SwitchesAreRestored
PROPERTIES ImplementsGate DropAllReturnsOrIsHeldUp ReloadReturnsOrIsOrphaned
CHECK_DEADLOCK FALSE
