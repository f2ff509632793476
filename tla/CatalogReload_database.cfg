\* One application that reloads its catalog, and one request thread. They may
\* block each other, so the deadlock check is off.
CONSTANTS
  app1 = app1  app2 = app2  t1 = t1  c1 = c1  c2 = c2  c3 = c3  c4 = c4
  None = None
  Order <- OneApplication
  Reloaders = {app1}
  Requests = {t1}
  Contexts = {c1, c2, c3}
  MaxKept = 1
SPECIFICATION Spec
INVARIANT NobodyHasDatabase
CHECK_DEADLOCK FALSE
