\* Two request threads, two overlapping Clear() calls and three contexts: more
\* contexts than the limit of reusable ones, so the limit is met.
CONSTANTS
  u1 = u1  u2 = u2  u3 = u3  a1 = a1  a2 = a2
  c1 = c1  c2 = c2  c3 = c3  e1 = e1  e2 = e2
  None = None
  Users = {u1, u2}
  Clearers = {a1, a2}
  Contexts = {c1, c2, c3}
  Events = {e1, e2}
  MaxReusable = 1
  Toggles = {TRUE, FALSE}
SPECIFICATION Spec
SYMMETRY Symmetry
INVARIANTS TypeOK CountIsExact ExclusiveUse NothingLeaks NoLostWakeup ClearIsABarrier
PROPERTY ImplementsGate
