\* Two requests, the applications of two solutions, one after the other.  A crash
\* ends a behaviour, and so does a main task that is held up.
CONSTANTS
  r1 = r1
  r2 = r2
  a1 = a1
  a2 = a2
  Requests = {r1, r2}
  Applications = {a1, a2}
  Opens = 2
  None = None
SPECIFICATION Spec
INVARIANTS TypeOK OnlyCurrentIsOpen StoppedMeansUnused
PROPERTIES MainGoesOn
CHECK_DEADLOCK FALSE
