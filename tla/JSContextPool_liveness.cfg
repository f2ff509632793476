\* No symmetry under liveness.  One Clear() among two request threads, and
\* the pool is only ever disabled (what VRIAServerProject::Stop does).
CONSTANTS
  u1 = u1  u2 = u2  u3 = u3  a1 = a1  a2 = a2
  c1 = c1  c2 = c2  c3 = c3  e1 = e1  e2 = e2
  None = None
  Users = {u1, u2}
  Clearers = {a1}
  Contexts = {c1, c2, c3}
  Events = {e1, e2}
  MaxReusable = 1
  Toggles = {FALSE}
SPECIFICATION FairSpec
PROPERTIES ClearReturns DisabledPoolDrains
