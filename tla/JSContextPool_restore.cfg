\* Two overlapping Clear() calls, and nobody else changes the enabled state.
CONSTANTS
  u1 = u1  u2 = u2  u3 = u3  a1 = a1  a2 = a2
  c1 = c1  c2 = c2  c3 = c3  e1 = e1  e2 = e2
  None = None
  Users = {u1}
  Clearers = {a1, a2}
  Contexts = {c1, c2}
  Events = {e1, e2}
  MaxReusable = 1
  Toggles = {}
SPECIFICATION Spec
INVARIANT EnabledIsRestored
