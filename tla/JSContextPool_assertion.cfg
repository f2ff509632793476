\* One request thread and one Clear(): enough for a context to be registered
\* after the pool was disabled.
CONSTANTS
  u1 = u1  u2 = u2  u3 = u3  a1 = a1  a2 = a2
  c1 = c1  c2 = c2  c3 = c3  e1 = e1  e2 = e2
  None = None
  Users = {u1}
  Clearers = {a1}
  Contexts = {c1, c2}
  Events = {e1}
  MaxReusable = 1
  Toggles = {}
SPECIFICATION Spec
PROPERTY ClearAssertion
