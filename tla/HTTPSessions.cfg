\* Two request threads serve two clients through at most two contexts, and up to
\* three sessions are made: both clients' default ones and one by login() or
\* logout(), or by a request whose session has expired.
CONSTANTS
  k1 = k1  k2 = k2  r1 = r1  r2 = r2
  s1 = s1  s2 = s2  s3 = s3  c1 = c1  c2 = c2
  None = None
  Clients = {k1, k2}
  Requests = {r1, r2}
  Sessions = {s1, s2, s3}
  Contexts = {c1, c2}
SPECIFICATION Spec
SYMMETRY Symmetry
INVARIANTS TypeOK ScriptRunsInOwnSession CookieIsRegistered
