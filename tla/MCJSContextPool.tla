--------------------------- MODULE MCJSContextPool ---------------------------
(* Instances of the pool of contexts for TLC.                               *)
EXTENDS JSContextPool, TLC

CONSTANTS u1, u2, u3, a1, a2, c1, c2, c3, e1, e2

Symmetry == Permutations(Contexts) \cup Permutations(Users)
            \cup Permutations(Clearers) \cup Permutations(Events)
=============================================================================
