---------------------------- MODULE MCHTTPSessions ----------------------------
(* Instances of the sessions for TLC.                                       *)
EXTENDS HTTPSessions, TLC

CONSTANTS k1, k2, r1, r2, s1, s2, s3, c1, c2

Symmetry == UNION {Permutations(S) : S \in {Clients, Requests, Sessions, Contexts}}
===============================================================================
