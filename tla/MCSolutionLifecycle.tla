-------------------------- MODULE MCSolutionLifecycle --------------------------
(* Instances of the life of a solution for TLC.                             *)
EXTENDS SolutionLifecycle

CONSTANTS r1, r2, a1, a2
================================================================================
