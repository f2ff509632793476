---------------------------- MODULE MCServiceStates ----------------------------
(* Instances of the services for TLC.                                       *)
EXTENDS ServiceStates

CONSTANTS r1

\* A behaviour is followed up to the first state that was written wrongly: of what
\* comes after it only TypeOK and HandlersMatch, which are proved, say anything.
Bound == mishaps \cap {"collided", "overwritten"} = {}
================================================================================
