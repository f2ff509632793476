------------------------------ MODULE ZeroGate ------------------------------
(***************************************************************************)
(* What the two "wait until the set is empty" handshakes of the server     *)
(* promise: VJSContextPool::WaitForNumberOfUsedContextEqualZero for the    *)
(* JavaScript contexts in use, and                                         *)
(* VRIAContextManager::WaitForRegisteredContextsCountZero for the          *)
(* application contexts.  A caller that arrives while the set is not empty *)
(* is closed in; the gate of every such caller opens in the very step that *)
(* empties the set, and stays open until the caller walks through it, even *)
(* if the set fills up again in between.                                   *)
(***************************************************************************)
CONSTANTS Members,   \* what the set may contain
          Waiters    \* the threads that wait for it to be empty

VARIABLES members,   \* the set
          gate       \* gate[w]: is w "out", closed "in", or is its gate "open"

vars == <<members, gate>>

GateTypeOK == /\ members \subseteq Members
              /\ gate \in [Waiters -> {"out", "in", "open"}]

Init == /\ members = {}
        /\ gate = [w \in Waiters |-> "out"]

Add(m) == /\ m \in Members \ members
          /\ members' = members \cup {m}
          /\ UNCHANGED gate

Opened == [w \in Waiters |-> IF gate[w] = "in" THEN "open" ELSE gate[w]]

Remove(m) == /\ m \in members
             /\ members' = members \ {m}
             /\ gate' = IF members' = {} THEN Opened ELSE gate

Arrive(w) == /\ gate[w] = "out"
             /\ gate' = [gate EXCEPT ![w] = IF members = {} THEN "open" ELSE "in"]
             /\ UNCHANGED members

Pass(w) == /\ gate[w] = "open"
           /\ gate' = [gate EXCEPT ![w] = "out"]
           /\ UNCHANGED members

Next == \/ \E m \in Members : Add(m) \/ Remove(m)
        \/ \E w \in Waiters : Arrive(w) \/ Pass(w)

Spec == Init /\ [][Next]_vars
=============================================================================
