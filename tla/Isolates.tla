------------------------------ MODULE Isolates ------------------------------
(***************************************************************************)
(* What the code of the module owes to V8, abstractly: an isolate has at    *)
(* most one user, what belongs to an isolate changes only while that user  *)
(* enters it, works in it or leaves it, and nobody's work in one isolate   *)
(* reaches another.                                                        *)
(***************************************************************************)
CONSTANTS
    Isolates,
    Users

VARIABLES
    inside,       \* the users inside each isolate
    state         \* what belongs to it

vars == <<inside, state>>

Init == inside = [i \in Isolates |-> {}]

\* u enters an isolate that is empty, works in it, or leaves it
Use(i, u) ==
    /\ inside[i] \subseteq {u} /\ inside'[i] \subseteq {u}
    /\ inside[i] \cup inside'[i] # {}
    /\ \A j \in Isolates \ {i} : inside'[j] = inside[j] /\ state'[j] = state[j]

Next == \E i \in Isolates, u \in Users : Use(i, u)

Spec == Init /\ [][Next]_vars
=============================================================================
