---------------------------- MODULE ScriptService ----------------------------
(***************************************************************************)
(* What GetContext promises whoever edits the script, abstractly: an event *)
(* runs a version of the script that was saved no earlier than the one in  *)
(* the file when the event was delivered, unless there has been no file    *)
(* since, and no event runs an older version than the event before it.     *)
(***************************************************************************)
EXTENDS Naturals, Sequences

CONSTANTS
    Threads,      \* host threads that deliver events
    Scripts,      \* texts of the script
    NoFile,       \* stands for the text of a version that removes the file
    FirstScript   \* the version the service starts with

VARIABLES
    saved,        \* every version the file has had, one per change
    running,      \* which of them is loaded
    script,       \* its text
    awaiting      \* for each thread, the version its event found in the file, or 0

vars == <<saved, running, script, awaiting>>

\* The file was gone at some time since version n was saved
Missing(n) == \E k \in n .. Len(saved) : saved[k] = NoFile

Init ==
    /\ saved = <<FirstScript>>
    /\ running = 1
    /\ script = FirstScript
    /\ awaiting = [t \in Threads |-> 0]

Save ==
    /\ \E x \in Scripts \cup {NoFile} : saved' = Append(saved, x)
    /\ UNCHANGED <<running, script, awaiting>>

Deliver(t) ==
    /\ awaiting[t] = 0
    /\ awaiting' = [awaiting EXCEPT ![t] = Len(saved)]
    /\ UNCHANGED <<saved, running, script>>

\* No version older than the one that is loaded is loaded again
Load ==
    /\ \E n \in running .. Len(saved) :
        /\ saved[n] # NoFile
        /\ running' = n
        /\ script' = saved[n]
    /\ UNCHANGED <<saved, awaiting>>

Serve(t) ==
    /\ awaiting[t] # 0
    /\ running >= awaiting[t] \/ Missing(awaiting[t])
    /\ awaiting' = [awaiting EXCEPT ![t] = 0]
    /\ UNCHANGED <<saved, running, script>>

Next == Save \/ Load \/ \E t \in Threads : Deliver(t) \/ Serve(t)

Spec == Init /\ [][Next]_vars
=============================================================================
