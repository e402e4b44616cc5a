---------------------------- MODULE ScriptVersions ----------------------------
(***************************************************************************)
(* MesiboJsProcessor with the history of the script file: which version of *)
(* it is in context_, which one each stream reads, and which one each      *)
(* event found when it was delivered.  With it GetContext is shown to      *)
(* implement ScriptService.  The history restricts no step.                *)
(***************************************************************************)
EXTENDS MesiboJsProcessor, Sequences

VARIABLES
    saved,        \* every version of the file since the module was loaded
    running,      \* the version that is in context_
    taken,        \* the version a stream's text belongs to, 0 without a text
    awaiting      \* the version in the file when the event was delivered, or 0

history == <<saved, running, taken, awaiting>>

VersionsInit ==
    /\ Init
    /\ saved = <<FirstScript>>
    /\ running = 1
    /\ taken = [t \in Threads |-> 0]
    /\ awaiting = [t \in Threads |-> 0]

\* A version is added; a stream that is still being read and has the file in
\* common with whoever writes it in place goes over to the new version
Save ==
    /\ Environment
    /\ saved' = Append(saved, file'.text)
    /\ taken' = [t \in Threads |->
                    IF pc[t] = "read" /\ fd[t].full /\ fd'[t].linked
                    THEN Len(saved) + 1 ELSE taken[t]]
    /\ UNCHANGED <<running, awaiting>>

Deliver(t) ==
    /\ \E e \in Calls : DeliverEvent(t, e)
    /\ awaiting' = [awaiting EXCEPT ![t] = Len(saved)]
    /\ UNCHANGED <<saved, running, taken>>

Open(t) ==
    /\ OpenScript(t)
    /\ taken' = [taken EXCEPT ![t] = Len(saved)]
    /\ UNCHANGED <<saved, running, awaiting>>

Load(t) ==
    /\ ExecuteScript(t)
    /\ running' = taken[t]
    /\ taken' = [taken EXCEPT ![t] = 0]
    /\ UNCHANGED <<saved, awaiting>>

Serve(t) ==
    /\ CallListener(t)
    /\ awaiting' = [awaiting EXCEPT ![t] = 0]
    /\ UNCHANGED <<saved, running, taken>>

\* The steps that no version depends on
Unrecorded(t) ==
    \/ AcquireLocker(t) \/ CheckFileChange(t) \/ AccessScript(t)
    \/ ReadScript(t) \/ ReadNothing(t) \/ ReadError(t)

VersionsNext ==
    \/ Save
    \/ \E t \in Threads :
        \/ Deliver(t) \/ Open(t) \/ Load(t) \/ Serve(t)
        \/ Unrecorded(t) /\ UNCHANGED history

VersionsSpec == VersionsInit /\ [][VersionsNext]_<<vars, history>>

-----------------------------------------------------------------------------
(* Properties                                                              *)

\* GetContext, "Recompile if the script is changed", for edits at any moment:
\* an event runs a version of the script no older than the one it found in the
\* file and than the one the event before it ran, unless the file was gone
Service == INSTANCE ScriptService WITH script <- context
ImplementsService == Service!Spec

\* ExecuteScript, for changes of the file that share a time, or come before the
\* first event, and so go unnoticed: what is loaded is at all times a version
\* that was in the file, and no load goes back to an older one
Loader ==
    INSTANCE ScriptService WITH script <- context, awaiting <- [t \in Threads |-> 0]
ImplementsLoader == Loader!Spec
=============================================================================
