--------------------------- MODULE MesiboJsProcessor ---------------------------
(***************************************************************************)
(* The script processor of the V8 module: host threads deliver message and *)
(* status events and the answers of HTTP requests.  Each takes the         *)
(* v8::Locker of the one isolate, GetContext compares the modification     *)
(* time of the script file with the recorded one and reloads the script    *)
(* when they differ, and a JavaScript function is called: a listener, or   *)
(* the callback that was given to Http.send().                             *)
(*                                                                         *)
(* The system calls of one reload (stat, access, fopen, fread) are         *)
(* separate steps, because whoever edits the script file does not take the *)
(* Locker: the file may change between any two of them.                    *)
(***************************************************************************)
EXTENDS Integers

CONSTANTS
    Threads,      \* host threads that deliver events
    NoThread,     \* owner of a free Locker
    Scripts,      \* texts the script file may hold
    Empty,        \* the text of a file truncated to length 0, one of Scripts
    NoFile,       \* stands for the text while the path names no file
    NoFunction,   \* v8::Null, which GetGlobalFunction returns for a missing listener
    Completing,   \* scripts that compile and whose top level runs to its end
    Defines,      \* Defines[s]: listeners that s has set on `mesibo` when it stops
    FirstScript,  \* the script the module was loaded with
    IntMax,       \* INT_MAX, the largest value of `int lastchanged_`
    StartTime,    \* st_mtime of FirstScript
    MaxTime,      \* bound: no save gets a later st_mtime
    SameSecond,   \* two changes of the file may carry the same st_mtime
    EarlySaves,   \* the file may change before the first event is handled
    InPlaceSaves, \* a save may truncate the file and write it again
    Removals,     \* the file may be removed
    ReadFaults,   \* fopen and fread may fail on a file that exists
    StickyEOF     \* the C library keeps returning EOF once it has met it

Events    == {"onmessage", "onmessagestatus"}
Listeners == Events \cup {"onlogin"}
Calls     == Events \cup {"onclose"}              \* what a host thread brings
Fail      == -1                                  \* MESIBO_RESULT_FAIL

ASSUME ScriptAssumption ==
    /\ NoThread \notin Threads
    /\ NoFile \notin Scripts
    /\ NoFunction \notin Scripts
    /\ Completing \subseteq Scripts
    /\ Defines \in [Scripts -> SUBSET Listeners]
    /\ Empty \in Completing /\ Defines[Empty] = {}
    /\ FirstScript \in Completing

ASSUME TimeAssumption ==
    /\ IntMax \in Nat \ {0} /\ MaxTime \in Nat
    /\ StartTime \in 1 .. MaxTime

ASSUME EnvironmentAssumption ==
    {SameSecond, EarlySaves, InPlaceSaves, Removals, ReadFaults, StickyEOF}
        \subseteq BOOLEAN

VARIABLES
    file,         \* the script file: its text and the time of its last change
    edited,       \* history: has the file changed since the last stat of it?
    lock,         \* the thread inside the v8::Locker of the isolate
    pc,           \* where each thread is in its handler
    event,        \* the event or answer each thread delivers
    fd,           \* ReadFile's stream on the script file, one per thread
    lastchanged,  \* lastchanged_
    context,      \* context_, named by the script it was created for
    listener,     \* the Global<Function> handles, each named by its script
    aborted       \* V8 has terminated the process

vars == <<file, edited, lock, pc, event, fd, lastchanged, context, listener, aborted>>

Stages == {"idle", "lock", "stat", "access", "open", "read", "execute", "call"}

\* The stages in which GetContext is inside Initialize
Reloading == {"access", "open", "read", "execute"}

Closed == [text |-> Empty, full |-> FALSE, linked |-> FALSE, eof |-> FALSE]
Stream == [text : Scripts, full : BOOLEAN, linked : BOOLEAN, eof : BOOLEAN]

Exists == file.text # NoFile

-----------------------------------------------------------------------------
(* Loading a script                                                        *)

\* The value an `int` keeps of a `long`
ToInt(n) == ((n + IntMax + 1) % (2 * (IntMax + 1))) - (IntMax + 1)

\* The function named e on the `mesibo` object of the context of script s
GetGlobalFunction(s, e) == IF e \in Defines[s] THEN s ELSE NoFunction

\* The listener handles after script s has run to its end
Installed(s) == [e \in Listeners |-> GetGlobalFunction(s, e)]

\* The function an event is handed to: OnMessage uses the handle kept by the
\* last load, OnMessageStatus looks its function up in the current context
Callee(e) ==
    IF e = "onmessage" THEN listener[e] ELSE GetGlobalFunction(context, e)

\* The module has been loaded: mesibo_v8_init has created the processor, and
\* Initialize has run FirstScript without recording its modification time
Init ==
    /\ file = [text |-> FirstScript, mtime |-> StartTime]
    /\ edited = FALSE
    /\ lock = NoThread
    /\ pc = [t \in Threads |-> "idle"]
    /\ event = [t \in Threads |-> "none"]
    /\ fd = [t \in Threads |-> Closed]
    /\ lastchanged = 0
    /\ context = FirstScript
    /\ listener = Installed(FirstScript)
    /\ aborted = FALSE

-----------------------------------------------------------------------------
(* The script file: whoever edits it, at any moment                        *)

SaveTimes ==
    {file.mtime + 1} \cup (IF SameSecond THEN {file.mtime} ELSE {})

\* The file changes to text s, possibly none; every reader loses track of it
\* unless the change is made in place
ChangeFile(s, readers) ==
    /\ ~aborted
    /\ EarlySaves \/ lastchanged # 0
    /\ \E m \in SaveTimes : m <= MaxTime /\ file' = [text |-> s, mtime |-> m]
    /\ edited' = TRUE
    /\ fd' = readers
    /\ UNCHANGED <<lock, pc, event, lastchanged, context, listener, aborted>>

Detached == [t \in Threads |-> [fd[t] EXCEPT !.linked = FALSE]]
Rewritten(s) ==
    [t \in Threads |-> IF fd[t].linked THEN [fd[t] EXCEPT !.text = s] ELSE fd[t]]

\* A new file is renamed over the old one, or created where there was none
ReplaceScript == \E s \in Scripts : ChangeFile(s, Detached)

\* A save in place: the file is truncated, and then written
TruncateScript == InPlaceSaves /\ Exists /\ ChangeFile(Empty, Rewritten(Empty))
WriteScript ==
    /\ InPlaceSaves /\ file.text = Empty
    /\ \E s \in Scripts \ {Empty} : ChangeFile(s, Rewritten(s))

RemoveScript == Removals /\ Exists /\ ChangeFile(NoFile, Detached)

Environment == ReplaceScript \/ TruncateScript \/ WriteScript \/ RemoveScript

-----------------------------------------------------------------------------
(* One event: the Locker, GetContext, the listener                         *)

Goto(t, from, to) ==
    /\ ~aborted
    /\ pc[t] = from
    /\ pc' = [pc EXCEPT ![t] = to]

\* The host calls v8_on_message or v8_on_message_status, or the on_close of a
\* request that has been answered
DeliverEvent(t, e) ==
    /\ Goto(t, "idle", "lock")
    /\ event' = [event EXCEPT ![t] = e]
    /\ UNCHANGED <<file, edited, lock, fd, lastchanged, context, listener, aborted>>

\* Mutant: the handler takes v8::Isolate::Scope but no v8::Locker
AcquireLockerMutant(t) ==
    /\ Goto(t, "lock", "stat")
    /\ lock' = t
    /\ UNCHANGED <<file, edited, event, fd, lastchanged, context, listener, aborted>>

\* v8::Locker locker(GetIsolate())
AcquireLocker(t) ==
    /\ Goto(t, "lock", "stat")
    /\ lock = NoThread
    /\ lock' = t
    /\ UNCHANGED <<file, edited, event, fd, lastchanged, context, listener, aborted>>

\* GetLastChanged: st_mtime, or MESIBO_RESULT_FAIL when stat fails
GetLastChanged == IF Exists THEN file.mtime ELSE Fail

\* Mutant: a script whose time has not been recorded counts as changed
CheckFileChangeFirst(t) ==
    LET latestchange == GetLastChanged
    IN  /\ Goto(t, "stat", IF lastchanged # latestchange THEN "access" ELSE "call")
        /\ lastchanged' = ToInt(latestchange)
        /\ edited' = FALSE
        /\ UNCHANGED <<file, lock, event, fd, context, listener, aborted>>

\* GetContext up to the decision; `lastchanged_` is narrowed to an int, and
\* `lastchanged_ != latestchange` compares it, widened, with the next long
CheckFileChange(t) ==
    LET latestchange == GetLastChanged
        isFileChange == lastchanged # 0 /\ lastchanged # latestchange
    IN  /\ Goto(t, "stat", IF isFileChange THEN "access" ELSE "call")
        /\ lastchanged' = ToInt(latestchange)
        /\ edited' = FALSE
        /\ UNCHANGED <<file, lock, event, fd, context, listener, aborted>>

\* Initialize: access(script_, F_OK); without a file the old context is kept
AccessScript(t) ==
    /\ Goto(t, "access", IF Exists THEN "open" ELSE "call")
    /\ UNCHANGED <<file, edited, lock, event, fd, lastchanged, context, listener, aborted>>

\* ReadFile has failed: ToLocalChecked of the empty MaybeLocal ends the process
Abort ==
    /\ aborted' = TRUE
    /\ UNCHANGED <<file, edited, lock, pc, event, fd, lastchanged, context, listener>>

\* A stream on the file as it is now, whose size is taken by fseek and ftell
Opened == [text |-> file.text, full |-> file.text # Empty, linked |-> TRUE, eof |-> FALSE]

\* Mutant: the result of fopen is not tested
OpenScriptMutant(t) ==
    /\ Goto(t, "open", "read")
    /\ fd' = [fd EXCEPT ![t] = Opened]
    /\ UNCHANGED <<file, edited, lock, event, lastchanged, context, listener, aborted>>

\* ReadFile: fopen, fseek and ftell
OpenScript(t) ==
    \/ /\ Exists
       /\ Goto(t, "open", "read")
       /\ fd' = [fd EXCEPT ![t] = Opened]
       /\ UNCHANGED <<file, edited, lock, event, lastchanged, context, listener, aborted>>
    \/ /\ ~aborted /\ pc[t] = "open"
       /\ ~Exists \/ ReadFaults
       /\ Abort

\* The fread loop is satisfied: the text is in memory and the stream closed.
\* A file that was empty when measured is not read at all
ReadScript(t) ==
    /\ Goto(t, "read", "execute")
    /\ fd[t].full => fd[t].text # Empty /\ (fd[t].eof => ~StickyEOF)
    /\ fd' = [fd EXCEPT ![t] =
                 [Closed EXCEPT !.text = IF fd[t].full THEN fd[t].text ELSE Empty]]
    /\ UNCHANGED <<file, edited, lock, event, lastchanged, context, listener, aborted>>

\* The file was truncated after it was measured: fread returns 0 without an
\* error, and the loop runs again
ReadNothing(t) ==
    /\ ~aborted /\ pc[t] = "read"
    /\ fd[t].full /\ fd[t].text = Empty /\ ~fd[t].eof
    /\ fd' = [fd EXCEPT ![t].eof = TRUE]
    /\ UNCHANGED <<file, edited, lock, pc, event, lastchanged, context, listener, aborted>>

\* ferror(file)
ReadError(t) ==
    /\ ~aborted /\ pc[t] = "read" /\ fd[t].full /\ ReadFaults
    /\ Abort

\* Mutant: js_mesibo_on_message.IsEmpty() is true when there is no on_message,
\* and the function returns before it resets the other two handles
ExecuteScriptMutant(t) ==
    LET s == fd[t].text
    IN  /\ Goto(t, "execute", "call")
        /\ context' = s
        /\ listener' = CASE s \notin Completing -> listener
                         [] "onmessage" \in Defines[s] -> Installed(s)
                         [] OTHER -> [listener EXCEPT !["onmessage"] = NoFunction]
        /\ fd' = [fd EXCEPT ![t] = Closed]
        /\ UNCHANGED <<file, edited, lock, event, lastchanged, aborted>>

\* ExecuteScript: context_ is replaced first; the listener handles only when
\* the script has compiled and run to its end
ExecuteScript(t) ==
    LET s == fd[t].text
    IN  /\ Goto(t, "execute", "call")
        /\ context' = s
        /\ listener' = IF s \in Completing THEN Installed(s) ELSE listener
        /\ fd' = [fd EXCEPT ![t] = Closed]
        /\ UNCHANGED <<file, edited, lock, event, lastchanged, aborted>>

\* Mutant: a missing listener returns early without releasing the isolate
CallListenerMutant(t) ==
    /\ Goto(t, "call", "idle")
    /\ event' = [event EXCEPT ![t] = "none"]
    /\ lock' = IF Callee(event[t]) = NoFunction THEN lock ELSE NoThread
    /\ UNCHANGED <<file, edited, fd, lastchanged, context, listener, aborted>>

\* The rest of OnMessage, OnMessageStatus or on_close: Callee(event[t]), or the
\* callback of the request, is called if there is one, the handler returns and
\* the Locker is released
CallListener(t) ==
    /\ Goto(t, "call", "idle")
    /\ event' = [event EXCEPT ![t] = "none"]
    /\ lock' = NoThread
    /\ UNCHANGED <<file, edited, fd, lastchanged, context, listener, aborted>>

\* What a thread does on its own once it has the Locker
Handle(t) ==
    \/ CheckFileChange(t) \/ AccessScript(t) \/ OpenScript(t) \/ ReadScript(t)
    \/ ReadNothing(t) \/ ReadError(t) \/ ExecuteScript(t) \/ CallListener(t)

Next ==
    \/ Environment
    \/ \E t \in Threads :
        \/ \E e \in Calls : DeliverEvent(t, e)
        \/ AcquireLocker(t)
        \/ Handle(t)

Spec == Init /\ [][Next]_vars

\* A thread inside the Locker keeps running, and a free Locker goes to one of
\* the threads that wait for it; the host may stop delivering events, and one
\* thread may lose every race for the Locker
FairSpec ==
    /\ Spec
    /\ WF_vars(\E t \in Threads : AcquireLocker(t))
    /\ \A t \in Threads : WF_vars(Handle(t))

-----------------------------------------------------------------------------
(* Properties                                                              *)

\* Each variable keeps to its set: in particular `lastchanged_` is an int, and
\* no text but one read from a file that exists gets into a context
TypeOK ==
    /\ file \in [text : Scripts \cup {NoFile}, mtime : 1 .. MaxTime]
    /\ edited \in BOOLEAN
    /\ lock \in Threads \cup {NoThread}
    /\ pc \in [Threads -> Stages]
    /\ event \in [Threads -> Calls \cup {"none"}]
    /\ fd \in [Threads -> Stream]
    /\ lastchanged \in -(IntMax + 1) .. IntMax
    /\ context \in Scripts
    /\ listener \in [Listeners -> Scripts \cup {NoFunction}]
    /\ aborted \in BOOLEAN

\* GetContext, "Recompile if the script is changed": if the file has not
\* changed since the event's stat of it, the event runs in a context of the
\* script that is in the file, and reaches that script's own listener when the
\* script has run to its end
ServesCurrentScript ==
    \A t \in Threads :
        pc[t] = "call" /\ ~edited /\ Exists =>
            /\ context = file.text
            /\ context \in Completing /\ event[t] \in Events =>
                   Callee(event[t]) = GetGlobalFunction(file.text, event[t])

\* ExecuteScript: the three Global<Function> handles always come from the same
\* script, one that ran to its end, and that script is the one of `context_`
\* unless the latest load failed
ListenersFromOneScript ==
    /\ \E s \in Completing : listener = Installed(s)
    /\ context \in Completing => listener = Installed(context)

\* GetContext: only a change of the file makes an event pay for a reload
NoNeedlessReload ==
    [][\A t \in Threads : pc[t] = "stat" /\ pc'[t] = "access" => edited]_vars

\* The stream of t was truncated after it was measured, and fread finds its end
Truncated(t) == pc[t] = "read" /\ fd[t].full /\ (fd[t].text = Empty \/ fd[t].eof)

\* OnMessage and OnMessageStatus: a handler that has taken the Locker returns
\* and leaves it to the others, unless V8 has ended the process; nothing else
\* than a script truncated while it is read can make it stay
LockerReleased ==
    \A t \in Threads : <>[](lock = t) => <>[](aborted \/ Truncated(t))

\* GetContext: when events go on, the file's last edit reaches them: from some
\* event on, all run in the context of the script that stays in the file, if
\* one stays
LastEditServed ==
    ([]<>\E t \in Threads : pc[t] = "call") =>
        <>[]\A t \in Threads : pc[t] = "call" => context = file.text \/ ~Exists

\* ExecuteScript, "Each module script gets its own context so different script
\* calls don't affect each other": the listener an event reaches belongs to the
\* script whose context the event has entered
CalleeOfOwnContext ==
    \A t \in Threads :
        pc[t] = "call" /\ event[t] \in Events =>
            Callee(event[t]) \in {context, NoFunction}

-----------------------------------------------------------------------------
(* The place of the processor in the module                                *)

\* What V8Module sees of a handler: a context is entered when its text has been
\* read, and the steps of GetContext up to there are one
StageInModule(t) ==
    CASE pc[t] \in {"idle", "lock", "call"} -> pc[t]
      [] pc[t] = "execute" -> "reload"
      [] OTHER -> "context"

ContextInModule ==
    IF lock # NoThread /\ pc[lock] = "execute" THEN fd[lock].text ELSE context

OneInstance == {"processor"}
InInstance(value) == [m \in OneInstance |-> value]

\* V8Module with this processor as its one instance, which has been loaded; an
\* answer is brought by a thread of the host, like an event
Instance ==
    INSTANCE V8Module WITH
        Modules <- OneInstance, NoModule <- "none",
        Requests <- {}, NoOne <- NoThread,
        Listening <- {s \in Scripts : "onmessage" \in Defines[s]},
        NoScript <- NoFile,
        platform <- TRUE, templates <- "processor",
        stage <- InInstance("loaded"), ctx <- InInstance(TRUE), handlers <- InInstance(TRUE),
        context <- InInstance(ContextInModule), listener <- InInstance(listener["onmessage"]),
        lock <- InInstance(lock), pc <- [t \in Threads |-> StageInModule(t)],
        target <- [t \in Threads |-> "processor"], sender <- [r \in {} |-> NoFile],
        crash <- IF aborted THEN "read" ELSE "none"

\* GetContext, OnMessage and the end of the process on a failed read, step by
\* step and with the file changing meanwhile, do in a loaded isolate nothing that
\* V8Module leaves out when it makes a reload one step that finds some script
ImplementsInstance == Instance!LoadedSpec
=============================================================================
