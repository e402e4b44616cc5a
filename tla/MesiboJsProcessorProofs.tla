----------------------- MODULE MesiboJsProcessorProofs -----------------------
(***************************************************************************)
(* Proofs about MesiboJsProcessor for any number of threads, any scripts    *)
(* and any width of int: type correctness, the three listener handles,     *)
(* the freshness of the script an event runs, reloads only on change, and  *)
(* the refinement of a loaded instance of V8Module.                        *)
(***************************************************************************)
EXTENDS MesiboJsProcessor, TLAPS

ThreadStep(t) == \E e \in Calls : DeliverEvent(t, e) \/ AcquireLocker(t) \/ Handle(t)

-----------------------------------------------------------------------------
(* The conversion from long to int                                         *)

\* The int kept of a time is an int
LEMMA ToIntType ==
    ASSUME NEW n \in Int
    PROVE  ToInt(n) \in -(IntMax + 1) .. IntMax
BY TimeAssumption DEF ToInt

\* A time of at most 2^32 - 2 is kept, or wraps around once
LEMMA ToIntValue ==
    ASSUME NEW n \in -1 .. 2 * IntMax
    PROVE  ToInt(n) = IF n <= IntMax THEN n ELSE n - 2 * (IntMax + 1)
<1>1. IntMax \in Nat \ {0}
  BY TimeAssumption
<1>2. CASE n <= IntMax
  <2>1. n + IntMax + 1 \in 0 .. 2 * (IntMax + 1) - 1
    BY <1>1, <1>2
  <2>2. (n + IntMax + 1) % (2 * (IntMax + 1)) = n + IntMax + 1
    BY <1>1, <2>1
  <2> QED BY <1>1, <1>2, <2>2 DEF ToInt
<1>3. CASE n > IntMax
  <2>1. /\ 2 * (IntMax + 1) <= n + IntMax + 1
        /\ n + IntMax + 1 < 2 * (2 * (IntMax + 1))
    BY <1>1, <1>3
  <2>2. (n + IntMax + 1) % (2 * (IntMax + 1)) = n + IntMax + 1 - 2 * (IntMax + 1)
    BY <1>1, <2>1
  <2> QED BY <1>1, <1>3, <2>2 DEF ToInt
<1> QED BY <1>1, <1>2, <1>3

-----------------------------------------------------------------------------
(* Type correctness                                                        *)

\* What the type invariant says of the stream of one thread
LEMMA StreamType ==
    ASSUME NEW t \in Threads, TypeOK
    PROVE  /\ fd[t] \in Stream
           /\ fd[t].text \in Scripts
           /\ fd[t].full \in BOOLEAN
BY DEF TypeOK, Stream

\* What a load installs is a triple of handles
LEMMA InstalledType ==
    ASSUME NEW s \in Scripts
    PROVE  Installed(s) \in [Listeners -> Scripts \cup {NoFunction}]
BY DEF Installed, GetGlobalFunction

\* The streams are streams after a change of the file
LEMMA ReadersType ==
    ASSUME TypeOK, NEW s \in Scripts
    PROVE  /\ Detached \in [Threads -> Stream]
           /\ Rewritten(s) \in [Threads -> Stream]
BY DEF TypeOK, Stream, Detached, Rewritten

\* The module has been loaded with a script that ran to its end
LEMMA TypeInit == Init => TypeOK
<1> SUFFICES ASSUME Init PROVE TypeOK
  OBVIOUS
<1>1. FirstScript \in Scripts /\ Closed \in Stream
  BY ScriptAssumption DEF Closed, Stream
<1>2. listener \in [Listeners -> Scripts \cup {NoFunction}]
  BY <1>1, InstalledType DEF Init
<1>3. 0 \in -(IntMax + 1) .. IntMax
  BY TimeAssumption
<1> QED BY <1>1, <1>2, <1>3, TimeAssumption DEF Init, TypeOK, Stages

\* A change of the file keeps the type invariant
LEMMA TypeEnvironment == TypeOK /\ Environment => TypeOK'
<1> SUFFICES ASSUME TypeOK, Environment PROVE TypeOK'
  OBVIOUS
<1>1. ASSUME NEW s \in Scripts \cup {NoFile}, NEW r \in [Threads -> Stream], ChangeFile(s, r)
      PROVE  TypeOK'
  BY <1>1, TimeAssumption DEF TypeOK, ChangeFile, SaveTimes
<1>2. Empty \in Scripts
  BY ScriptAssumption
<1>3. CASE ReplaceScript
  BY <1>1, <1>3, ReadersType DEF ReplaceScript
<1>4. CASE TruncateScript
  BY <1>1, <1>2, <1>4, ReadersType DEF TruncateScript
<1>5. CASE WriteScript
  BY <1>1, <1>5, ReadersType DEF WriteScript
<1>6. CASE RemoveScript
  BY <1>1, <1>2, <1>6, ReadersType DEF RemoveScript
<1> QED BY <1>3, <1>4, <1>5, <1>6 DEF Environment

\* A step of a thread keeps the type invariant
LEMMA TypeThread ==
    ASSUME TypeOK, NEW t \in Threads, ThreadStep(t)
    PROVE  TypeOK'
<1> USE DEF TypeOK, Goto, Stages
<1>1. ASSUME NEW e \in Calls, DeliverEvent(t, e) PROVE TypeOK'
  BY <1>1 DEF DeliverEvent
<1>2. CASE AcquireLocker(t)
  BY <1>2 DEF AcquireLocker
<1>3. CASE CheckFileChange(t)
  <2>1. GetLastChanged \in Int
    BY TimeAssumption DEF GetLastChanged, Fail, Exists
  <2>2. ToInt(GetLastChanged) \in -(IntMax + 1) .. IntMax
    BY <2>1, ToIntType
  <2> QED BY <1>3, <2>2 DEF CheckFileChange
<1>4. CASE AccessScript(t)
  BY <1>4 DEF AccessScript
<1>5. CASE OpenScript(t)
  <2>1. Exists => Opened \in Stream
    BY DEF Exists, Opened, Stream
  <2> QED BY <1>5, <2>1 DEF OpenScript, Abort
<1>6. CASE ReadScript(t)
  <2>1. [Closed EXCEPT !.text = IF fd[t].full THEN fd[t].text ELSE Empty] \in Stream
    BY StreamType, ScriptAssumption DEF Closed, Stream
  <2> QED BY <1>6, <2>1 DEF ReadScript
<1>7. CASE ReadNothing(t)
  BY <1>7 DEF ReadNothing, Stream
<1>8. CASE ReadError(t)
  BY <1>8 DEF ReadError, Abort
<1>9. CASE ExecuteScript(t)
  <2>1. fd[t].text \in Scripts /\ Closed \in Stream
    BY StreamType, ScriptAssumption DEF Closed, Stream
  <2>2. Installed(fd[t].text) \in [Listeners -> Scripts \cup {NoFunction}]
    BY <2>1, InstalledType
  <2> QED BY <1>9, <2>1, <2>2 DEF ExecuteScript
<1>10. CASE CallListener(t)
  BY <1>10 DEF CallListener
<1> QED
  BY <1>1, <1>2, <1>3, <1>4, <1>5, <1>6, <1>7, <1>8, <1>9, <1>10 DEF ThreadStep, Handle

\* A step is one of the environment, of one thread, or a stutter
LEMMA Steps ==
    ASSUME [Next]_vars
    PROVE  Environment \/ (\E t \in Threads : ThreadStep(t)) \/ UNCHANGED vars
BY DEF Next, ThreadStep, Calls

\* The type invariant is kept by every step
LEMMA TypeNext == TypeOK /\ [Next]_vars => TypeOK'
<1> SUFFICES ASSUME TypeOK, [Next]_vars PROVE TypeOK'
  OBVIOUS
<1>1. CASE UNCHANGED vars
  BY <1>1 DEF TypeOK, vars
<1> QED BY <1>1, Steps, TypeEnvironment, TypeThread

\* Every variable keeps to its set, whatever happens to the file
THEOREM TypeCorrect == Spec => []TypeOK
BY TypeInit, TypeNext, PTL DEF Spec

-----------------------------------------------------------------------------
(* The Locker and the recorded modification time                           *)

\* The stages of a handler that is inside the Locker
Inside == Stages \ {"idle", "lock"}

\* The owner of the Locker, and nobody else, is in the middle of its handler
LockInv == \A t \in Threads : pc[t] \in Inside <=> lock = t

\* While nobody has touched the file since the latest stat, lastchanged_ holds
\* the time of the file, or no event has looked at it yet
RecordInv == ~edited => lastchanged \in {0, ToInt(GetLastChanged)}

\* Changes of the file are told apart by its modification time, and no time
\* reaches the 0 and -1 that lastchanged_ uses for other purposes
DistinctTimes ==
    /\ ~SameSecond /\ ~EarlySaves
    /\ MaxTime <= 2 * IntMax

\* lastchanged_ comes from a stat: it is not the time of a change to come
PastInv == lastchanged \in {-1, 0} \cup {ToInt(m) : m \in 1 .. file.mtime}

\* The recorded time is the one of the file that is there
Recorded == Exists /\ lastchanged = ToInt(file.mtime)

\* A text that is being loaded is the text of the file if the recorded time is
\* the time of the file, and so is context_ when nothing is being loaded
FreshInv ==
    /\ lastchanged = 0 =>
        /\ Exists /\ context = file.text
        /\ \A t \in Threads : pc[t] \notin Reloading
    /\ Recorded =>
        /\ \A t \in Threads :
            /\ pc[t] = "read" => /\ fd[t].text = file.text
                                 /\ fd[t].full <=> file.text # Empty
            /\ pc[t] = "execute" => fd[t].text = file.text
        /\ (\A t \in Threads : pc[t] \notin Reloading) => context = file.text

\* At first nobody is inside the Locker
LEMMA LockInit == Init => LockInv
BY ScriptAssumption DEF Init, LockInv, Inside, Stages

\* A step of a thread keeps the Locker with the one thread inside it
LEMMA LockThread ==
    ASSUME TypeOK, LockInv, NEW t \in Threads, ThreadStep(t)
    PROVE  LockInv'
<1> USE ScriptAssumption DEF TypeOK, LockInv, Inside, Stages, Goto
<1>1. ASSUME NEW e \in Calls, DeliverEvent(t, e) PROVE LockInv'
  BY <1>1 DEF DeliverEvent
<1>2. CASE AcquireLocker(t)
  BY <1>2 DEF AcquireLocker
<1>3. CASE CheckFileChange(t)
  BY <1>3 DEF CheckFileChange
<1>4. CASE AccessScript(t)
  BY <1>4 DEF AccessScript
<1>5. CASE OpenScript(t)
  BY <1>5 DEF OpenScript, Abort
<1>6. CASE ReadScript(t)
  BY <1>6 DEF ReadScript
<1>7. CASE ReadNothing(t) \/ ReadError(t)
  BY <1>7 DEF ReadNothing, ReadError, Abort
<1>8. CASE ExecuteScript(t)
  BY <1>8 DEF ExecuteScript
<1>9. CASE CallListener(t)
  BY <1>9 DEF CallListener
<1> QED
  BY <1>1, <1>2, <1>3, <1>4, <1>5, <1>6, <1>7, <1>8, <1>9 DEF ThreadStep, Handle

\* What no change of the file touches
LEMMA EnvironmentFrame ==
    ASSUME Environment
    PROVE  /\ edited'
           /\ UNCHANGED <<lock, pc, event, lastchanged, context, listener, aborted>>
BY DEF Environment, ReplaceScript, TruncateScript, WriteScript, RemoveScript, ChangeFile

\* The owner of the Locker is the thread inside it, after every step
LEMMA LockNext == TypeOK /\ LockInv /\ [Next]_vars => LockInv'
<1> SUFFICES ASSUME TypeOK, LockInv, [Next]_vars PROVE LockInv'
  OBVIOUS
<1>1. CASE Environment \/ UNCHANGED vars
  <2>1. UNCHANGED <<lock, pc>>
    BY <1>1, EnvironmentFrame DEF vars
  <2> QED BY <2>1 DEF LockInv
<1> QED BY <1>1, Steps, LockThread

\* The events take turns: the one thread that is past its v8::Locker and has not
\* returned from its handler is the owner of the Locker
THEOREM LockerOwner == Spec => []LockInv
<1>1. TypeOK /\ TypeOK' /\ LockInv /\ [Next]_vars => LockInv'
  BY LockNext
<1> QED BY <1>1, LockInit, TypeCorrect, PTL DEF Spec

\* At first no time has been recorded
LEMMA RecordInit == Init => RecordInv
BY DEF Init, RecordInv

\* A step of a thread keeps the recorded time up to date
LEMMA RecordThread ==
    ASSUME RecordInv, NEW t \in Threads, ThreadStep(t)
    PROVE  RecordInv'
<1>1. CASE CheckFileChange(t)
  BY <1>1 DEF CheckFileChange, RecordInv, GetLastChanged, Exists
<1>2. CASE ~CheckFileChange(t)
  <2>1. UNCHANGED <<file, edited, lastchanged>>
    BY <1>2 DEF ThreadStep, Handle, DeliverEvent, AcquireLocker, AccessScript,
       OpenScript, ReadScript, ReadNothing, ReadError, Abort, ExecuteScript, CallListener
  <2> QED BY <2>1 DEF RecordInv, GetLastChanged, Exists
<1> QED BY <1>1, <1>2

\* The recorded time is kept up to date by every step
LEMMA RecordNext == RecordInv /\ [Next]_vars => RecordInv'
<1> SUFFICES ASSUME RecordInv, [Next]_vars PROVE RecordInv'
  OBVIOUS
<1>1. CASE Environment
  BY <1>1, EnvironmentFrame DEF RecordInv
<1>2. CASE UNCHANGED vars
  BY <1>2 DEF vars, RecordInv, GetLastChanged, Exists
<1> QED BY <1>1, <1>2, Steps, RecordThread

\* As long as the file does not change after a stat, `lastchanged_` is the int
\* made of the time the next stat will return
THEOREM RecordedTime == Spec => []RecordInv
BY RecordInit, RecordNext, PTL DEF Spec

-----------------------------------------------------------------------------
(* A reload needs a change                                                 *)

\* As long as the times fit into an int, an event finds the file changed only
\* when somebody has changed it since the event before
LEMMA ReloadStep ==
    ASSUME MaxTime <= IntMax, TypeOK, RecordInv, [Next]_vars,
           NEW t \in Threads, pc[t] = "stat", pc'[t] = "access"
    PROVE  edited
<1>1. ~Environment /\ ~UNCHANGED vars
  BY EnvironmentFrame DEF vars
<1>2. PICK u \in Threads : ThreadStep(u)
  BY <1>1, Steps
<1>3. u = t /\ CheckFileChange(t)
  BY <1>2 DEF TypeOK, Stages, ThreadStep, Handle, Goto, DeliverEvent, AcquireLocker,
     CheckFileChange, AccessScript, OpenScript, ReadScript, ReadNothing, ReadError,
     Abort, ExecuteScript, CallListener
<1>4. lastchanged # 0 /\ lastchanged # GetLastChanged
  BY <1>3 DEF CheckFileChange, Goto, TypeOK
<1>5. GetLastChanged \in -1 .. IntMax
  BY TimeAssumption DEF GetLastChanged, Exists, Fail, TypeOK
<1>6. ToInt(GetLastChanged) = GetLastChanged
  BY <1>5, ToIntValue, TimeAssumption
<1> QED BY <1>4, <1>6 DEF RecordInv

\* GetContext reloads the script for a change of the file and for nothing else,
\* until times no longer fit into an int
THEOREM ReloadOnlyOnChange == ASSUME MaxTime <= IntMax PROVE Spec => NoNeedlessReload
<1>1. TypeOK /\ RecordInv /\ [Next]_vars =>
         [\A t \in Threads : pc[t] = "stat" /\ pc'[t] = "access" => edited]_vars
  BY ReloadStep
<1> QED BY <1>1, TypeCorrect, RecordedTime, PTL DEF Spec, NoNeedlessReload

-----------------------------------------------------------------------------
(* The listener handles                                                    *)

\* The script the module was loaded with has set the three handles
LEMMA ListenersInit == Init => ListenersFromOneScript
BY ScriptAssumption DEF Init, ListenersFromOneScript

\* A step of a thread changes all three handles, or none
LEMMA ListenersThread ==
    ASSUME TypeOK, ListenersFromOneScript, NEW t \in Threads, ThreadStep(t)
    PROVE  ListenersFromOneScript'
<1>1. CASE ExecuteScript(t)
  <2>1. CASE fd[t].text \in Completing
    BY <1>1, <2>1 DEF ExecuteScript, ListenersFromOneScript
  <2>2. CASE fd[t].text \notin Completing
    BY <1>1, <2>2 DEF ExecuteScript, ListenersFromOneScript
  <2> QED BY <2>1, <2>2
<1>2. CASE ~ExecuteScript(t)
  <2>1. UNCHANGED <<context, listener>>
    BY <1>2 DEF ThreadStep, Handle, DeliverEvent, AcquireLocker, CheckFileChange,
       AccessScript, OpenScript, ReadScript, ReadNothing, ReadError, Abort, CallListener
  <2> QED BY <2>1 DEF ListenersFromOneScript
<1> QED BY <1>1, <1>2

\* The handles come from one script after every step
LEMMA ListenersNext == TypeOK /\ ListenersFromOneScript /\ [Next]_vars => ListenersFromOneScript'
<1> SUFFICES ASSUME TypeOK, ListenersFromOneScript, [Next]_vars
             PROVE  ListenersFromOneScript'
  OBVIOUS
<1>1. CASE Environment \/ UNCHANGED vars
  <2>1. UNCHANGED <<context, listener>>
    BY <1>1, EnvironmentFrame DEF vars
  <2> QED BY <2>1 DEF ListenersFromOneScript
<1> QED BY <1>1, Steps, ListenersThread

\* The three handles come from one script that ran to its end, also after a
\* load that failed, with any interleaving of events and edits
THEOREM ListenersTogether == Spec => []ListenersFromOneScript
BY ListenersInit, ListenersNext, TypeCorrect, PTL DEF Spec

\* OnMessage calls a listener of another script than that of context_ in one case
\* only: the script in context_ has failed, so that ExecuteScript has returned
\* between the new context and the new handles.  Otherwise the listener is of the
\* script whose context it is called in, or is null
THEOREM FailedLoadOnly == Spec => [](context \in Completing => CalleeOfOwnContext)
<1>1. ListenersFromOneScript => (context \in Completing => CalleeOfOwnContext)
  <2> SUFFICES ASSUME ListenersFromOneScript, context \in Completing, NEW e \in Events
               PROVE  Callee(e) \in {context, NoFunction}
    BY DEF CalleeOfOwnContext
  <2>1. CASE e = "onmessage"
    BY <2>1 DEF ListenersFromOneScript, Callee, Installed, GetGlobalFunction, Events, Listeners
  <2>2. CASE e # "onmessage"
    BY <2>2 DEF Callee, GetGlobalFunction
  <2> QED BY <2>1, <2>2
<1> QED BY <1>1, ListenersTogether, PTL

-----------------------------------------------------------------------------
(* Freshness                                                               *)

\* At first `context_` is the script of the file
LEMMA FreshInit == Init => PastInv /\ FreshInv
<1> SUFFICES ASSUME Init PROVE PastInv /\ FreshInv
  OBVIOUS
<1>1. Exists
  BY ScriptAssumption DEF Init, Exists
<1> QED BY <1>1 DEF Init, PastInv, FreshInv, Recorded, Reloading

\* No time from 1 to MaxTime is mistaken for 0, -1 or another such time
LEMMA TimesDiffer ==
    ASSUME DistinctTimes, NEW m \in 1 .. MaxTime
    PROVE  /\ ToInt(m) \notin {-1, 0}
           /\ \A n \in 1 .. MaxTime : ToInt(n) = ToInt(m) => n = m
           /\ m <= IntMax => ToInt(m) = m
           /\ m > IntMax => ToInt(m) < 0
<1>1. /\ IntMax \in Nat \ {0}
      /\ MaxTime \in Nat /\ MaxTime <= 2 * IntMax
  BY TimeAssumption DEF DistinctTimes
<1>2. \A n \in 1 .. MaxTime :
         ToInt(n) = IF n <= IntMax THEN n ELSE n - 2 * (IntMax + 1)
  BY <1>1, ToIntValue
<1> QED BY <1>1, <1>2

\* The -1 of a failed stat is kept by the int
LEMMA FailKept == ToInt(-1) = -1
BY ToIntValue, TimeAssumption

\* A time that no change has had yet has not been recorded
LEMMA UnknownTime ==
    ASSUME DistinctTimes, TypeOK, PastInv, NEW n \in 1 .. MaxTime, n > file.mtime
    PROVE  lastchanged # ToInt(n)
<1>1. CASE lastchanged \in {-1, 0}
  BY <1>1, TimesDiffer
<1>2. CASE \E m \in 1 .. file.mtime : lastchanged = ToInt(m)
  <2>1. PICK m \in 1 .. file.mtime : lastchanged = ToInt(m)
    BY <1>2
  <2>2. m \in 1 .. MaxTime /\ m # n
    BY <2>1, TimeAssumption DEF TypeOK
  <2> QED BY <2>1, <2>2, TimesDiffer
<1> QED BY <1>1, <1>2 DEF PastInv

\* A change of the file leaves behind whatever has been recorded
LEMMA FreshChange ==
    ASSUME DistinctTimes, TypeOK, PastInv, FreshInv,
           NEW s, NEW r, ChangeFile(s, r)
    PROVE  PastInv' /\ FreshInv'
<1>1. /\ file.mtime \in 1 .. MaxTime
      /\ file'.mtime = file.mtime + 1 /\ file'.mtime \in 1 .. MaxTime
  BY TimeAssumption DEF TypeOK, ChangeFile, SaveTimes, DistinctTimes
<1>2. UNCHANGED <<pc, lastchanged, context>> /\ lastchanged # 0
  BY DEF ChangeFile, DistinctTimes
<1>3. PastInv'
  BY <1>1, <1>2, TimeAssumption DEF PastInv
<1>4. lastchanged # ToInt(file'.mtime)
  BY <1>1, UnknownTime, TimeAssumption
<1>5. ~Recorded'
  BY <1>2, <1>4 DEF Recorded
<1> QED BY <1>2, <1>3, <1>5 DEF FreshInv

\* A time that has been recorded is one the file has had, or the -1 of none
LEMMA PastThread ==
    ASSUME TypeOK, PastInv, NEW t \in Threads, ThreadStep(t)
    PROVE  PastInv'
<1>1. CASE CheckFileChange(t)
  <2>1. UNCHANGED file /\ lastchanged' = ToInt(GetLastChanged)
    BY <1>1 DEF CheckFileChange
  <2>2. file.mtime \in 1 .. file.mtime
    BY TimeAssumption DEF TypeOK
  <2> QED BY <2>1, <2>2, FailKept DEF PastInv, GetLastChanged, Fail
<1>2. CASE ~CheckFileChange(t)
  <2>1. UNCHANGED <<file, lastchanged>>
    BY <1>2 DEF ThreadStep, Handle, DeliverEvent, AcquireLocker, AccessScript,
       OpenScript, ReadScript, ReadNothing, ReadError, Abort, ExecuteScript, CallListener
  <2> QED BY <2>1 DEF PastInv
<1> QED BY <1>1, <1>2

\* The stat of an event: if it finds no change, context_ is the script of the
\* file already
LEMMA FreshCheck ==
    ASSUME DistinctTimes, TypeOK, LockInv, PastInv, FreshInv,
           NEW t \in Threads, CheckFileChange(t)
    PROVE  FreshInv'
<1>1. /\ pc[t] = "stat" /\ UNCHANGED <<file, fd, context>>
      /\ lastchanged' = ToInt(GetLastChanged)
      /\ \A u \in Threads \ {t} : pc'[u] = pc[u]
      /\ pc'[t] = IF lastchanged # 0 /\ lastchanged # GetLastChanged
                   THEN "access" ELSE "call"
  BY DEF CheckFileChange, Goto, TypeOK
<1>2. \A u \in Threads \ {t} : pc[u] \notin Reloading /\ pc'[u] \notin Reloading
  BY <1>1 DEF LockInv, Inside, Stages, Reloading
<1>3. lastchanged' # 0
  <2>1. file.mtime \in 1 .. MaxTime
    BY DEF TypeOK
  <2> QED BY <1>1, <2>1, TimesDiffer, FailKept DEF GetLastChanged, Fail
<1>4. ASSUME Recorded', pc'[t] = "call" PROVE context = file.text
  <2>1. CASE lastchanged = 0
    BY <2>1 DEF FreshInv
  <2>2. CASE lastchanged # 0
    <3>1. Exists /\ lastchanged = file.mtime
      BY <1>1, <1>4, <2>2 DEF Recorded, Exists, GetLastChanged
    <3>2. file.mtime \in 1 .. MaxTime /\ file.mtime <= IntMax
      BY <3>1, TimeAssumption DEF TypeOK
    <3>3. Recorded
      BY <3>1, <3>2, TimesDiffer DEF Recorded
    <3>4. \A u \in Threads : pc[u] \notin Reloading
      BY <1>1, <1>2 DEF Reloading
    <3> QED BY <3>3, <3>4 DEF FreshInv
  <2> QED BY <2>1, <2>2
<1>5. \A u \in Threads : pc'[u] \notin {"read", "execute"}
  BY <1>1, <1>2 DEF Reloading
<1>6. pc'[t] \in Reloading \/ pc'[t] = "call"
  BY <1>1 DEF Reloading
<1> QED BY <1>1, <1>3, <1>4, <1>5, <1>6 DEF FreshInv

\* The steps of one reload: the text measured, read and run is the text of the
\* file unless the recorded time is out of date by now
LEMMA FreshReload ==
    ASSUME TypeOK, LockInv, FreshInv, NEW t \in Threads,
           AccessScript(t) \/ OpenScript(t) \/ ReadScript(t) \/ ReadNothing(t)
             \/ ReadError(t) \/ ExecuteScript(t)
    PROVE  FreshInv'
<1>1. /\ UNCHANGED <<file, lastchanged>>
      /\ pc[t] \in Reloading
      /\ pc \in [Threads -> Stages] /\ fd \in [Threads -> Stream]
  BY DEF AccessScript, OpenScript, ReadScript, ReadNothing, ReadError, ExecuteScript,
     Abort, Goto, Reloading, TypeOK
<1>2. lastchanged # 0
  BY <1>1 DEF FreshInv
<1>3. \A u \in Threads \ {t} : pc[u] \notin Inside
  BY <1>1 DEF LockInv, Inside, Stages, Reloading
<1>4. SUFFICES ASSUME Recorded' PROVE FreshInv'
  BY <1>1, <1>2 DEF FreshInv
<1>5. Recorded /\ Exists
  BY <1>1, <1>4 DEF Recorded, Exists
<1> USE <1>1, <1>2, <1>3, <1>4, <1>5 DEF Goto, Inside, Stages, Reloading
<1>6. CASE AccessScript(t)
  BY <1>6 DEF AccessScript, FreshInv
<1>7. CASE OpenScript(t)
  <2>1. CASE Abort
    BY <2>1 DEF Abort, FreshInv
  <2>2. CASE ~Abort
    <3>1. /\ pc' = [pc EXCEPT ![t] = "read"] /\ UNCHANGED context
          /\ fd' = [fd EXCEPT ![t] = Opened]
      BY <1>7, <2>2 DEF OpenScript
    <3>2. fd'[t].text = file.text /\ (fd'[t].full <=> file.text # Empty)
      BY <3>1 DEF Opened
    <3> QED BY <3>1, <3>2 DEF FreshInv
  <2> QED BY <2>1, <2>2
<1>8. CASE ReadScript(t)
  <2>1. fd[t].text = file.text /\ (fd[t].full <=> file.text # Empty)
    BY <1>8 DEF ReadScript, FreshInv
  <2>2. fd'[t].text = file.text
    BY <1>8, <2>1 DEF ReadScript, Closed
  <2> QED BY <1>8, <2>2 DEF ReadScript, FreshInv
<1>9. CASE ReadNothing(t)
  <2>1. fd'[t].text = fd[t].text /\ fd'[t].full = fd[t].full
    BY <1>9 DEF ReadNothing, Stream
  <2> QED BY <1>9, <2>1 DEF ReadNothing, FreshInv
<1>10. CASE ReadError(t)
  BY <1>10 DEF ReadError, Abort, FreshInv
<1>11. CASE ExecuteScript(t)
  BY <1>11 DEF ExecuteScript, FreshInv
<1> QED BY <1>6, <1>7, <1>8, <1>9, <1>10, <1>11

\* The steps outside GetContext
LEMMA FreshOther ==
    ASSUME TypeOK, FreshInv, NEW t \in Threads,
           \/ \E e \in Calls : DeliverEvent(t, e)
           \/ AcquireLocker(t) \/ CallListener(t)
    PROVE  FreshInv'
<1>1. /\ UNCHANGED <<file, fd, lastchanged, context>>
      /\ \A u \in Threads : pc'[u] = pc[u] \/ (u = t /\ pc'[u] \in {"lock", "stat", "idle"})
      /\ pc[t] \notin Reloading
  BY DEF DeliverEvent, AcquireLocker, CallListener, Goto, TypeOK, Reloading
<1>2. Recorded' <=> Recorded
  BY <1>1 DEF Recorded, Exists
<1> QED BY <1>1, <1>2 DEF FreshInv, Exists, Reloading

\* Freshness is kept by every step
LEMMA FreshNext ==
    ASSUME DistinctTimes, TypeOK, LockInv, PastInv, FreshInv, [Next]_vars
    PROVE  PastInv' /\ FreshInv'
<1>1. CASE Environment
  BY <1>1, FreshChange
     DEF Environment, ReplaceScript, TruncateScript, WriteScript, RemoveScript
<1>2. CASE UNCHANGED vars
  BY <1>2 DEF vars, PastInv, FreshInv, Recorded, Exists
<1>3. ASSUME NEW t \in Threads, ThreadStep(t) PROVE PastInv' /\ FreshInv'
  BY <1>3, PastThread, FreshCheck, FreshReload, FreshOther DEF ThreadStep, Handle
<1> QED BY <1>1, <1>2, <1>3, Steps

\* What the invariants say of an event that reaches its listener
LEMMA FreshCall ==
    ASSUME LockInv, RecordInv, FreshInv, ListenersFromOneScript
    PROVE  ServesCurrentScript
<1> SUFFICES ASSUME NEW t \in Threads, pc[t] = "call", ~edited, Exists
             PROVE  /\ context = file.text
                    /\ context \in Completing /\ event[t] \in Events =>
                           Callee(event[t]) = GetGlobalFunction(file.text, event[t])
  BY DEF ServesCurrentScript
<1>1. \A u \in Threads : pc[u] \notin Reloading
  BY DEF LockInv, Inside, Stages, Reloading
<1>2. lastchanged = 0 \/ Recorded
  BY DEF RecordInv, Recorded, GetLastChanged
<1>3. context = file.text
  BY <1>1, <1>2 DEF FreshInv
<1>4. context \in Completing => listener["onmessage"] = GetGlobalFunction(context, "onmessage")
  BY DEF ListenersFromOneScript, Installed, Listeners, Events
<1> QED BY <1>3, <1>4 DEF Callee

\* GetContext serves the script that is in the file, for any scripts and any
\* interleaving, if changes of the file have distinct times that a 32-bit
\* counter tells apart, and start after the first event
THEOREM CurrentScriptServed == ASSUME DistinctTimes PROVE Spec => []ServesCurrentScript
<1>1. TypeOK /\ LockInv /\ PastInv /\ FreshInv /\ [Next]_vars => PastInv' /\ FreshInv'
  BY FreshNext
<1>2. Spec => [](PastInv /\ FreshInv)
  BY <1>1, FreshInit, TypeCorrect, LockerOwner, PTL DEF Spec
<1> QED
  BY <1>2, FreshCall, LockerOwner, RecordedTime, ListenersTogether, PTL

-----------------------------------------------------------------------------
(* The place of the processor in the module                                *)

\* A text that has been read is no longer tied to the file
UnlinkedInv == \A t \in Threads : pc[t] = "execute" => ~fd[t].linked

\* At first nothing has been read
LEMMA UnlinkedInit == Init => UnlinkedInv
BY DEF Init, UnlinkedInv

\* ReadFile closes its stream before the text is run
LEMMA UnlinkedNext == TypeOK /\ LockInv /\ UnlinkedInv /\ [Next]_vars => UnlinkedInv'
<1> SUFFICES ASSUME TypeOK, LockInv, UnlinkedInv, [Next]_vars PROVE UnlinkedInv'
  OBVIOUS
<1>1. CASE Environment
  <2>1. UNCHANGED pc /\ \E s : fd' \in {Detached, Rewritten(s)}
    BY <1>1 DEF Environment, ReplaceScript, TruncateScript, WriteScript, RemoveScript,
       ChangeFile
  <2>2. PICK s : fd' \in {Detached, Rewritten(s)}
    BY <2>1
  <2>3. \A t \in Threads : ~fd[t].linked => ~fd'[t].linked
    BY <2>2 DEF TypeOK, Stream, Detached, Rewritten
  <2> QED BY <2>1, <2>3 DEF UnlinkedInv
<1>2. CASE UNCHANGED vars
  BY <1>2 DEF vars, UnlinkedInv
<1>3. ASSUME NEW t \in Threads, ThreadStep(t) PROVE UnlinkedInv'
  <2>1. CASE ReadScript(t)
    BY <2>1 DEF ReadScript, Goto, Closed, TypeOK, UnlinkedInv
  <2>2. CASE ~ReadScript(t)
    <3>1. \A u \in Threads : pc'[u] = "execute" => pc[u] = "execute" /\ fd'[u] = fd[u]
      BY <1>3, <2>2
         DEF TypeOK, ThreadStep, Handle, Goto, DeliverEvent, AcquireLocker, CheckFileChange,
             AccessScript, OpenScript, ReadNothing, ReadError, Abort, ExecuteScript,
             CallListener
    <3> QED BY <3>1 DEF UnlinkedInv
  <2> QED BY <2>1, <2>2
<1> QED BY <1>1, <1>2, <1>3, Steps

\* The invariants a step of the module is shown from
ModuleInv == TypeOK /\ LockInv /\ UnlinkedInv

\* They hold in every state
LEMMA ModuleAlways == Spec => []ModuleInv
<1>1. TypeOK /\ LockInv /\ UnlinkedInv /\ [Next]_vars => UnlinkedInv'
  BY UnlinkedNext
<1> QED BY <1>1, UnlinkedInit, TypeCorrect, LockerOwner, PTL DEF Spec, ModuleInv

stagesInModule == [t \in Threads |-> StageInModule(t)]

\* What a step of one thread does to the stages of all
LEMMA StageUpdate ==
    ASSUME NEW t \in Threads, \A u \in Threads \ {t} : pc'[u] = pc[u]
    PROVE  /\ stagesInModule[t] = StageInModule(t)
           /\ stagesInModule' = [stagesInModule EXCEPT ![t] = StageInModule(t)']
           /\ StageInModule(t)' = StageInModule(t) => UNCHANGED stagesInModule
BY DEF stagesInModule, StageInModule

\* The module sees the text a thread has read as soon as it has read it
LEMMA ContextSeen ==
    ASSUME LockInv, NEW t \in Threads, pc[t] \in Inside
    PROVE  ContextInModule = IF pc[t] = "execute" THEN fd[t].text ELSE context
BY ScriptAssumption DEF LockInv, ContextInModule

\* A processor that has been loaded is an instance that has been loaded
LEMMA InstanceInit == Init => Instance!Loaded
<1> SUFFICES ASSUME Init PROVE Instance!Loaded
  OBVIOUS
<1>1. ContextInModule = FirstScript
  BY DEF Init, ContextInModule
<1>2. listener["onmessage"] =
          IF "onmessage" \in Defines[FirstScript] THEN FirstScript ELSE NoFunction
  BY DEF Init, Installed, GetGlobalFunction, Listeners, Events
<1>3. \A t \in Threads : StageInModule(t) = "idle"
  BY DEF Init, StageInModule
<1>4. FirstScript \in Scripts /\ FirstScript \in Completing
  BY ScriptAssumption
<1> QED
  BY <1>1, <1>2, <1>3, <1>4
     DEF Init, Instance!Loaded, Instance!Installed, Instance!Actors, Instance!Inside,
         InInstance, OneInstance

\* A step of one thread takes it from stage to stage of the module
LEMMA ModuleGoto ==
    ASSUME NEW t \in Threads, NEW from, NEW to, ~aborted,
           \A u \in Threads \ {t} : pc'[u] = pc[u],
           StageInModule(t) = from, StageInModule(t)' = to
    PROVE  Instance!Goto(t, from, to)
<1>1. stagesInModule[t] = from /\ stagesInModule' = [stagesInModule EXCEPT ![t] = to]
  BY StageUpdate
<1> QED BY <1>1 DEF Instance!Goto, stagesInModule

\* An event is delivered to the instance
LEMMA InstanceDeliver ==
    ASSUME ModuleInv, NEW t \in Threads, NEW e \in Calls, DeliverEvent(t, e)
    PROVE  Instance!DeliverEvent(t, "processor")
<1>1. /\ ~aborted /\ pc[t] = "idle" /\ pc'[t] = "lock"
      /\ \A u \in Threads \ {t} : pc'[u] = pc[u]
      /\ UNCHANGED <<fd, lock, context, listener, aborted>>
  BY DEF DeliverEvent, Goto, ModuleInv, TypeOK
<1>2. Instance!Goto(t, "idle", "lock")
  BY <1>1, ModuleGoto DEF StageInModule
<1>3. UNCHANGED ContextInModule
  <2>1. lock # NoThread => (pc'[lock] = "execute" <=> pc[lock] = "execute")
    BY <1>1 DEF ModuleInv, TypeOK
  <2> QED BY <1>1, <2>1 DEF ContextInModule
<1>4. [u \in Threads |-> "processor"] =
          [[u \in Threads |-> "processor"] EXCEPT ![t] = "processor"]
  OBVIOUS
<1> QED
  BY <1>1, <1>2, <1>3, <1>4
     DEF Instance!DeliverEvent, Instance!loading, InInstance, OneInstance

\* A thread enters the isolate, or leaves it
LEMMA InstanceEnterLeave ==
    ASSUME ModuleInv, NEW t \in Threads
    PROVE  /\ AcquireLocker(t) => Instance!AcquireLocker(t)
           /\ CallListener(t) => Instance!Return(t)
<1>1. t # NoThread
  BY ScriptAssumption
<1>2. ASSUME AcquireLocker(t) PROVE Instance!AcquireLocker(t)
  <2>1. /\ ~aborted /\ pc[t] = "lock" /\ pc'[t] = "stat"
        /\ \A u \in Threads \ {t} : pc'[u] = pc[u]
        /\ lock = NoThread /\ lock' = t
        /\ UNCHANGED <<context, listener, aborted>>
    BY <1>2 DEF AcquireLocker, Goto, ModuleInv, TypeOK
  <2>2. Instance!Goto(t, "lock", "context")
    BY <2>1, ModuleGoto DEF StageInModule
  <2>3. UNCHANGED ContextInModule
    BY <1>1, <2>1 DEF ContextInModule
  <2> QED
    BY <2>1, <2>2, <2>3 DEF Instance!AcquireLocker, Instance!loading, InInstance, OneInstance
<1>3. ASSUME CallListener(t) PROVE Instance!Return(t)
  <2>1. /\ ~aborted /\ pc[t] = "call" /\ pc'[t] = "idle"
        /\ \A u \in Threads \ {t} : pc'[u] = pc[u]
        /\ lock' = NoThread
        /\ UNCHANGED <<context, listener, aborted>>
    BY <1>3 DEF CallListener, Goto, ModuleInv, TypeOK
  <2>2. Instance!Goto(t, "call", "idle")
    BY <2>1, ModuleGoto DEF StageInModule
  <2>3. ContextInModule = context
    BY <2>1, ContextSeen DEF ModuleInv, Inside, Stages
  <2>4. ContextInModule' = context'
    BY <2>1 DEF ContextInModule
  <2> QED
    BY <2>1, <2>2, <2>3, <2>4
       DEF Instance!Return, Instance!loading, InInstance, OneInstance
<1> QED BY <1>2, <1>3

\* GetContext up to the moment the text is read is one stage of the module, which
\* ends when nothing is to be loaded, with the process, or with some script
LEMMA InstanceGetContext ==
    ASSUME ModuleInv, ModuleInv', NEW t \in Threads,
           CheckFileChange(t) \/ AccessScript(t) \/ OpenScript(t) \/ ReadScript(t)
             \/ ReadNothing(t) \/ ReadError(t)
    PROVE  [Instance!Next]_(Instance!vars)
<1>1. /\ ~aborted /\ pc[t] \in {"stat", "access", "open", "read"}
      /\ \A u \in Threads \ {t} : pc'[u] = pc[u]
      /\ UNCHANGED <<lock, context, listener>>
      /\ StageInModule(t) = "context" /\ ContextInModule = context /\ lock = t
  <2>1. /\ ~aborted /\ pc[t] \in {"stat", "access", "open", "read"}
        /\ \A u \in Threads \ {t} : pc'[u] = pc[u]
        /\ UNCHANGED <<lock, context, listener>>
    BY DEF ModuleInv, TypeOK, Goto, CheckFileChange, AccessScript, OpenScript,
       ReadScript, ReadNothing, ReadError, Abort
  <2> QED BY <2>1, ContextSeen DEF ModuleInv, LockInv, Inside, Stages, StageInModule
<1>2. CASE pc'[t] \in {"stat", "access", "open", "read", "call"}
  <2>1. ContextInModule' = context
    BY <1>1, <1>2 DEF ContextInModule
  <2>2. CASE aborted'
    <3>1. Abort
      BY <2>2, <1>1 DEF Goto, CheckFileChange, AccessScript, OpenScript, ReadScript,
         ReadNothing, ReadError
    <3>2. UNCHANGED stagesInModule
      BY <3>1 DEF Abort, stagesInModule, StageInModule
    <3>3. Instance!Crash("read")
      BY <1>1, <2>1, <2>2, <3>1, <3>2
         DEF Abort, Instance!Crash, Instance!loading, InInstance, stagesInModule
    <3>4. Instance!FailToRead
      BY <1>1, <3>3 DEF Instance!FailToRead, Instance!Actors
    <3> QED BY <3>4 DEF Instance!Next
  <2>3. CASE ~aborted' /\ pc'[t] = "call"
    <3>1. Instance!Goto(t, "context", "call")
      BY <1>1, <2>3, ModuleGoto DEF StageInModule
    <3>2. Instance!KeepContext(t)
      BY <1>1, <2>1, <2>3, <3>1 DEF Instance!KeepContext, Instance!loading, InInstance
    <3> QED BY <3>2 DEF Instance!Next, Instance!Run, Instance!Actors
  <2>4. CASE ~aborted' /\ pc'[t] # "call"
    <3>1. StageInModule(t)' = "context"
      BY <1>2, <2>4 DEF StageInModule
    <3>2. UNCHANGED stagesInModule
      BY <1>1, <3>1, StageUpdate
    <3> QED
      BY <1>1, <2>1, <2>4, <3>2 DEF Instance!vars, InInstance, stagesInModule
  <2> QED BY <2>2, <2>3, <2>4
<1>3. CASE pc'[t] = "execute"
  <2>1. ReadScript(t) /\ ~aborted'
    BY <1>1, <1>3 DEF ModuleInv, TypeOK, Goto, CheckFileChange, AccessScript, OpenScript,
       ReadScript, ReadNothing, ReadError, Abort
  <2>2. ContextInModule' = fd'[t].text /\ fd'[t].text \in Scripts
    BY <1>1, <1>3, ScriptAssumption, StreamType DEF ContextInModule, ModuleInv, TypeOK, Stream
  <2>3. Instance!Goto(t, "context", "reload")
    BY <1>1, <1>3, ModuleGoto DEF StageInModule
  <2>4. Instance!ReloadScript(t)
    BY <1>1, <2>1, <2>2, <2>3
       DEF Instance!ReloadScript, Instance!loading, InInstance, OneInstance
  <2> QED BY <2>4 DEF Instance!Next, Instance!Run, Instance!Actors
<1>4. pc'[t] \in {"stat", "access", "open", "read", "execute", "call"}
  BY <1>1 DEF ModuleInv, TypeOK, Goto, CheckFileChange, AccessScript, OpenScript,
     ReadScript, ReadNothing, ReadError, Abort
<1> QED BY <1>2, <1>3, <1>4

\* The run of the script is the end of a reload
LEMMA InstanceExecute ==
    ASSUME ModuleInv, NEW t \in Threads, ExecuteScript(t)
    PROVE  Instance!FinishReload(t)
<1>1. /\ ~aborted /\ pc[t] = "execute" /\ pc'[t] = "call" /\ lock = t /\ t # NoThread
      /\ \A u \in Threads \ {t} : pc'[u] = pc[u]
      /\ UNCHANGED <<lock, aborted>>
      /\ context' = fd[t].text
  BY ScriptAssumption DEF ExecuteScript, Goto, ModuleInv, TypeOK, LockInv, Inside, Stages
<1>2. Instance!Goto(t, "reload", "call")
  BY <1>1, ModuleGoto DEF StageInModule
<1>3. ContextInModule = fd[t].text /\ ContextInModule' = fd[t].text
  BY <1>1 DEF ContextInModule
<1>4. listener'["onmessage"] =
          IF fd[t].text \notin Completing THEN listener["onmessage"]
          ELSE IF "onmessage" \in Defines[fd[t].text] THEN fd[t].text ELSE NoFunction
  BY DEF ExecuteScript, Installed, GetGlobalFunction, Listeners, Events
<1>5. fd[t].text \in Scripts
  BY StreamType DEF ModuleInv
<1>6. Instance!Installed("processor", fd[t].text) = listener'["onmessage"]
  BY <1>4, <1>5 DEF Instance!Installed, InInstance, OneInstance
<1> QED
  BY <1>1, <1>2, <1>3, <1>6
     DEF Instance!FinishReload, Instance!loading, InInstance, OneInstance

\* The module does not see the file change
LEMMA InstanceEnvironment ==
    ASSUME ModuleInv, Environment \/ UNCHANGED vars
    PROVE  UNCHANGED Instance!vars
<1>1. UNCHANGED <<lock, pc, context, listener, aborted>>
  BY EnvironmentFrame DEF vars
<1>2. \A t \in Threads : pc[t] = "execute" => fd'[t].text = fd[t].text
  <2>1. CASE Environment
    <3>1. PICK s : fd' \in {Detached, Rewritten(s)}
      BY <2>1 DEF Environment, ReplaceScript, TruncateScript, WriteScript, RemoveScript,
         ChangeFile
    <3> QED
      BY <3>1 DEF ModuleInv, UnlinkedInv, TypeOK, Stream, Detached, Rewritten
  <2> QED BY <2>1 DEF vars
<1>3. UNCHANGED ContextInModule
  BY <1>1, <1>2 DEF ContextInModule, ModuleInv, TypeOK
<1>4. UNCHANGED stagesInModule
  BY <1>1 DEF stagesInModule, StageInModule
<1> QED BY <1>1, <1>3, <1>4 DEF Instance!vars, InInstance, stagesInModule

\* What V8Module says of a loaded instance holds of the processor with all its
\* system calls, whatever happens to the file and whatever its times
THEOREM InstanceImplemented == Spec => ImplementsInstance
<1>1. ModuleInv /\ ModuleInv' /\ [Next]_vars => [Instance!Next]_(Instance!vars)
  <2> SUFFICES ASSUME ModuleInv, ModuleInv', [Next]_vars
               PROVE  [Instance!Next]_(Instance!vars)
    OBVIOUS
  <2>1. CASE Environment \/ UNCHANGED vars
    BY <2>1, InstanceEnvironment
  <2>2. ASSUME NEW t \in Threads, ThreadStep(t) PROVE [Instance!Next]_(Instance!vars)
    <3>1. ASSUME NEW e \in Calls, DeliverEvent(t, e) PROVE Instance!Next
      BY <3>1, InstanceDeliver DEF Instance!Next, OneInstance
    <3>2. CASE AcquireLocker(t) \/ CallListener(t) \/ ExecuteScript(t)
      BY <3>2, InstanceEnterLeave, InstanceExecute
         DEF Instance!Next, Instance!Run, Instance!Actors
    <3> QED BY <2>2, <3>1, <3>2, InstanceGetContext DEF ThreadStep, Handle
  <2> QED BY <2>1, <2>2, Steps
<1> QED
  BY <1>1, InstanceInit, ModuleAlways, PTL DEF Spec, ImplementsInstance, Instance!LoadedSpec
=============================================================================
