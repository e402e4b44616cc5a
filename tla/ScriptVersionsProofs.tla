------------------------- MODULE ScriptVersionsProofs -------------------------
(***************************************************************************)
(* GetContext implements ScriptService, for any number of threads, any     *)
(* scripts, any edits and any failures, if the changes of the file have    *)
(* distinct times (DistinctTimes).  What it loads is in the order of the   *)
(* versions whatever their times.                                          *)
(***************************************************************************)
EXTENDS ScriptVersions, MesiboJsProcessorProofs

\* The time of version n is the one in lastchanged_
Known(n) == lastchanged = ToInt(StartTime + n - 1)

\* The versions are numbered by the times of the file, the last is in the file,
\* and the one that is running is in context_
SavedInv ==
    /\ saved \in Seq(Scripts \cup {NoFile})
    /\ Len(saved) >= 1
    /\ Len(saved) = file.mtime - StartTime + 1
    /\ saved[Len(saved)] = file.text
    /\ running \in 1 .. Len(saved)
    /\ saved[running] = context
    /\ taken \in [Threads -> Nat]
    /\ awaiting \in [Threads -> Nat]
    /\ \A t \in Threads : /\ awaiting[t] <= Len(saved)
                          /\ awaiting[t] = 0 <=> pc[t] = "idle"

\* What fread gives of the stream
TextRead(t) == IF pc[t] = "read" /\ ~fd[t].full THEN Empty ELSE fd[t].text

\* A text that is being loaded is no older than the one that is running, than
\* the one its event is waiting for, and than the recorded time
TakenInv ==
    \A t \in Threads : pc[t] \in {"read", "execute"} =>
        /\ taken[t] \in running .. Len(saved)
        /\ taken[t] >= awaiting[t]
        /\ \A n \in 1 .. Len(saved) : Known(n) => taken[t] >= n
        /\ saved[taken[t]] = TextRead(t)
        /\ pc[t] = "execute" => ~fd[t].linked

\* The file was gone at some time since version n was saved
Gone(n) == \E k \in n .. Len(saved) : saved[k] = NoFile

\* Version n is running, or a later one, or there has been no file since
Served(n) == running >= n \/ Gone(n)

\* When nothing is being loaded the recorded version has been served, and so
\* has the one an event about to be handed on is waiting for
RunningInv ==
    /\ lastchanged = 0 => /\ running = Len(saved) /\ Exists
                          /\ \A t \in Threads : pc[t] \notin Reloading
    /\ (\A t \in Threads : pc[t] \notin Reloading) =>
           \A n \in 1 .. Len(saved) : Known(n) => Served(n)
    /\ \A t \in Threads : pc[t] = "call" => Served(awaiting[t])

VersionsInv == SavedInv /\ TakenInv /\ RunningInv

-----------------------------------------------------------------------------
(* The history adds nothing to the steps                                   *)

\* A step with its history is a step
LEMMA VersionsStep ==
    ASSUME [VersionsNext]_<<vars, history>>
    PROVE  [Next]_vars
BY DEF VersionsNext, Save, Deliver, Open, Load, Serve, Unrecorded, Next, Handle

\* What holds of the processor holds of it with its history
LEMMA VersionsSpecSpec == VersionsSpec => Spec
<1>1. VersionsInit => Init
  BY DEF VersionsInit
<1> QED BY <1>1, VersionsStep, PTL DEF VersionsSpec, Spec

-----------------------------------------------------------------------------
(* The invariant                                                           *)

\* At first the only version is running
LEMMA VersionsInitInv == VersionsInit => VersionsInv
<1> SUFFICES ASSUME VersionsInit PROVE VersionsInv
  OBVIOUS
<1>1. /\ FirstScript \in Scripts /\ FirstScript # NoFile /\ Empty \in Scripts
      /\ StartTime \in Nat
  BY ScriptAssumption, TimeAssumption
<1>2. saved \in Seq(Scripts \cup {NoFile}) /\ Len(saved) = 1 /\ saved[1] = FirstScript
  BY <1>1 DEF VersionsInit
<1>3. SavedInv
  BY <1>1, <1>2 DEF VersionsInit, Init, SavedInv
<1>4. TakenInv
  BY DEF VersionsInit, Init, TakenInv
<1>5. RunningInv
  BY <1>1, <1>2 DEF VersionsInit, Init, RunningInv, Exists, Reloading, Served
<1> QED BY <1>3, <1>4, <1>5 DEF VersionsInv

\* The versions after a change of the file
LEMMA SavedAppend ==
    ASSUME saved \in Seq(Scripts \cup {NoFile}), TypeOK', Save
    PROVE  /\ saved' \in Seq(Scripts \cup {NoFile})
           /\ Len(saved') = Len(saved) + 1
           /\ \A n \in 1 .. Len(saved) : saved'[n] = saved[n]
           /\ saved'[Len(saved')] = file'.text
           /\ \A n \in Nat \ {0} : Gone(n) => Gone(n)'
<1>1. file'.text \in Scripts \cup {NoFile}
  BY DEF TypeOK
<1>2. saved' = Append(saved, file'.text)
  BY DEF Save
<1>3. /\ saved' \in Seq(Scripts \cup {NoFile})
      /\ Len(saved') = Len(saved) + 1
      /\ \A n \in 1 .. Len(saved) : saved'[n] = saved[n]
      /\ saved'[Len(saved')] = file'.text
  BY <1>1, <1>2
<1>4. Len(saved) \in Nat
  BY <1>2
<1>5. \A n \in Nat \ {0} : Gone(n) => Gone(n)'
  BY <1>3, <1>4 DEF Gone
<1> QED BY <1>3, <1>5

\* The texts of the streams after a change of the file
LEMMA StreamsSaved ==
    ASSUME TypeOK, Save, NEW t \in Threads, pc[t] \in {"read", "execute"},
           pc[t] = "execute" => ~fd[t].linked
    PROVE  /\ \/ taken'[t] = taken[t] /\ TextRead(t)' = TextRead(t)
              \/ taken'[t] = Len(saved) + 1 /\ TextRead(t)' = file'.text
           /\ pc[t] = "execute" => ~fd'[t].linked
<1>1. UNCHANGED pc /\ fd[t] \in Stream
  BY EnvironmentFrame DEF Save, TypeOK
<1>2. CASE fd' = Detached
  <2>1. /\ ~fd'[t].linked
        /\ fd'[t].text = fd[t].text /\ fd'[t].full = fd[t].full
    BY <1>1, <1>2 DEF Detached, Stream
  <2> QED BY <1>1, <2>1 DEF Save, TextRead
<1>3. ASSUME NEW s \in Scripts, fd' = Rewritten(s), file'.text = s
      PROVE  /\ \/ taken'[t] = taken[t] /\ TextRead(t)' = TextRead(t)
                \/ taken'[t] = Len(saved) + 1 /\ TextRead(t)' = file'.text
             /\ pc[t] = "execute" => ~fd'[t].linked
  <2>1. /\ fd'[t].linked = fd[t].linked /\ fd'[t].full = fd[t].full
        /\ fd'[t].text = IF fd[t].linked THEN s ELSE fd[t].text
    BY <1>1, <1>3 DEF Rewritten, Stream
  <2> QED BY <1>1, <1>3, <2>1 DEF Save, TextRead
<1>4. Empty \in Scripts
  BY ScriptAssumption
<1>5. fd' = Detached \/ \E s \in Scripts : fd' = Rewritten(s) /\ file'.text = s
  BY <1>4 DEF Save, Environment, ReplaceScript, TruncateScript, WriteScript, RemoveScript,
     ChangeFile
<1> QED BY <1>2, <1>3, <1>5

\* A change of the file keeps the invariant: nobody has recorded its time yet
LEMMA SaveKeeps ==
    ASSUME DistinctTimes, TypeOK, TypeOK', PastInv, VersionsInv, Save
    PROVE  VersionsInv'
<1> USE DEF VersionsInv
<1>1. /\ UNCHANGED <<pc, lastchanged, context, running, awaiting>>
      /\ lastchanged # 0
      /\ file'.mtime = file.mtime + 1
  BY EnvironmentFrame, TimeAssumption
     DEF Save, Environment, ReplaceScript, TruncateScript, WriteScript, RemoveScript,
         ChangeFile, SaveTimes, DistinctTimes, TypeOK
<1>2. /\ StartTime \in Nat /\ Len(saved) \in Nat
      /\ file.mtime \in 1 .. MaxTime /\ file'.mtime \in 1 .. MaxTime
  BY TimeAssumption DEF TypeOK, SavedInv
<1>3. /\ saved' \in Seq(Scripts \cup {NoFile})
      /\ Len(saved') = Len(saved) + 1
      /\ \A n \in 1 .. Len(saved) : saved'[n] = saved[n]
      /\ saved'[Len(saved')] = file'.text
      /\ \A n \in Nat \ {0} : Gone(n) => Gone(n)'
  BY SavedAppend DEF SavedInv
<1>4. ~Known(Len(saved'))
  <2>1. StartTime + Len(saved') - 1 = file'.mtime
    BY <1>1, <1>2, <1>3 DEF SavedInv
  <2> QED BY <2>1, <1>1, <1>2, UnknownTime DEF Known
<1>5. ASSUME NEW n \in 1 .. Len(saved'), Known(n)' PROVE n \in 1 .. Len(saved) /\ Known(n)
  <2>1. Known(n)
    BY <1>1, <1>5 DEF Known
  <2> QED BY <2>1, <1>2, <1>3, <1>4
<1>6. SavedInv'
  <2>1. taken' \in [Threads -> Nat]
    BY <1>2 DEF Save, SavedInv
  <2>2. saved'[running'] = context' /\ running' \in 1 .. Len(saved')
    BY <1>1, <1>2, <1>3 DEF SavedInv
  <2>3. \A t \in Threads : awaiting'[t] <= Len(saved') /\ (awaiting'[t] = 0 <=> pc'[t] = "idle")
    <3> TAKE t \in Threads
    <3>1. awaiting[t] \in Nat /\ awaiting[t] <= Len(saved) /\ (awaiting[t] = 0 <=> pc[t] = "idle")
      BY DEF SavedInv
    <3> QED BY <1>1, <1>2, <1>3, <3>1
  <2>4. Len(saved') = file'.mtime - StartTime + 1
    BY <1>1, <1>2, <1>3 DEF SavedInv
  <2>5. Len(saved') >= 1 /\ awaiting' \in [Threads -> Nat]
    BY <1>1, <1>2, <1>3 DEF SavedInv
  <2>6. saved' \in Seq(Scripts \cup {NoFile}) /\ saved'[Len(saved')] = file'.text
    BY <1>3
  <2> QED BY <2>1, <2>2, <2>3, <2>4, <2>5, <2>6 DEF SavedInv
<1>7. TakenInv'
  <2> SUFFICES ASSUME NEW t \in Threads, pc'[t] \in {"read", "execute"}
               PROVE  /\ taken'[t] \in running' .. Len(saved')
                      /\ taken'[t] >= awaiting'[t]
                      /\ \A n \in 1 .. Len(saved') : Known(n)' => taken'[t] >= n
                      /\ saved'[taken'[t]] = TextRead(t)'
                      /\ pc'[t] = "execute" => ~fd'[t].linked
    BY DEF TakenInv
  <2>1. /\ taken[t] \in running .. Len(saved) /\ taken[t] >= awaiting[t]
        /\ \A n \in 1 .. Len(saved) : Known(n) => taken[t] >= n
        /\ saved[taken[t]] = TextRead(t)
        /\ pc[t] = "execute" => ~fd[t].linked
    BY <1>1 DEF TakenInv
  <2>2. /\ \/ taken'[t] = taken[t] /\ TextRead(t)' = TextRead(t)
           \/ taken'[t] = Len(saved) + 1 /\ TextRead(t)' = file'.text
        /\ pc[t] = "execute" => ~fd'[t].linked
    BY <1>1, <2>1, StreamsSaved
  <2>3. running \in 1 .. Len(saved) /\ awaiting[t] \in Nat /\ awaiting[t] <= Len(saved)
    BY DEF SavedInv
  <2> QED BY <1>1, <1>2, <1>3, <1>5, <2>1, <2>2, <2>3
<1>8. \A n \in Nat \ {0} : Served(n) => Served(n)'
  BY <1>1, <1>3 DEF Served
<1>9. RunningInv'
  <2>1. ASSUME \A t \in Threads : pc'[t] \notin Reloading,
               NEW n \in 1 .. Len(saved'), Known(n)'
        PROVE  Served(n)'
    BY <1>1, <1>5, <1>8, <2>1 DEF RunningInv
  <2>2. ASSUME NEW t \in Threads, pc'[t] = "call" PROVE Served(awaiting[t])'
    <3>1. awaiting[t] \in Nat \ {0} /\ Served(awaiting[t])
      BY <1>1, <2>2 DEF RunningInv, SavedInv
    <3> QED BY <1>1, <1>8, <3>1 DEF Served
  <2> QED BY <1>1, <2>1, <2>2 DEF RunningInv
<1> QED BY <1>6, <1>7, <1>9

\* The stat of an event: unless it starts a reload, the version it has found is
\* running already, or there is no file
LEMMA CheckKeeps ==
    ASSUME DistinctTimes, TypeOK, LockInv, VersionsInv,
           NEW t \in Threads, CheckFileChange(t), UNCHANGED history
    PROVE  VersionsInv'
<1> USE DEF VersionsInv
<1>1. /\ UNCHANGED <<file, fd, context, saved, running, taken, awaiting>>
      /\ lastchanged' = ToInt(GetLastChanged)
      /\ pc[t] = "stat"
      /\ pc'[t] = IF lastchanged # 0 /\ lastchanged # GetLastChanged
                   THEN "access" ELSE "call"
      /\ pc'[t] \in {"access", "call"}
  BY DEF CheckFileChange, Goto, TypeOK, history
<1>2. \A u \in Threads \ {t} : pc'[u] = pc[u] /\ pc[u] \in {"idle", "lock"}
  BY DEF CheckFileChange, Goto, LockInv, Inside, Stages, TypeOK
<1>3. /\ StartTime \in Nat /\ Len(saved) \in Nat \ {0} /\ running \in 1 .. Len(saved)
      /\ Len(saved) = file.mtime - StartTime + 1
      /\ file.mtime \in 1 .. MaxTime /\ saved[Len(saved)] = file.text
      /\ lastchanged \in Int /\ lastchanged <= IntMax /\ IntMax \in Nat
      /\ awaiting[t] \in 1 .. Len(saved)
  BY <1>1, TimeAssumption DEF TypeOK, SavedInv
<1>4. \A n \in 1 .. Len(saved) : StartTime + n - 1 \in 1 .. MaxTime
  BY <1>3, TimeAssumption
<1>5. lastchanged' # 0
  BY <1>1, <1>3, TimesDiffer, FailKept DEF GetLastChanged, Fail
<1>6. ASSUME ~Exists PROVE \A n \in 1 .. Len(saved) : ~Known(n)' /\ Gone(n)
  <2>1. lastchanged' = -1
    BY <1>1, <1>6, FailKept DEF GetLastChanged, Fail
  <2>2. \A n \in 1 .. Len(saved) : ~Known(n)'
    BY <2>1, <1>4, TimesDiffer DEF Known
  <2> QED BY <2>2, <1>3, <1>6 DEF Gone, Exists
<1>7. ASSUME Exists, pc'[t] = "call" PROVE running = Len(saved)
  <2>1. CASE lastchanged = 0
    BY <2>1 DEF RunningInv
  <2>2. CASE lastchanged # 0
    <3>1. lastchanged = file.mtime /\ file.mtime <= IntMax
      BY <1>1, <1>3, <1>7, <2>2 DEF GetLastChanged
    <3>2. StartTime + Len(saved) - 1 = file.mtime
      BY <1>3
    <3>3. Known(Len(saved))
      BY <3>1, <3>2, <1>3, TimesDiffer DEF Known
    <3>4. \A u \in Threads : pc[u] \notin Reloading
      BY <1>1, <1>2 DEF Reloading
    <3>5. Served(Len(saved))
      BY <3>3, <3>4, <1>3 DEF RunningInv
    <3>6. ~Gone(Len(saved))
      BY <1>3, <1>7 DEF Gone, Exists
    <3> QED BY <3>5, <3>6, <1>3 DEF Served
  <2> QED BY <2>1, <2>2
<1>8. SavedInv'
  <2>1. \A u \in Threads : awaiting[u] = 0 <=> pc'[u] = "idle"
    BY <1>1, <1>2, <1>3 DEF SavedInv
  <2> QED BY <1>1, <2>1 DEF SavedInv
<1>9. TakenInv'
  BY <1>1, <1>2 DEF TakenInv
<1>10. RunningInv'
  <2>1. ASSUME pc'[t] = "call", NEW n \in 1 .. Len(saved) PROVE Served(n)
    BY <2>1, <1>3, <1>6, <1>7 DEF Served
  <2>2. ASSUME \A u \in Threads : pc'[u] \notin Reloading,
               NEW n \in 1 .. Len(saved)
        PROVE  Served(n)
    BY <1>1, <2>1, <2>2 DEF Reloading
  <2>3. \A n \in Nat : Served(n)' <=> Served(n)
    BY <1>1 DEF Served, Gone
  <2>4. ASSUME \A u \in Threads : pc'[u] \notin Reloading,
               NEW n \in 1 .. Len(saved')
        PROVE  Served(n)'
    BY <1>1, <1>3, <2>2, <2>3, <2>4
  <2>5. ASSUME NEW u \in Threads, pc'[u] = "call" PROVE Served(awaiting[u])'
    <3>1. u = t
      BY <1>2, <2>5
    <3>2. Served(awaiting[t])
      BY <1>3, <2>1, <2>5, <3>1
    <3> QED BY <1>1, <3>1, <3>2 DEF Served, Gone
  <2> QED BY <1>5, <2>4, <2>5 DEF RunningInv
<1> QED BY <1>8, <1>9, <1>10

\* What a step of a reload finds and leaves: no other thread is inside the
\* Locker, and a time has been recorded
LEMMA ReloadFrame ==
    ASSUME TypeOK, LockInv, VersionsInv, NEW t \in Threads,
           \/ AccessScript(t) \/ OpenScript(t) \/ ReadScript(t)
           \/ ReadNothing(t) \/ ReadError(t) \/ ExecuteScript(t)
    PROVE  /\ UNCHANGED <<file, lastchanged>> /\ lastchanged # 0
           /\ pc[t] \in Reloading /\ awaiting[t] \in 1 .. Len(saved)
           /\ \A u \in Threads \ {t} : pc'[u] = pc[u] /\ pc[u] \in {"idle", "lock"}
           /\ pc \in [Threads -> Stages] /\ fd \in [Threads -> Stream]
           /\ running \in 1 .. Len(saved) /\ Len(saved) \in Nat
<1>1. /\ UNCHANGED <<file, lastchanged>> /\ pc[t] \in Reloading
      /\ \A u \in Threads \ {t} : pc'[u] = pc[u]
      /\ pc \in [Threads -> Stages] /\ fd \in [Threads -> Stream]
  BY DEF AccessScript, OpenScript, ReadScript, ReadNothing, ReadError, ExecuteScript,
     Abort, Goto, Reloading, TypeOK
<1>2. lastchanged # 0 /\ awaiting[t] \in 1 .. Len(saved)
      /\ running \in 1 .. Len(saved) /\ Len(saved) \in Nat
  BY <1>1 DEF VersionsInv, SavedInv, RunningInv, Reloading
<1>3. \A u \in Threads \ {t} : pc[u] \in {"idle", "lock"}
  BY <1>1 DEF LockInv, Inside, Reloading, Stages
<1> QED BY <1>1, <1>2, <1>3

\* A step of a reload that hands nothing on yet keeps the invariant if the text
\* it leaves is the one of its version
LEMMA ReloadKeeps ==
    ASSUME TypeOK, LockInv, VersionsInv, NEW t \in Threads,
           OpenScript(t) \/ ReadScript(t) \/ ReadNothing(t) \/ ReadError(t),
           UNCHANGED <<saved, running, awaiting, context>>,
           taken' \in [Threads -> Nat], pc'[t] \in Reloading,
           pc'[t] \in {"read", "execute"} =>
               /\ taken'[t] \in running .. Len(saved)
               /\ taken'[t] >= awaiting[t]
               /\ \A n \in 1 .. Len(saved) : Known(n) => taken'[t] >= n
               /\ saved[taken'[t]] = TextRead(t)'
               /\ pc'[t] = "execute" => ~fd'[t].linked
    PROVE  VersionsInv'
<1>1. /\ UNCHANGED <<file, lastchanged>> /\ lastchanged # 0
      /\ pc[t] \in Reloading
      /\ \A u \in Threads \ {t} : pc'[u] = pc[u] /\ pc[u] \in {"idle", "lock"}
  BY ReloadFrame
<1>2. SavedInv'
  BY <1>1 DEF VersionsInv, SavedInv, Reloading
<1>3. TakenInv'
  BY <1>1 DEF TakenInv, Known
<1>4. RunningInv'
  BY <1>1 DEF RunningInv, Reloading
<1> QED BY <1>2, <1>3, <1>4 DEF VersionsInv

\* access: a file that is missing now has been missing since the recorded time
LEMMA AccessKeeps ==
    ASSUME TypeOK, LockInv, VersionsInv,
           NEW t \in Threads, AccessScript(t), UNCHANGED history
    PROVE  VersionsInv'
<1> USE DEF VersionsInv
<1>1. /\ UNCHANGED <<file, lastchanged>> /\ lastchanged # 0
      /\ pc[t] \in Reloading /\ awaiting[t] \in 1 .. Len(saved)
      /\ \A u \in Threads \ {t} : pc'[u] = pc[u] /\ pc[u] \in {"idle", "lock"}
      /\ pc \in [Threads -> Stages] /\ Len(saved) \in Nat
  BY ReloadFrame
<1>2. /\ UNCHANGED <<fd, context, saved, running, taken, awaiting>>
      /\ pc'[t] = IF Exists THEN "open" ELSE "call"
  BY <1>1 DEF AccessScript, Goto, history
<1>3. ~Exists => \A n \in 1 .. Len(saved) : Gone(n)
  BY <1>1 DEF SavedInv, Gone, Exists
<1>4. SavedInv'
  BY <1>1, <1>2 DEF SavedInv, Reloading
<1>5. TakenInv'
  BY <1>1, <1>2 DEF TakenInv
<1>6. RunningInv'
  <2>1. \A n \in 1 .. Len(saved) : pc'[t] = "call" => Served(n)'
    BY <1>2, <1>3 DEF Served, Gone
  <2>2. (\A u \in Threads : pc'[u] \notin Reloading) => pc'[t] = "call"
    BY <1>2 DEF Reloading
  <2>3. \A u \in Threads : pc'[u] = "call" => Served(awaiting[u])'
    <3> TAKE u \in Threads
    <3>1. CASE u # t
      BY <1>1, <3>1
    <3>2. CASE u = t
      BY <1>1, <1>2, <2>1, <3>2 DEF Served, Gone
    <3> QED BY <3>1, <3>2
  <2> QED BY <1>1, <1>2, <2>1, <2>2, <2>3 DEF RunningInv
<1> QED BY <1>4, <1>5, <1>6

\* fopen: the text is the one of the latest version
LEMMA OpenKeeps ==
    ASSUME TypeOK, LockInv, VersionsInv, NEW t \in Threads, Open(t)
    PROVE  VersionsInv'
<1>1. /\ UNCHANGED <<file, lastchanged>>
      /\ awaiting[t] \in 1 .. Len(saved) /\ running \in 1 .. Len(saved)
      /\ pc \in [Threads -> Stages] /\ fd \in [Threads -> Stream] /\ Len(saved) \in Nat
      /\ saved[Len(saved)] = file.text /\ taken \in [Threads -> Nat]
  BY ReloadFrame DEF Open, VersionsInv, SavedInv
<1>2. /\ UNCHANGED <<saved, running, awaiting, context>>
      /\ taken' \in [Threads -> Nat] /\ taken'[t] = Len(saved)
  BY <1>1 DEF Open, OpenScript, Abort
<1>3. CASE pc'[t] = "read" /\ fd' = [fd EXCEPT ![t] = Opened]
  <2>1. TextRead(t)' = file.text
    <3>1. fd'[t].text = file.text /\ (fd'[t].full <=> file.text # Empty)
      BY <1>1, <1>3 DEF Opened
    <3> QED BY <3>1 DEF TextRead
  <2> QED BY <1>1, <1>2, <1>3, <2>1, ReloadKeeps DEF Open, Reloading
<1>4. CASE pc'[t] = "open"
  BY <1>1, <1>2, <1>4, ReloadKeeps DEF Open, Reloading
<1> QED BY <1>1, <1>3, <1>4 DEF Open, OpenScript, Goto, Abort

\* fread: the text in memory is the one the stream gave
LEMMA ReadKeeps ==
    ASSUME TypeOK, LockInv, VersionsInv, NEW t \in Threads,
           ReadScript(t) \/ ReadNothing(t) \/ ReadError(t), UNCHANGED history
    PROVE  VersionsInv'
<1>1. /\ pc \in [Threads -> Stages] /\ fd \in [Threads -> Stream]
      /\ UNCHANGED <<saved, running, awaiting, context, taken>>
      /\ pc[t] = "read" /\ taken \in [Threads -> Nat]
  BY DEF TypeOK, history, ReadScript, ReadNothing, ReadError, Goto, Abort, VersionsInv, SavedInv
<1>2. /\ taken[t] \in running .. Len(saved)
      /\ taken[t] >= awaiting[t]
      /\ \A n \in 1 .. Len(saved) : Known(n) => taken[t] >= n
      /\ saved[taken[t]] = TextRead(t)
  BY <1>1 DEF VersionsInv, TakenInv
<1>3. /\ TextRead(t)' = TextRead(t)
      /\ pc'[t] \in {"read", "execute"}
      /\ pc'[t] = "execute" => ~fd'[t].linked
  <2>1. CASE ReadScript(t)
    <3>1. /\ pc'[t] = "execute" /\ ~fd'[t].linked
          /\ fd'[t].text = IF fd[t].full THEN fd[t].text ELSE Empty
      BY <1>1, <2>1 DEF ReadScript, Goto, Closed
    <3> QED BY <1>1, <3>1 DEF TextRead
  <2>2. CASE ReadNothing(t)
    <3>1. /\ pc'[t] = "read"
          /\ fd'[t].text = fd[t].text /\ fd'[t].full = fd[t].full
      BY <1>1, <2>2 DEF ReadNothing, Stream
    <3> QED BY <1>1, <3>1 DEF TextRead
  <2>3. CASE ReadError(t)
    BY <1>1, <2>3 DEF ReadError, Abort, TextRead
  <2> QED BY <2>1, <2>2, <2>3
<1> QED BY <1>1, <1>2, <1>3, ReloadKeeps DEF Reloading

\* The script is run: its version is the one the event was waiting for, or later
LEMMA LoadKeeps ==
    ASSUME TypeOK, LockInv, VersionsInv, NEW t \in Threads, Load(t)
    PROVE  VersionsInv'
<1> USE DEF VersionsInv
<1>1. /\ UNCHANGED <<file, lastchanged>> /\ lastchanged # 0
      /\ awaiting[t] \in 1 .. Len(saved) /\ running \in 1 .. Len(saved)
      /\ \A u \in Threads \ {t} : pc'[u] = pc[u] /\ pc[u] \in {"idle", "lock"}
      /\ pc \in [Threads -> Stages] /\ Len(saved) \in Nat
      /\ taken \in [Threads -> Nat]
  BY ReloadFrame DEF Load, SavedInv
<1>2. /\ UNCHANGED <<saved, awaiting>>
      /\ pc[t] = "execute" /\ pc'[t] = "call"
      /\ running' = taken[t] /\ context' = fd[t].text
      /\ taken' \in [Threads -> Nat]
  BY <1>1 DEF Load, ExecuteScript, Goto
<1>3. /\ taken[t] \in running .. Len(saved)
      /\ taken[t] >= awaiting[t]
      /\ \A n \in 1 .. Len(saved) : Known(n) => taken[t] >= n
      /\ saved[taken[t]] = fd[t].text
  BY <1>2 DEF TakenInv, TextRead
<1>4. SavedInv'
  <2>1. running' \in 1 .. Len(saved') /\ saved'[running'] = context'
    BY <1>1, <1>2, <1>3
  <2> QED BY <1>1, <1>2, <2>1 DEF SavedInv
<1>5. TakenInv'
  BY <1>1, <1>2 DEF TakenInv
<1>6. RunningInv'
  <2>1. \A n \in 1 .. Len(saved') : Known(n)' => Served(n)'
    BY <1>1, <1>2, <1>3 DEF Known, Served
  <2>2. \A u \in Threads : pc'[u] = "call" => Served(awaiting[u])'
    <3> TAKE u \in Threads
    <3>1. CASE u # t
      BY <1>1, <3>1
    <3>2. CASE u = t
      BY <1>2, <1>3, <3>2 DEF Served
    <3> QED BY <3>1, <3>2
  <2> QED BY <1>1, <2>1, <2>2 DEF RunningInv
<1> QED BY <1>4, <1>5, <1>6

\* The steps of a handler before and after GetContext
LEMMA OutsideKeeps ==
    ASSUME TypeOK, LockInv, VersionsInv, NEW t \in Threads,
           Deliver(t) \/ (AcquireLocker(t) /\ UNCHANGED history) \/ Serve(t)
    PROVE  VersionsInv'
<1> USE DEF VersionsInv
<1>1. /\ UNCHANGED <<file, fd, lastchanged, context, saved, running, taken>>
      /\ \A u \in Threads \ {t} : pc'[u] = pc[u] /\ awaiting'[u] = awaiting[u]
      /\ pc[t] \notin Reloading /\ pc'[t] \in {"lock", "stat", "idle"}
      /\ awaiting'[t] = 0 <=> pc'[t] = "idle"
      /\ awaiting' \in [Threads -> Nat] /\ awaiting'[t] <= Len(saved)
      /\ Len(saved) \in Nat \ {0}
  BY DEF Deliver, Serve, DeliverEvent, AcquireLocker, CallListener, Goto, TypeOK, history,
     Reloading, SavedInv
<1>2. SavedInv'
  <2>1. \A u \in Threads : /\ awaiting'[u] <= Len(saved')
                           /\ awaiting'[u] = 0 <=> pc'[u] = "idle"
    BY <1>1 DEF SavedInv
  <2> QED BY <1>1, <2>1 DEF SavedInv
<1>3. TakenInv'
  <2> SUFFICES ASSUME NEW u \in Threads, pc'[u] \in {"read", "execute"}
               PROVE  /\ u # t /\ UNCHANGED <<pc[u], awaiting[u]>>
                      /\ pc[u] \in {"read", "execute"}
    BY <1>1 DEF TakenInv, TextRead, Known
  <2> QED BY <1>1
<1>4. \A n \in Nat : (Served(n)' <=> Served(n)) /\ (Known(n)' <=> Known(n))
  BY <1>1 DEF Served, Gone, Known
<1>5. (\A u \in Threads : pc'[u] \notin Reloading) <=> \A u \in Threads : pc[u] \notin Reloading
  BY <1>1 DEF Reloading
<1>6. RunningInv'
  <2>1. \A u \in Threads : pc'[u] = "call" => Served(awaiting[u])'
    <3> TAKE u \in Threads
    <3>1. CASE u # t
      BY <1>1, <3>1 DEF RunningInv, Served, Gone
    <3>2. CASE u = t
      BY <1>1, <3>2
    <3> QED BY <3>1, <3>2
  <2>2. lastchanged' = 0 => /\ running' = Len(saved') /\ Exists'
                            /\ \A u \in Threads : pc'[u] \notin Reloading
    BY <1>1, <1>5 DEF RunningInv, Exists
  <2>3. (\A u \in Threads : pc'[u] \notin Reloading) =>
            \A n \in 1 .. Len(saved') : Known(n)' => Served(n)'
    BY <1>1, <1>4, <1>5 DEF RunningInv
  <2> QED BY <2>1, <2>2, <2>3 DEF RunningInv
<1> QED BY <1>2, <1>3, <1>6

\* Every step keeps the invariant
LEMMA VersionsNextInv ==
    ASSUME DistinctTimes, TypeOK, TypeOK', LockInv, PastInv, VersionsInv,
           [VersionsNext]_<<vars, history>>
    PROVE  VersionsInv'
<1>1. CASE Save
  BY <1>1, SaveKeeps
<1>2. ASSUME NEW t \in Threads,
             \/ Deliver(t) \/ Open(t) \/ Load(t) \/ Serve(t)
             \/ Unrecorded(t) /\ UNCHANGED history
      PROVE  VersionsInv'
  BY <1>2, CheckKeeps, AccessKeeps, OpenKeeps, ReadKeeps, LoadKeeps, OutsideKeeps
     DEF Unrecorded
<1>3. CASE UNCHANGED <<vars, history>>
  BY <1>3 DEF vars, history, VersionsInv, SavedInv, TakenInv, RunningInv, Known, Served,
     Gone, TextRead, Exists
<1> QED BY <1>1, <1>2, <1>3 DEF VersionsNext

\* The version in context_, the one being loaded and the recorded one are in
\* order at every moment, whoever edits the file
THEOREM VersionsInOrder == ASSUME DistinctTimes PROVE VersionsSpec => []VersionsInv
<1>1. VersionsSpec => [](TypeOK /\ LockInv /\ PastInv)
  <2>1. TypeOK /\ LockInv /\ PastInv /\ FreshInv /\ [Next]_vars => PastInv' /\ FreshInv'
    BY FreshNext
  <2>2. Spec => [](PastInv /\ FreshInv)
    BY <2>1, FreshInit, TypeCorrect, LockerOwner, PTL DEF Spec
  <2> QED BY <2>2, VersionsSpecSpec, TypeCorrect, LockerOwner, PTL
<1>2. TypeOK /\ TypeOK' /\ LockInv /\ PastInv /\ VersionsInv /\ [VersionsNext]_<<vars, history>>
         => VersionsInv'
  BY VersionsNextInv
<1> QED BY <1>1, <1>2, VersionsInitInv, PTL DEF VersionsSpec

-----------------------------------------------------------------------------
(* The refinement                                                          *)

\* The first version is the first version
LEMMA ServiceInit == VersionsInit => Service!Init
BY DEF VersionsInit, Init, Service!Init

\* Every step is a step of the service, or none
LEMMA ServiceStep ==
    ASSUME TypeOK, TypeOK', VersionsInv, [VersionsNext]_<<vars, history>>
    PROVE  [Service!Next]_Service!vars
<1> USE DEF Service!Next, Service!vars
<1>1. CASE Save
  <2>1. UNCHANGED context /\ file'.text \in Scripts \cup {NoFile}
    BY <1>1, EnvironmentFrame DEF Save, TypeOK
  <2> QED BY <1>1, <2>1 DEF Save, Service!Save
<1>2. ASSUME NEW t \in Threads, Deliver(t) PROVE Service!Deliver(t)
  <2>1. awaiting[t] = 0 /\ UNCHANGED context
    BY <1>2 DEF Deliver, DeliverEvent, Goto, VersionsInv, SavedInv
  <2> QED BY <1>2, <2>1 DEF Deliver, Service!Deliver
<1>3. ASSUME NEW t \in Threads, Open(t) \/ (Unrecorded(t) /\ UNCHANGED history)
      PROVE  UNCHANGED Service!vars
  BY <1>3 DEF Open, OpenScript, Abort, Unrecorded, AcquireLocker, CheckFileChange,
     AccessScript, ReadScript, ReadNothing, ReadError, history
<1>4. ASSUME NEW t \in Threads, Load(t) PROVE Service!Load
  <2>1. /\ pc[t] = "execute" /\ context' = fd[t].text
        /\ running' = taken[t] /\ UNCHANGED <<saved, awaiting>>
    BY <1>4 DEF Load, ExecuteScript, Goto
  <2>2. taken[t] \in running .. Len(saved) /\ saved[taken[t]] = fd[t].text
    BY <2>1 DEF VersionsInv, TakenInv, TextRead
  <2>3. fd[t].text # NoFile
    BY StreamType, ScriptAssumption
  <2> QED BY <2>1, <2>2, <2>3 DEF Service!Load
<1>5. ASSUME NEW t \in Threads, Serve(t) PROVE Service!Serve(t)
  <2>1. /\ pc[t] = "call" /\ UNCHANGED <<saved, running, context>>
        /\ awaiting' = [awaiting EXCEPT ![t] = 0]
    BY <1>5 DEF Serve, CallListener, Goto
  <2>2. awaiting[t] # 0 /\ Served(awaiting[t])
    BY <2>1 DEF VersionsInv, SavedInv, RunningInv
  <2> QED BY <2>1, <2>2 DEF Service!Serve, Served, Gone, Service!Missing
<1>6. CASE UNCHANGED <<vars, history>>
  BY <1>6 DEF vars, history
<1> QED BY <1>1, <1>2, <1>3, <1>4, <1>5, <1>6 DEF VersionsNext

\* GetContext implements the service: an event runs a version of the script no
\* older than the one it found in the file and than the event before it ran,
\* unless the file was gone, if changes of the file have distinct times
THEOREM ServiceImplemented == ASSUME DistinctTimes PROVE VersionsSpec => ImplementsService
<1>1. VersionsSpec => []TypeOK
  BY VersionsSpecSpec, TypeCorrect, PTL
<1>2. TypeOK /\ TypeOK' /\ VersionsInv /\ [VersionsNext]_<<vars, history>>
         => [Service!Next]_Service!vars
  BY ServiceStep
<1> QED
  BY <1>1, <1>2, ServiceInit, VersionsInOrder, PTL DEF VersionsSpec, ImplementsService, Service!Spec

-----------------------------------------------------------------------------
(* What holds whatever the times of the changes are                        *)

\* The text in context_ and each text that is being loaded belong to versions
\* the file has had, and no text that is being loaded is older than the one in
\* context_
OrderInv ==
    /\ saved \in Seq(Scripts \cup {NoFile})
    /\ Len(saved) >= 1
    /\ saved[Len(saved)] = file.text
    /\ running \in 1 .. Len(saved)
    /\ saved[running] = context
    /\ taken \in [Threads -> Nat]
    /\ \A t \in Threads : pc[t] \in {"read", "execute"} =>
        /\ taken[t] \in running .. Len(saved)
        /\ saved[taken[t]] = TextRead(t)
        /\ pc[t] = "execute" => ~fd[t].linked

\* At first the only version is running
LEMMA OrderInit == VersionsInit => OrderInv
<1> SUFFICES ASSUME VersionsInit PROVE OrderInv
  OBVIOUS
<1>1. FirstScript \in Scripts
  BY ScriptAssumption
<1>2. saved \in Seq(Scripts \cup {NoFile}) /\ Len(saved) = 1 /\ saved[1] = FirstScript
  BY <1>1 DEF VersionsInit
<1> QED BY <1>2 DEF VersionsInit, Init, OrderInv

\* A new version is newer than all
LEMMA OrderSave ==
    ASSUME TypeOK, TypeOK', OrderInv, Save
    PROVE  OrderInv'
<1>1. UNCHANGED <<pc, context, running>>
  BY EnvironmentFrame DEF Save
<1>2. /\ saved' \in Seq(Scripts \cup {NoFile})
      /\ Len(saved') = Len(saved) + 1
      /\ \A n \in 1 .. Len(saved) : saved'[n] = saved[n]
      /\ saved'[Len(saved')] = file'.text
  BY SavedAppend DEF OrderInv
<1>3. Len(saved) \in Nat /\ running \in 1 .. Len(saved) /\ saved[running] = context
  BY DEF OrderInv
<1>4. taken' \in [Threads -> Nat]
  BY <1>3 DEF Save, OrderInv
<1>5. ASSUME NEW t \in Threads, pc'[t] \in {"read", "execute"}
      PROVE  /\ taken'[t] \in running' .. Len(saved')
             /\ saved'[taken'[t]] = TextRead(t)'
             /\ pc'[t] = "execute" => ~fd'[t].linked
  <2>1. /\ taken[t] \in running .. Len(saved)
        /\ saved[taken[t]] = TextRead(t)
        /\ pc[t] = "execute" => ~fd[t].linked
    BY <1>1, <1>5 DEF OrderInv
  <2>2. /\ \/ taken'[t] = taken[t] /\ TextRead(t)' = TextRead(t)
           \/ taken'[t] = Len(saved) + 1 /\ TextRead(t)' = file'.text
        /\ pc[t] = "execute" => ~fd'[t].linked
    BY <1>1, <1>5, <2>1, StreamsSaved
  <2> QED BY <1>1, <1>2, <1>3, <2>1, <2>2
<1> QED BY <1>1, <1>2, <1>3, <1>4, <1>5 DEF OrderInv

\* One thread at a time reads a script, from the version that is in the file
LEMMA OrderThread ==
    ASSUME TypeOK, LockInv, OrderInv, NEW t \in Threads,
           \/ Deliver(t) \/ Open(t) \/ Load(t) \/ Serve(t)
           \/ Unrecorded(t) /\ UNCHANGED history
    PROVE  OrderInv'
<1>1. /\ UNCHANGED <<file, saved>>
      /\ \A u \in Threads \ {t} : pc'[u] = pc[u] /\ fd'[u] = fd[u] /\ taken'[u] = taken[u]
      /\ pc \in [Threads -> Stages] /\ fd \in [Threads -> Stream]
      /\ taken \in [Threads -> Nat] /\ Len(saved) \in Nat \ {0}
      /\ saved[Len(saved)] = file.text /\ running \in 1 .. Len(saved)
  BY DEF Deliver, Open, Load, Serve, Unrecorded, DeliverEvent, AcquireLocker, CheckFileChange,
     AccessScript, OpenScript, ReadScript, ReadNothing, ReadError, Abort, ExecuteScript,
     CallListener, Goto, history, TypeOK, OrderInv
<1>2. CASE Load(t)
  <2>1. /\ pc[t] = "execute" /\ pc'[t] = "call"
        /\ running' = taken[t] /\ context' = fd[t].text
        /\ taken' \in [Threads -> Nat]
    BY <1>1, <1>2 DEF Load, ExecuteScript, Goto
  <2>2. taken[t] \in running .. Len(saved) /\ saved[taken[t]] = fd[t].text
    BY <2>1 DEF OrderInv, TextRead
  <2>3. \A u \in Threads : pc'[u] \notin {"read", "execute"}
    BY <1>1, <2>1 DEF LockInv, Inside, Stages
  <2>4. running' \in 1 .. Len(saved') /\ saved'[running'] = context'
    BY <1>1, <2>1, <2>2
  <2> QED BY <1>1, <2>1, <2>3, <2>4 DEF OrderInv
<1>3. CASE ~Load(t)
  <2>1. UNCHANGED <<running, context>>
    BY <1>3 DEF Deliver, Open, Serve, Unrecorded, DeliverEvent, AcquireLocker, CheckFileChange,
       AccessScript, OpenScript, ReadScript, ReadNothing, ReadError, Abort, CallListener, history
  <2>2. /\ taken' \in [Threads -> Nat]
        /\ pc'[t] \in {"read", "execute"} =>
               /\ taken'[t] \in running .. Len(saved)
               /\ saved[taken'[t]] = TextRead(t)'
               /\ pc'[t] = "execute" => ~fd'[t].linked
    <3>1. CASE Open(t)
      <4>1. taken' \in [Threads -> Nat] /\ taken'[t] = Len(saved)
        BY <1>1, <3>1 DEF Open
      <4>2. CASE pc'[t] = "read" /\ fd' = [fd EXCEPT ![t] = Opened]
        <5>1. fd'[t].text = file.text /\ (fd'[t].full <=> file.text # Empty)
          BY <1>1, <4>2 DEF Opened
        <5> QED BY <1>1, <4>1, <4>2, <5>1 DEF TextRead
      <4>3. CASE pc'[t] = "open"
        BY <4>1, <4>3
      <4> QED BY <1>1, <3>1, <4>2, <4>3 DEF Open, OpenScript, Goto, Abort
    <3>2. CASE ReadScript(t) /\ UNCHANGED history
      <4>1. /\ pc[t] = "read" /\ pc'[t] = "execute" /\ ~fd'[t].linked
            /\ fd'[t].text = IF fd[t].full THEN fd[t].text ELSE Empty
        BY <1>1, <3>2 DEF ReadScript, Goto, Closed
      <4> QED BY <1>1, <3>2, <4>1 DEF history, TextRead, OrderInv
    <3>3. CASE ReadNothing(t) /\ UNCHANGED history
      <4>1. /\ pc[t] = "read" /\ pc'[t] = "read"
            /\ fd'[t].text = fd[t].text /\ fd'[t].full = fd[t].full
        BY <1>1, <3>3 DEF ReadNothing, Stream
      <4> QED BY <1>1, <3>3, <4>1 DEF history, TextRead, OrderInv
    <3>4. CASE ReadError(t) /\ UNCHANGED history
      BY <3>4 DEF ReadError, Abort, history, OrderInv, TextRead
    <3>5. CASE \/ Deliver(t) \/ Serve(t)
               \/ AcquireLocker(t) /\ UNCHANGED history
               \/ CheckFileChange(t) /\ UNCHANGED history
               \/ AccessScript(t) /\ UNCHANGED history
      BY <1>1, <3>5 DEF Deliver, Serve, DeliverEvent, AcquireLocker, CheckFileChange, AccessScript,
         CallListener, Goto, history
    <3> QED BY <1>3, <3>1, <3>2, <3>3, <3>4, <3>5 DEF Unrecorded
  <2>3. \A u \in Threads \ {t} : TextRead(u)' = TextRead(u)
    BY <1>1 DEF TextRead
  <2>4. \A u \in Threads : pc'[u] \in {"read", "execute"} =>
            /\ taken'[u] \in running' .. Len(saved')
            /\ saved'[taken'[u]] = TextRead(u)'
            /\ pc'[u] = "execute" => ~fd'[u].linked
    <3> TAKE u \in Threads
    <3>1. CASE u = t
      BY <1>1, <2>1, <2>2, <3>1
    <3>2. CASE u # t
      BY <1>1, <2>1, <2>3, <3>2 DEF OrderInv
    <3> QED BY <3>1, <3>2
  <2> QED BY <1>1, <2>1, <2>2, <2>4 DEF OrderInv
<1> QED BY <1>2, <1>3

\* The versions are in order after every step
LEMMA OrderNext ==
    ASSUME TypeOK, TypeOK', LockInv, OrderInv, [VersionsNext]_<<vars, history>>
    PROVE  OrderInv'
<1>1. CASE UNCHANGED <<vars, history>>
  BY <1>1 DEF vars, history, OrderInv, TextRead
<1> QED BY <1>1, OrderSave, OrderThread DEF VersionsNext

\* Only ExecuteScript changes what is loaded, to a version as new or newer
LEMMA LoaderStep ==
    ASSUME TypeOK, TypeOK', OrderInv, [VersionsNext]_<<vars, history>>
    PROVE  [Loader!Next]_Loader!vars
<1> USE DEF Loader!Next, Loader!vars
<1>1. CASE Save
  <2>1. UNCHANGED context /\ file'.text \in Scripts \cup {NoFile}
    BY <1>1, EnvironmentFrame DEF Save, TypeOK
  <2> QED BY <1>1, <2>1 DEF Save, Loader!Save
<1>2. ASSUME NEW t \in Threads, Load(t) PROVE Loader!Load
  <2>1. /\ pc[t] = "execute" /\ context' = fd[t].text
        /\ running' = taken[t] /\ UNCHANGED saved
    BY <1>2 DEF Load, ExecuteScript, Goto
  <2>2. taken[t] \in running .. Len(saved) /\ saved[taken[t]] = fd[t].text
    BY <2>1 DEF OrderInv, TextRead
  <2>3. fd[t].text # NoFile
    BY StreamType, ScriptAssumption
  <2> QED BY <2>1, <2>2, <2>3 DEF Loader!Load
<1>3. ASSUME NEW t \in Threads,
             \/ Deliver(t) \/ Open(t) \/ Serve(t)
             \/ Unrecorded(t) /\ UNCHANGED history
      PROVE  UNCHANGED Loader!vars
  BY <1>3 DEF Deliver, Open, Serve, Unrecorded, DeliverEvent, AcquireLocker, CheckFileChange,
     AccessScript, OpenScript, ReadScript, ReadNothing, ReadError, Abort, CallListener, history
<1>4. CASE UNCHANGED <<vars, history>>
  BY <1>4 DEF vars, history
<1> QED BY <1>1, <1>2, <1>3, <1>4 DEF VersionsNext

\* No load goes back to an older version of the script, and no text but that of
\* a version gets into context_, also when changes share a time, come before the
\* first event or carry times beyond INT_MAX, and so go unnoticed
THEOREM LoaderImplemented == VersionsSpec => ImplementsLoader
<1>1. VersionsSpec => [](TypeOK /\ LockInv)
  BY VersionsSpecSpec, TypeCorrect, LockerOwner, PTL
<1>2. TypeOK /\ TypeOK' /\ LockInv /\ OrderInv /\ [VersionsNext]_<<vars, history>> => OrderInv'
  BY OrderNext
<1>3. VersionsSpec => []OrderInv
  BY <1>1, <1>2, OrderInit, PTL DEF VersionsSpec
<1>4. TypeOK /\ TypeOK' /\ OrderInv /\ [VersionsNext]_<<vars, history>>
         => [Loader!Next]_Loader!vars
  BY LoaderStep
<1>5. VersionsInit => Loader!Init
  BY DEF VersionsInit, Init, Loader!Init
<1> QED BY <1>1, <1>3, <1>4, <1>5, PTL DEF VersionsSpec, ImplementsLoader, Loader!Spec
=============================================================================
