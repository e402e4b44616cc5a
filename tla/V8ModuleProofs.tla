---------------------------- MODULE V8ModuleProofs ----------------------------
(***************************************************************************)
(* Proofs about V8Module for any instances, threads, requests and scripts:  *)
(* one user at a time is in an isolate, an event finds its listener, and    *)
(* what holds as long as there is a single instance.                       *)
(***************************************************************************)
EXTENDS V8Module, TLAPS

\* The owner of a Locker is the actor inside that isolate; whoever is inside, or
\* waits to get in, works for a published processor; and a published processor
\* has run a script to its end
EntryInv ==
    /\ \A m \in Modules :
        /\ ctx[m] <=> stage[m] \in {"published", "loaded"}
        /\ handlers[m] => ctx[m]
        /\ stage[m] \in {"script", "ran", "published", "loaded"} => templates \in Modules
        /\ stage[m] \in {"ran", "published", "loaded"} => listener[m] # NoScript
        /\ \A a \in Actors : lock[m] = a <=> pc[a] \in Inside /\ target[a] = m
    /\ \A a \in Actors : pc[a] \in Inside \cup {"lock"} => ctx[target[a]]

\* At first nothing is loaded and nothing has been sent
LEMMA InitHolds == Init => TypeOK /\ EntryInv
<1> SUFFICES ASSUME Init
             PROVE  TypeOK /\ EntryInv
  OBVIOUS
<1>1. TypeOK
  BY DEF Init, TypeOK, Actors, Inside
<1>2. \A a \in Actors : pc[a] \notin Inside \cup {"lock"}
  <2>1. \A a \in Actors : pc[a] \in {"idle", "unsent"}
    BY DEF Init
  <2> QED BY <2>1 DEF Inside
<1>3. \A m \in Modules : ~ctx[m] /\ ~handlers[m] /\ stage[m] = "unloaded"
  BY DEF Init
<1>4. \A m \in Modules : \A a \in Actors : lock[m] # a
  BY V8ModuleAssumption DEF Init, Actors
<1>5. EntryInv
  BY <1>2, <1>3, <1>4 DEF EntryInv
<1> QED BY <1>1, <1>5

\* The handle a script leaves is a handle, and not an empty one if it replaces
\* another or comes from a script that has run to its end
LEMMA InstalledType ==
    ASSUME TypeOK, NEW m \in Modules, NEW s \in Scripts \cup {NoScript}
    PROVE  /\ Installed(m, s) \in Scripts \cup {NoScript, NoFunction}
           /\ listener[m] # NoScript \/ s \in Completing => Installed(m, s) # NoScript
BY V8ModuleAssumption DEF Installed, TypeOK

\* An actor that works for an instance works for one of them
LEMMA TargetType ==
    ASSUME TypeOK, NEW a \in Actors, pc[a] \notin {"idle", "unsent"}
    PROVE  target[a] \in Modules
BY DEF TypeOK

-----------------------------------------------------------------------------
(* Loading an instance                                                     *)

\* A step of a load keeps the type invariant and lets nobody into the isolate
LEMMA LoadStep ==
    ASSUME TypeOK, EntryInv, NEW m \in Modules, Load(m)
    PROVE  TypeOK' /\ EntryInv'
<1>1. CASE RejectConfiguration(m)
  BY <1>1 DEF RejectConfiguration, MayLoad, TypeOK, EntryInv
<1>2. CASE RejectScript(m)
  BY <1>2 DEF RejectScript, MayLoad, PrepareIsolate, TypeOK, EntryInv
<1>3. CASE StartScript(m)
  BY <1>3 DEF StartScript, MayLoad, PrepareIsolate, TypeOK, EntryInv
<1>4. CASE FinishScript(m)
  <2>1. context[m] \in Scripts \cup {NoScript}
    BY DEF TypeOK
  <2>2. TypeOK'
    BY <1>4, <2>1, InstalledType DEF FinishScript, TypeOK
  <2>3. EntryInv'
    BY <1>4, <2>1, InstalledType DEF FinishScript, TypeOK, EntryInv
  <2> QED BY <2>2, <2>3
<1>5. CASE Publish(m)
  <2>1. TypeOK'
    BY <1>5 DEF Publish, TypeOK
  <2>2. EntryInv'
    BY <1>5 DEF Publish, TypeOK, EntryInv
  <2> QED BY <2>1, <2>2
<1>6. CASE SetHandlers(m)
  <2>1. TypeOK'
    BY <1>6 DEF SetHandlers, TypeOK
  <2>2. EntryInv'
    BY <1>6 DEF SetHandlers, TypeOK, EntryInv
  <2> QED BY <2>1, <2>2
<1> QED BY <1>1, <1>2, <1>3, <1>4, <1>5, <1>6 DEF Load

-----------------------------------------------------------------------------
(* Events and answers                                                      *)

\* An event is delivered to an instance whose processor is published
LEMMA DeliverStep ==
    ASSUME TypeOK, EntryInv, NEW t \in Threads, NEW m \in Modules, DeliverEvent(t, m)
    PROVE  TypeOK' /\ EntryInv'
<1>1. t \in Actors
  BY DEF Actors
<1>2. TypeOK'
  BY <1>1 DEF DeliverEvent, Goto, loading, TypeOK
<1>3. EntryInv'
  BY <1>1 DEF DeliverEvent, Goto, loading, TypeOK, EntryInv, Inside
<1> QED BY <1>2, <1>3

\* The end of the process changes nothing else
LEMMA CrashStep ==
    ASSUME TypeOK, EntryInv, NEW why \in {"config", "read", "answer", "template"}, Crash(why)
    PROVE  TypeOK' /\ EntryInv'
BY DEF Crash, loading, TypeOK, EntryInv

\* JavaScript runs in instances that have their templates
LEMMA RunningPrepared ==
    ASSUME TypeOK, EntryInv, NEW m \in Modules, Running(m) # {}
    PROVE  templates \in Modules
<1>1. CASE stage[m] = "script"
  BY <1>1 DEF EntryInv
<1>2. ASSUME NEW a \in Actors, pc[a] \in Inside, target[a] = m
      PROVE  templates \in Modules
  BY <1>2 DEF EntryInv
<1>3. stage[m] = "script" \/ \E a \in Actors : pc[a] \in Inside /\ target[a] = m
  BY DEF Running, Inside
<1> QED BY <1>1, <1>2, <1>3

\* A request is sent to an instance, and its answer waits for the processor
LEMMA RequestStep ==
    ASSUME TypeOK, EntryInv, NEW r \in Requests, Send(r) \/ OnCloseFailed(r) \/ OnClose(r)
    PROVE  TypeOK' /\ EntryInv'
<1>1. r \in Actors
  BY DEF Actors
<1>2. CASE Crash("answer") \/ Crash("template")
  BY <1>2, CrashStep
<1>3. CASE Send(r) /\ ~Crash("template")
  <2>1. PICK m \in Modules : Running(m) # {}
    BY <1>3 DEF Send
  <2>2. templates \in Modules
    BY <2>1, RunningPrepared
  <2>3. PICK s \in Scripts :
            /\ Goto(r, "unsent", "open")
            /\ target' = [target EXCEPT ![r] = templates]
            /\ sender' = [sender EXCEPT ![r] = s]
            /\ UNCHANGED <<loading, context, listener, lock, crash>>
    BY <1>3 DEF Send
  <2>4. TypeOK'
    BY <1>1, <2>2, <2>3 DEF Goto, loading, TypeOK
  <2>5. EntryInv'
    BY <1>1, <2>3 DEF Goto, loading, TypeOK, EntryInv, Inside
  <2> QED BY <2>4, <2>5
<1>4. CASE OnCloseFailed(r)
  <2>1. TypeOK'
    BY <1>1, <1>4 DEF OnCloseFailed, Goto, loading, TypeOK
  <2>2. EntryInv'
    BY <1>1, <1>4 DEF OnCloseFailed, Goto, loading, TypeOK, EntryInv, Inside
  <2> QED BY <2>1, <2>2
<1>5. CASE OnClose(r) /\ ~Crash("answer")
  <2>1. TypeOK'
    BY <1>1, <1>5 DEF OnClose, Goto, loading, TypeOK
  <2>2. EntryInv'
    BY <1>1, <1>5 DEF OnClose, Goto, loading, TypeOK, EntryInv, Inside
  <2> QED BY <2>1, <2>2
<1> QED BY <1>2, <1>3, <1>4, <1>5

-----------------------------------------------------------------------------
(* Inside an isolate                                                       *)

\* An actor enters a free isolate, and works there alone until it leaves
LEMMA RunStep ==
    ASSUME TypeOK, EntryInv, NEW a \in Actors, Run(a)
    PROVE  TypeOK' /\ EntryInv'
<1>0. a # NoOne /\ (pc[a] \in {"lock"} \cup Inside => target[a] \in Modules)
  BY V8ModuleAssumption DEF TypeOK, Actors, Inside
<1>1. CASE AcquireLocker(a)
  <2>1. TypeOK'
    BY <1>0, <1>1 DEF AcquireLocker, Goto, loading, TypeOK, Inside
  <2>2. EntryInv'
    BY <1>0, <1>1, V8ModuleAssumption
       DEF AcquireLocker, Goto, loading, TypeOK, EntryInv, Inside, Actors
  <2> QED BY <2>1, <2>2
<1>2. CASE KeepContext(a)
  BY <1>0, <1>2 DEF KeepContext, Goto, loading, TypeOK, EntryInv, Inside
<1>3. CASE ReloadScript(a)
  BY <1>0, <1>3 DEF ReloadScript, Goto, loading, TypeOK, EntryInv, Inside
<1>4. CASE FinishReload(a)
  <2>1. target[a] \in Modules /\ context[target[a]] \in Scripts \cup {NoScript}
    BY <1>0, <1>4 DEF FinishReload, Goto, Inside, TypeOK
  <2>2. TypeOK'
    BY <1>4, <2>1, InstalledType DEF FinishReload, Goto, loading, TypeOK, Inside
  <2>3. EntryInv'
    BY <1>4, <2>1, InstalledType DEF FinishReload, Goto, loading, TypeOK, EntryInv, Inside
  <2> QED BY <2>2, <2>3
<1>5. CASE Return(a)
  <2>1. TypeOK'
    BY <1>0, <1>5 DEF Return, Goto, loading, TypeOK, Inside
  <2>2. EntryInv'
    BY <1>0, <1>5, V8ModuleAssumption
       DEF Return, Goto, loading, TypeOK, EntryInv, Inside, Actors
  <2> QED BY <2>1, <2>2
<1> QED BY <1>1, <1>2, <1>3, <1>4, <1>5 DEF Run

-----------------------------------------------------------------------------

\* Every step keeps both invariants
LEMMA NextHolds == TypeOK /\ EntryInv /\ [Next]_vars => TypeOK' /\ EntryInv'
<1> SUFFICES ASSUME TypeOK, EntryInv, [Next]_vars
             PROVE  TypeOK' /\ EntryInv'
  OBVIOUS
<1>1. CASE UNCHANGED vars
  BY <1>1 DEF vars, TypeOK, EntryInv
<1>2. CASE MissingKey \/ FailToRead
  BY <1>2, CrashStep DEF MissingKey, FailToRead
<1> QED BY <1>1, <1>2, LoadStep, DeliverStep, RequestStep, RunStep DEF Next

\* Both invariants hold in every state
LEMMA AlwaysHolds == Spec => [](TypeOK /\ EntryInv)
BY InitHolds, NextHolds, PTL DEF Spec

\* Every variable keeps to its set, and every request is answered to an instance
THEOREM TypeCorrect == Spec => []TypeOK
BY AlwaysHolds, PTL

\* No two threads meet in an isolate, and none meets the load of its instance,
\* which takes no Locker: the processor is published only after its script ran
THEOREM OneThreadPerIsolate == Spec => []IsolateOneThread
<1>1. TypeOK /\ EntryInv => IsolateOneThread
  BY DEF TypeOK, EntryInv, IsolateOneThread
<1> QED BY <1>1, AlwaysHolds, PTL

\* An event never reaches a processor without a handle of on_message
THEOREM ListenerFound == Spec => []EventFindsListener
<1>1. TypeOK /\ EntryInv => EventFindsListener
  BY DEF TypeOK, EntryInv, EventFindsListener, Actors, Inside
<1> QED BY <1>1, AlwaysHolds, PTL

-----------------------------------------------------------------------------
(* One user in each isolate                                                *)

\* Who is in an isolate: nobody but the load while its script runs for the first
\* time, nobody before that, and afterwards the owner of its Locker
LEMMA UsersSeen ==
    ASSUME TypeOK, EntryInv, NEW m \in Modules
    PROVE  /\ ~ctx[m] => UsersOf(m) = IF stage[m] = "script" THEN {NoOne} ELSE {}
           /\ ctx[m] => UsersOf(m) = {a \in Actors : lock[m] = a}
BY V8ModuleAssumption DEF UsersOf, EntryInv, TypeOK, Inside, Actors

\* Work of one user in one isolate is a step of the isolates
LEMMA UseStep ==
    ASSUME NEW m \in Modules, NEW u \in Actors \cup {NoOne},
           UsersOf(m) \subseteq {u}, UsersOf(m)' \subseteq {u},
           UsersOf(m) \cup UsersOf(m)' # {},
           \A n \in Modules \ {m} : UNCHANGED <<UsersOf(n), context[n], listener[n]>>
    PROVE  Isolation!Next
BY DEF Isolation!Next, Isolation!Use

\* A step that moves nobody and leaves both variables alone
LEMMA NoUse ==
    ASSUME \A m \in Modules : UsersOf(m)' = UsersOf(m), UNCHANGED <<context, listener>>
    PROVE  UNCHANGED Isolation!vars
BY DEF Isolation!vars

\* What a step of one actor does to the users of its target, and of the others
LEMMA UsersUpdate ==
    ASSUME NEW a \in Actors, UNCHANGED <<stage, target>>,
           \A b \in Actors \ {a} : pc'[b] = pc[b]
    PROVE  \A m \in Modules :
               /\ UsersOf(m)' \subseteq UsersOf(m) \cup {a}
               /\ UsersOf(m) \subseteq UsersOf(m)' \cup {a}
               /\ m # target[a] => UsersOf(m)' = UsersOf(m)
               /\ m = target[a] /\ pc'[a] \in Inside => a \in UsersOf(m)'
               /\ m = target[a] /\ pc[a] \in Inside => a \in UsersOf(m)
               /\ pc[a] \notin Inside /\ pc'[a] \notin Inside => UsersOf(m)' = UsersOf(m)
<1> SUFFICES ASSUME NEW m \in Modules
             PROVE  /\ UsersOf(m)' \subseteq UsersOf(m) \cup {a}
                    /\ UsersOf(m) \subseteq UsersOf(m)' \cup {a}
                    /\ m # target[a] => UsersOf(m)' = UsersOf(m)
                    /\ m = target[a] /\ pc'[a] \in Inside => a \in UsersOf(m)'
                    /\ m = target[a] /\ pc[a] \in Inside => a \in UsersOf(m)
                    /\ pc[a] \notin Inside /\ pc'[a] \notin Inside => UsersOf(m)' = UsersOf(m)
  OBVIOUS
<1> QED BY DEF UsersOf

\* The load enters its isolate with the first line of the script, and leaves it
\* when the script has stopped
LEMMA IsolationLoad ==
    ASSUME TypeOK, EntryInv, NEW m \in Modules, Load(m)
    PROVE  [Isolation!Next]_(Isolation!vars)
<1>1. CASE RejectConfiguration(m) \/ RejectScript(m) \/ Publish(m) \/ SetHandlers(m)
  <2>1. /\ UNCHANGED <<context, listener, pc, target>>
        /\ \A n \in Modules : stage'[n] = "script" <=> stage[n] = "script"
    BY <1>1 DEF RejectConfiguration, RejectScript, Publish, SetHandlers, MayLoad, TypeOK
  <2>2. \A n \in Modules : UsersOf(n)' = UsersOf(n)
    BY <2>1 DEF UsersOf
  <2> QED BY <2>1, <2>2, NoUse
<1>2. CASE StartScript(m) \/ FinishScript(m)
  <2>1. /\ UNCHANGED <<pc, target, ctx>> /\ ~ctx[m]
        /\ \A n \in Modules \ {m} : UNCHANGED <<stage[n], context[n], listener[n]>>
        /\ (stage[m] = "script") # (stage'[m] = "script")
    BY <1>2 DEF StartScript, FinishScript, MayLoad, TypeOK, EntryInv
  <2>2. UsersOf(m) = IF stage[m] = "script" THEN {NoOne} ELSE {}
    BY <2>1, UsersSeen
  <2>3. UsersOf(m)' = IF stage'[m] = "script" THEN {NoOne} ELSE {}
    BY <2>1, <2>2, V8ModuleAssumption DEF UsersOf, Actors
  <2>4. \A n \in Modules \ {m} : UNCHANGED <<UsersOf(n), context[n], listener[n]>>
    BY <2>1 DEF UsersOf
  <2> QED BY <2>1, <2>2, <2>3, <2>4, UseStep
<1> QED BY <1>1, <1>2 DEF Load

\* An event or an answer that is on its way is in no isolate
LEMMA IsolationOutside ==
    ASSUME TypeOK, EntryInv, NEW a \in Actors, pc[a] \notin Inside, pc'[a] \notin Inside,
           \A b \in Actors \ {a} : pc'[b] = pc[b] /\ target'[b] = target[b],
           UNCHANGED <<stage, context, listener>>
    PROVE  UNCHANGED Isolation!vars
<1>1. \A m \in Modules : UsersOf(m)' = UsersOf(m)
  BY DEF UsersOf
<1> QED BY <1>1, NoUse

\* What an actor does in an isolate it does alone
LEMMA IsolationRun ==
    ASSUME TypeOK, EntryInv, NEW a \in Actors, Run(a)
    PROVE  Isolation!Next
<1>1. /\ UNCHANGED <<stage, target>>
      /\ \A b \in Actors \ {a} : pc'[b] = pc[b]
      /\ pc[a] \in Inside \cup {"lock"}
      /\ AcquireLocker(a) => lock[target[a]] = NoOne /\ pc'[a] \in Inside
      /\ ~AcquireLocker(a) => pc[a] \in Inside
  BY DEF Run, AcquireLocker, KeepContext, ReloadScript, FinishReload, Return, Goto,
     loading, TypeOK, Inside
<1>2. PICK m \in Modules : m = target[a]
  BY <1>1, TargetType DEF Inside
<1>3. \A n \in Modules \ {m} : UNCHANGED <<context[n], listener[n]>>
  BY <1>2 DEF Run, AcquireLocker, KeepContext, ReloadScript, FinishReload, Return, TypeOK
<1>4. UsersOf(m) = {b \in Actors : lock[m] = b}
  BY <1>1, <1>2, UsersSeen DEF EntryInv
<1>5. AcquireLocker(a) => UsersOf(m) = {}
  BY <1>1, <1>2, <1>4, V8ModuleAssumption DEF Actors
<1>6. ~AcquireLocker(a) => UsersOf(m) = {a}
  BY <1>1, <1>2, <1>4 DEF EntryInv
<1>7. UsersOf(m)' \subseteq {a} /\ (AcquireLocker(a) => a \in UsersOf(m)')
  BY <1>1, <1>2, <1>5, <1>6, UsersUpdate
<1>8. \A n \in Modules \ {m} : UsersOf(n)' = UsersOf(n)
  BY <1>1, <1>2, UsersUpdate
<1>9. UsersOf(m) \subseteq {a} /\ UsersOf(m) \cup UsersOf(m)' # {}
  BY <1>5, <1>6, <1>7
<1> QED BY <1>3, <1>7, <1>8, <1>9, UseStep

\* V8 gets what it asks for: in each isolate one user at a time does all the work,
\* the load of the instance, which takes no Locker, among them
THEOREM IsolatesImplemented == Spec => ImplementsIsolates
<1>1. Init => Isolation!Init
  BY V8ModuleAssumption DEF Init, Isolation!Init, UsersOf, Inside, Actors
<1>2. TypeOK /\ EntryInv /\ [Next]_vars => [Isolation!Next]_(Isolation!vars)
  <2> SUFFICES ASSUME TypeOK, EntryInv, [Next]_vars
               PROVE  [Isolation!Next]_(Isolation!vars)
    OBVIOUS
  <2>1. CASE UNCHANGED vars
    BY <2>1, NoUse DEF vars, UsersOf
  <2>2. ASSUME NEW why, Crash(why) PROVE UNCHANGED Isolation!vars
    BY <2>2, NoUse DEF Crash, loading, UsersOf
  <2>3. ASSUME NEW t \in Threads, NEW m \in Modules, DeliverEvent(t, m)
        PROVE  UNCHANGED Isolation!vars
    BY <2>3, IsolationOutside DEF DeliverEvent, Goto, loading, TypeOK, Actors, Inside
  <2>4. ASSUME NEW r \in Requests, Send(r) \/ OnCloseFailed(r) \/ OnClose(r)
        PROVE  UNCHANGED Isolation!vars
    <3>1. CASE Crash("answer") \/ Crash("template")
      BY <2>2, <3>1
    <3>2. CASE ~(Crash("answer") \/ Crash("template"))
      <4>1. /\ pc[r] \in {"unsent", "open"} /\ pc'[r] \in {"open", "lock", "closed"}
            /\ \A b \in Actors \ {r} : pc'[b] = pc[b] /\ target'[b] = target[b]
            /\ UNCHANGED <<stage, context, listener>>
        <5>1. r \in Actors
          BY DEF Actors
        <5>2. CASE Send(r)
          BY <3>2, <5>1, <5>2 DEF Send, Goto, loading, TypeOK
        <5>3. CASE OnCloseFailed(r) \/ OnClose(r)
          BY <3>2, <5>1, <5>3 DEF OnCloseFailed, OnClose, Goto, loading, TypeOK
        <5> QED BY <2>4, <5>2, <5>3
      <4> QED BY <4>1, IsolationOutside DEF Inside, Actors
    <3> QED BY <3>1, <3>2
  <2> QED
    BY <2>1, <2>2, <2>3, <2>4, IsolationLoad, IsolationRun DEF Next, MissingKey, FailToRead
<1> QED BY <1>1, <1>2, AlwaysHolds, PTL DEF Spec, ImplementsIsolates, Isolation!Spec

-----------------------------------------------------------------------------
(* A single instance                                                       *)

SingleInstance == \A m, n \in Modules : m = n

\* With one instance all objects are made from templates of their own isolate:
\* it takes a second one to mix them
THEOREM OwnTemplates == ASSUME SingleInstance PROVE Spec => []ObjectsOfOwnIsolate
<1>1. TypeOK /\ EntryInv => ObjectsOfOwnIsolate
  BY RunningPrepared, SingleInstance DEF SingleInstance, ObjectsOfOwnIsolate
<1> QED BY <1>1, AlwaysHolds, PTL

\* A request that waits for its answer has been sent to a published processor
AnswerInv ==
    /\ crash # "answer"
    /\ \A r \in Requests : pc[r] = "open" => ctx[target[r]]

\* The one instance that runs JavaScript outside its load has been published
LEMMA SendPublished ==
    ASSUME SingleInstance, TypeOK, EntryInv, QuietLoad,
           NEW r \in Requests, Send(r), pc'[r] = "open"
    PROVE  templates \in Modules /\ ctx[templates]
<1>1. pc[r] = "unsent" /\ \A n \in Modules : stage[n] # "script"
  BY DEF Send, Goto, Crash, QuietLoad
<1>2. PICK m \in Modules : Running(m) # {}
  BY DEF Send
<1>3. \E a \in Actors : pc[a] \in Inside /\ target[a] = m
  BY <1>1, <1>2 DEF Running, Inside
<1>4. ctx[m]
  BY <1>3 DEF EntryInv
<1>5. templates \in Modules
  BY <1>2, RunningPrepared
<1> QED BY <1>4, <1>5, SingleInstance DEF SingleInstance

\* Answers find a processor after every step that sends nothing during the load
LEMMA AnswerNext ==
    ASSUME SingleInstance, TypeOK, EntryInv, AnswerInv, [Next /\ QuietLoad]_vars
    PROVE  AnswerInv'
<1> USE DEF TypeOK, AnswerInv
<1>1. CASE UNCHANGED vars
  BY <1>1 DEF vars
<1>2. CASE MissingKey \/ FailToRead
  BY <1>2 DEF MissingKey, FailToRead, Crash, loading
<1>3. ASSUME NEW m \in Modules, Load(m) PROVE AnswerInv'
  <2>1. /\ UNCHANGED <<pc, target, crash>>
        /\ \A n \in Modules : ctx[n] => ctx'[n]
    BY <1>3 DEF Load, RejectConfiguration, RejectScript, StartScript, FinishScript,
       Publish, SetHandlers, PrepareIsolate
  <2>2. \A r \in Requests : r \in Actors /\ (pc[r] = "open" => target[r] \in Modules)
    BY DEF Actors
  <2> QED BY <2>1, <2>2
<1>4. ASSUME NEW t \in Threads, NEW m \in Modules, DeliverEvent(t, m) PROVE AnswerInv'
  BY <1>4, V8ModuleAssumption DEF DeliverEvent, Goto, loading, Actors
<1>5. ASSUME NEW r \in Requests, Send(r), QuietLoad PROVE AnswerInv'
  <2>1. r \in Actors
    BY DEF Actors
  <2>2. CASE Crash("template")
    BY <2>2 DEF Crash, loading
  <2>3. CASE ~Crash("template")
    <3>1. /\ pc' = [pc EXCEPT ![r] = "open"] /\ target' = [target EXCEPT ![r] = templates]
          /\ UNCHANGED <<ctx, crash>>
      BY <1>5, <2>3 DEF Send, Goto, loading
    <3>2. ctx[templates]
      BY <1>5, <2>1, <3>1, SendPublished, SingleInstance
    <3> QED BY <2>1, <3>1, <3>2 DEF Actors
  <2> QED BY <2>2, <2>3
<1>6. ASSUME NEW r \in Requests, OnCloseFailed(r) \/ OnClose(r) PROVE AnswerInv'
  BY <1>6 DEF OnCloseFailed, OnClose, Goto, loading, Actors
<1>7. ASSUME NEW a \in Actors, Run(a) PROVE AnswerInv'
  BY <1>7 DEF Run, AcquireLocker, KeepContext, ReloadScript, FinishReload, Return, Goto,
     loading, Actors
<1> QED BY <1>1, <1>2, <1>3, <1>4, <1>5, <1>6, <1>7 DEF Next

\* With one instance, whose script sends nothing when it is first run, no answer
\* finds mod->ctx unset: it takes a request of a script that is being loaded, or
\* of a second instance
THEOREM AnswersFindProcessor ==
    ASSUME SingleInstance
    PROVE  QuietSpec => []EarlyAnswerSurvived
<1>1. Init => AnswerInv
  BY V8ModuleAssumption DEF Init, AnswerInv, Actors
<1>2. TypeOK /\ EntryInv /\ AnswerInv /\ [Next /\ QuietLoad]_vars => AnswerInv'
  BY AnswerNext, SingleInstance
<1>3. TypeOK /\ EntryInv /\ [Next /\ QuietLoad]_vars => TypeOK' /\ EntryInv'
  BY NextHolds
<1>4. AnswerInv => EarlyAnswerSurvived
  BY DEF AnswerInv, EarlyAnswerSurvived
<1> QED BY <1>1, <1>2, <1>3, <1>4, InitHolds, PTL DEF QuietSpec
=============================================================================
