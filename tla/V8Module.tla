------------------------------- MODULE V8Module -------------------------------
(***************************************************************************)
(* The life of the module instances: the host loads them one after another, *)
(* and each runs its script once, outside any Locker, before its processor  *)
(* is published in mod->ctx.  From then on events arrive on host threads,   *)
(* and the answers of HTTP requests on others; each of them takes the      *)
(* Locker of an isolate, may reload the script, and calls a function.       *)
(*                                                                         *)
(* Which version of a script a reload finds is the subject of              *)
(* MesiboJsProcessor, and what an answer holds that of MesiboJsHttp.  Here  *)
(* a reload finds any script, and an answer is one step.                   *)
(***************************************************************************)
EXTENDS Naturals

CONSTANTS
    Modules,      \* instances, each a mesibo_module_t with an isolate of its own
    NoModule,     \* no instance
    Threads,      \* host threads that deliver events
    Requests,     \* calls of Http.send()
    NoOne,        \* owner of a free Locker
    Scripts,      \* scripts that may be found in the files of the instances
    Completing,   \* scripts that compile and whose top level runs to its end
    Listening,    \* scripts that set onmessage
    NoScript,     \* no script has run: an empty handle
    NoFunction    \* v8::Null, kept for an onmessage that is not set

ASSUME V8ModuleAssumption ==
    /\ NoModule \notin Modules
    /\ NoOne \notin Threads \cup Requests
    /\ Threads \cap Requests = {}
    /\ Completing \subseteq Scripts /\ Listening \subseteq Scripts
    /\ {NoScript, NoFunction} \cap Scripts = {}
    /\ NoScript # NoFunction

VARIABLES
    platform,     \* gMesiboV8Platform has been created
    stage,        \* how far each instance has been loaded
    templates,    \* the instance the static object templates were made for
    ctx,          \* mod->ctx has been set
    handlers,     \* mod->on_message has been set
    context,      \* context_ of each processor, named by its script
    listener,     \* js_mesibo_on_message of each processor, named by its script
    lock,         \* owner of the Locker of each isolate
    pc,           \* where each thread and the on_close of each request is
    target,       \* the instance it works for
    sender,       \* the script that has sent each request
    crash         \* why the process has ended, or "none"

loading == <<platform, stage, templates, ctx, handlers>>
vars == <<platform, stage, templates, ctx, handlers, context, listener, lock, pc,
          target, sender, crash>>

Actors == Threads \cup Requests

\* Where an actor runs inside the isolate of its target
Inside == {"context", "reload", "call"}

Init ==
    /\ platform = FALSE
    /\ stage = [m \in Modules |-> "unloaded"]
    /\ templates = NoModule
    /\ ctx = [m \in Modules |-> FALSE]
    /\ handlers = [m \in Modules |-> FALSE]
    /\ context = [m \in Modules |-> NoScript]
    /\ listener = [m \in Modules |-> NoScript]
    /\ lock = [m \in Modules |-> NoOne]
    /\ pc = [a \in Actors |-> IF a \in Threads THEN "idle" ELSE "unsent"]
    /\ target = [a \in Actors |-> NoModule]
    /\ sender = [r \in Requests |-> NoScript]
    /\ crash = "none"

Crash(why) ==
    /\ crash = "none"
    /\ crash' = why
    /\ UNCHANGED <<loading, context, listener, lock, pc, target, sender>>

\* The handle of on_message after script s has stopped in a context of its own
Installed(m, s) ==
    IF s \notin Completing THEN listener[m]
    ELSE IF s \in Listening THEN s ELSE NoFunction

-----------------------------------------------------------------------------
(* mesibo_module_v8_init, on the thread of the host that loads modules      *)

MayLoad(m) ==
    /\ crash = "none"
    /\ stage[m] = "unloaded"
    /\ \A n \in Modules : stage[n] \in {"unloaded", "loaded", "failed"}

\* There is no configuration
RejectConfiguration(m) ==
    /\ MayLoad(m)
    /\ stage' = [stage EXCEPT ![m] = "failed"]
    /\ UNCHANGED <<platform, templates, ctx, handlers, context, listener, lock, pc,
                   target, sender, crash>>

\* get_config_v8 and mesibo_v8_init make use of both keys, log and script, without
\* a look at whether the configuration has them
MissingKey ==
    /\ \E m \in Modules : MayLoad(m)
    /\ Crash("config")

\* Mutant: the templates are left to their first use
PrepareIsolateMutant(m) ==
    /\ platform' = TRUE
    /\ UNCHANGED templates

\* mesibo_v8_init: the platform and the templates are made once, and an isolate
\* for each instance
PrepareIsolate(m) ==
    /\ platform' = TRUE
    /\ templates' = IF templates = NoModule THEN m ELSE templates

\* Initialize finds no script
RejectScript(m) ==
    /\ MayLoad(m)
    /\ PrepareIsolate(m)
    /\ stage' = [stage EXCEPT ![m] = "failed"]
    /\ UNCHANGED <<ctx, handlers, context, listener, lock, pc, target, sender, crash>>

\* Mutant: the processor is published before it runs its script
StartScriptPublished(m) ==
    /\ MayLoad(m)
    /\ PrepareIsolate(m)
    /\ stage' = [stage EXCEPT ![m] = "script"]
    /\ ctx' = [ctx EXCEPT ![m] = TRUE]
    /\ \E s \in Scripts : context' = [context EXCEPT ![m] = s]
    /\ UNCHANGED <<handlers, listener, lock, pc, target, sender, crash>>

\* Initialize and ExecuteScript up to the first line of the script; no Locker
StartScript(m) ==
    /\ MayLoad(m)
    /\ PrepareIsolate(m)
    /\ stage' = [stage EXCEPT ![m] = "script"]
    /\ \E s \in Scripts : context' = [context EXCEPT ![m] = s]
    /\ UNCHANGED <<ctx, handlers, listener, lock, pc, target, sender, crash>>

\* ReadFile fails on a script that exists, in a load or a reload
FailToRead ==
    /\ (\E m \in Modules : MayLoad(m)) \/ (\E a \in Actors : pc[a] = "context")
    /\ Crash("read")

\* Mutant: the result of Initialize is not tested
FinishScriptMutant(m) ==
    /\ crash = "none"
    /\ stage[m] = "script"
    /\ stage' = [stage EXCEPT ![m] = "ran"]
    /\ listener' = [listener EXCEPT ![m] = Installed(m, context[m])]
    /\ UNCHANGED <<platform, templates, ctx, handlers, context, lock, pc, target,
                   sender, crash>>

\* The script has stopped; a failure of Initialize ends the load
FinishScript(m) ==
    /\ crash = "none"
    /\ stage[m] = "script"
    /\ stage' = [stage EXCEPT ![m] = IF context[m] \in Completing THEN "ran" ELSE "failed"]
    /\ listener' = [listener EXCEPT ![m] = Installed(m, context[m])]
    /\ UNCHANGED <<platform, templates, ctx, handlers, context, lock, pc, target,
                   sender, crash>>

\* m->ctx = vc
Publish(m) ==
    /\ crash = "none"
    /\ stage[m] = "ran"
    /\ stage' = [stage EXCEPT ![m] = "published"]
    /\ ctx' = [ctx EXCEPT ![m] = TRUE]
    /\ UNCHANGED <<platform, templates, handlers, context, listener, lock, pc, target,
                   sender, crash>>

\* m->on_message = v8_on_message
SetHandlers(m) ==
    /\ crash = "none"
    /\ stage[m] = "published"
    /\ stage' = [stage EXCEPT ![m] = "loaded"]
    /\ handlers' = [handlers EXCEPT ![m] = TRUE]
    /\ UNCHANGED <<platform, templates, ctx, context, listener, lock, pc, target,
                   sender, crash>>

-----------------------------------------------------------------------------
(* Events and answers                                                      *)

Goto(a, from, to) ==
    /\ crash = "none"
    /\ pc[a] = from
    /\ pc' = [pc EXCEPT ![a] = to]

\* The host finds on_message set, and v8_on_message looks into mod->ctx
DeliverEvent(t, m) ==
    /\ handlers[m]
    /\ Goto(t, "idle", "lock")
    /\ target' = [target EXCEPT ![t] = m]
    /\ UNCHANGED <<loading, context, listener, lock, sender, crash>>

\* js_mesibo_http_onclose of a transfer that has failed
OnCloseFailed(r) ==
    /\ Goto(r, "open", "closed")
    /\ UNCHANGED <<loading, context, listener, lock, target, sender, crash>>

\* js_mesibo_http_onclose: mod->ctx is read and followed
OnClose(r) ==
    \/ /\ Goto(r, "open", "lock")
       /\ ctx[target[r]]
       /\ UNCHANGED <<loading, context, listener, lock, target, sender, crash>>
    \/ /\ pc[r] = "open"
       /\ ~ctx[target[r]]
       /\ Crash("answer")

\* v8::Locker locker(isolate)
AcquireLocker(a) ==
    /\ Goto(a, "lock", "context")
    /\ lock[target[a]] = NoOne
    /\ lock' = [lock EXCEPT ![target[a]] = a]
    /\ UNCHANGED <<loading, context, listener, target, sender, crash>>

\* GetContext: the script has not changed, or is not there
KeepContext(a) ==
    /\ Goto(a, "context", "call")
    /\ UNCHANGED <<loading, context, listener, lock, target, sender, crash>>

\* GetContext: a changed script is run in a new context
ReloadScript(a) ==
    /\ Goto(a, "context", "reload")
    /\ \E s \in Scripts : context' = [context EXCEPT ![target[a]] = s]
    /\ UNCHANGED <<loading, listener, lock, target, sender, crash>>

FinishReload(a) ==
    /\ Goto(a, "reload", "call")
    /\ listener' = [listener EXCEPT ![target[a]] = Installed(target[a], context[target[a]])]
    /\ UNCHANGED <<loading, context, lock, target, sender, crash>>

\* The function an actor calls, named by the script it is from
Callee(a) == IF a \in Threads THEN listener[target[a]] ELSE sender[a]

\* The function has been called, or there is none; the Locker is released
Return(a) ==
    /\ Goto(a, "call", IF a \in Threads THEN "idle" ELSE "closed")
    /\ lock' = [lock EXCEPT ![target[a]] = NoOne]
    /\ UNCHANGED <<loading, context, listener, target, sender, crash>>

\* The scripts whose code is being run in the isolate of instance m
Running(m) ==
    (IF stage[m] = "script" THEN {context[m]} ELSE {})
        \cup {context[m] : a \in {b \in Actors : pc[b] = "reload" /\ target[b] = m}}
        \cup {Callee(a) : a \in {b \in Actors : pc[b] = "call" /\ target[b] = m}}

\* Http.send(): the template of the Http object holds the module it was made
\* for, and its use in the isolate of another may end the process
Send(r) ==
    \E m \in Modules : \E s \in Running(m) \cap Scripts :
        \/ /\ Goto(r, "unsent", "open")
           /\ target' = [target EXCEPT ![r] = templates]
           /\ sender' = [sender EXCEPT ![r] = s]
           /\ UNCHANGED <<loading, context, listener, lock, crash>>
        \/ /\ pc[r] = "unsent"
           /\ templates # m
           /\ Crash("template")

-----------------------------------------------------------------------------

Load(m) ==
    \/ RejectConfiguration(m) \/ RejectScript(m) \/ StartScript(m)
    \/ FinishScript(m) \/ Publish(m) \/ SetHandlers(m)

Run(a) ==
    \/ AcquireLocker(a) \/ KeepContext(a) \/ ReloadScript(a) \/ FinishReload(a)
    \/ Return(a)

Next ==
    \/ MissingKey \/ FailToRead
    \/ \E m \in Modules : Load(m)
    \/ \E t \in Threads, m \in Modules : DeliverEvent(t, m)
    \/ \E r \in Requests : Send(r) \/ OnCloseFailed(r) \/ OnClose(r)
    \/ \E a \in Actors : Run(a)

Spec == Init /\ [][Next]_vars

\* No request is sent by a script that is run for the first time
QuietLoad ==
    \A r \in Requests :
        pc[r] = "unsent" /\ pc'[r] # "unsent" => \A m \in Modules : stage[m] # "script"

QuietSpec == Init /\ [][Next /\ QuietLoad]_vars

\* Every instance has been loaded with the script it runs, and nothing is being
\* done in any of them: where MesiboJsProcessor starts
Loaded ==
    /\ platform = TRUE /\ templates \in Modules /\ crash = "none"
    /\ \A m \in Modules :
        /\ stage[m] = "loaded" /\ ctx[m] /\ handlers[m]
        /\ context[m] \in Completing /\ listener[m] = Installed(m, context[m])
        /\ lock[m] = NoOne
    /\ \A a \in Actors : pc[a] \notin Inside \cup {"lock"}

LoadedSpec == Loaded /\ [][Next]_vars

-----------------------------------------------------------------------------
(* Properties                                                              *)

\* Each variable keeps to its set; in particular a request that has been sent is
\* answered to some instance
TypeOK ==
    /\ platform \in BOOLEAN
    /\ stage \in [Modules -> {"unloaded", "script", "ran", "published", "loaded", "failed"}]
    /\ templates \in Modules \cup {NoModule}
    /\ ctx \in [Modules -> BOOLEAN]
    /\ handlers \in [Modules -> BOOLEAN]
    /\ context \in [Modules -> Scripts \cup {NoScript}]
    /\ listener \in [Modules -> Scripts \cup {NoScript, NoFunction}]
    /\ lock \in [Modules -> Actors \cup {NoOne}]
    /\ pc \in [Actors -> {"idle", "unsent", "open", "lock", "closed"} \cup Inside]
    /\ target \in [Actors -> Modules \cup {NoModule}]
    /\ \A a \in Actors : pc[a] \in {"idle", "unsent"} \/ target[a] \in Modules
    /\ sender \in [Requests -> Scripts \cup {NoScript}]
    /\ crash \in {"none", "config", "read", "answer", "template"}

\* "An isolate can be entered by at most one thread at any given time": events,
\* answers and the load of an instance never meet in its isolate, although the
\* load takes no Locker
IsolateOneThread ==
    \A m \in Modules : \A a \in Actors :
        pc[a] \in Inside /\ target[a] = m =>
            /\ stage[m] # "script"
            /\ \A b \in Actors : pc[b] \in Inside /\ target[b] = m => a = b

\* OnMessage: an event finds a processor whose script has once run to its end,
\* and never an empty handle of on_message
EventFindsListener ==
    \A t \in Threads :
        pc[t] \in Inside => ctx[target[t]] /\ listener[target[t]] # NoScript

\* js_mesibo_http_onclose, which returns when there is no processor: an answer
\* that arrives while the script is still being loaded, or after the load has
\* failed, does not end the process
EarlyAnswerSurvived == crash # "answer"

\* "Objects from one isolate must not be used in other isolates": JavaScript
\* runs with object templates made in its own isolate
ObjectsOfOwnIsolate ==
    \A m \in Modules : Running(m) # {} => templates = m

\* Who is at work in the isolate of m; NoOne, who has no Locker, loads it
UsersOf(m) ==
    {a \in Actors : pc[a] \in Inside /\ target[a] = m}
        \cup (IF stage[m] = "script" THEN {NoOne} ELSE {})

Isolation ==
    INSTANCE Isolates WITH
        Isolates <- Modules,
        Users <- Actors \cup {NoOne},
        inside <- [m \in Modules |-> UsersOf(m)],
        state <- [m \in Modules |-> <<context[m], listener[m]>>]

\* mesibo_v8_init, which takes no Locker, and all that take one: the context and
\* the listener of an instance change only by the work of the one user of its
\* isolate, from the first run of its script on, and by no work elsewhere
ImplementsIsolates == Isolation!Spec
=============================================================================
