# TLA+ specifications of the mesibo V8 module

The repository holds a loadable module of the mesibo messaging server. It runs a
JavaScript file with V8: the host reports message events, the script answers by
sending messages and HTTP requests. The module is small, and nearly all that is
hard in it comes from three sources: host threads that share one isolate, a
script file that is reloaded while events go on, and C contexts whose life the
host and the module share.

All paths below are relative to `v8-module/`.

## 1. Inventory

| Component | Source | State | Operations |
|---|---|---|---|
| `V8Module` | `v8_module.cpp`, `include/v8_module.h` | the platform, one isolate per instance, `v8_config_t`, `mod->ctx` | `mesibo_module_v8_init`, `mesibo_v8_init`, `get_config_v8` |
| `MesiboJsProcessor` | `mesibo_js_processor.cpp` and its header | `lastchanged_`, `context_`, three listener handles, the object templates | `OnMessage`, `OnMessageStatus`, `GetContext`, `Initialize`, `ReadFile`, `ExecuteScript`, `SetCallables`, `GetGlobalFunction`, `ExecuteJsFunctionObj` |
| `MesiboJsHttp` | `mesibo_js_http.cpp` | one `http_context_t` per request, the properties of the `Http` objects | `send()`, `js_mesibo_http_onstatus`, `_ondata`, `_onclose` |
| `MesiboJsMessage` | `mesibo_js_message.cpp` | properties of the `Message` objects | `v8_on_message`, `v8_on_message_status`, `new Message()`, `send()`, the flag setters |
| `MesiboJsSocket` | `mesibo_js_socket.cpp` | `socket_context_t` | `connect()`, `write()`, `close()`, four host callbacks |
| `MesiboJsUtil` | `mesibo_js_util.cpp` | none | conversions between C and JavaScript |
| `MesiboJsDebug` | `mesibo_js_debug.cpp` | none | logging, exceptions for callables |
| V8 | `v8-lib/` | vendored | through its documented contract |

How they meet:

- The host calls `v8_on_message` and `v8_on_message_status` from its threads.
  Each takes the `v8::Locker` of the isolate and calls `GetContext`, which
  compares `st_mtime` of the script with `lastchanged_` and reloads the script
  when they differ. Then a listener is called in `context_`.
- The script calls `Http.send()`. It allocates an `http_context_t` and passes it
  to `mesibo_util_http`. The host calls `on_status` and `on_data` with it from
  any thread, without the Locker, and at last `on_close`, which takes the
  Locker, calls `GetContext` too, fills the `Http` object and calls the script.
- The script calls `Message.send()`, which converts the properties of the object
  and calls `mesibo_message`.
- Whoever edits the script file takes no lock at all.

`module.h`, the interface of the host, is not in the repository. What the host
does is modelled from how the callbacks rely on it, and is marked external.

What is hard, and what makes each component correct:

| Component | Hard behaviour | Correctness |
|---|---|---|
| `MesiboJsProcessor` | edits between the system calls of a reload; loads that fail half way; a `long` time kept in an `int`; threads waiting for one Locker | an event runs the script that is in the file; the listener handles belong together; no reload without a change; the Locker is always left; the last edit reaches the events |
| `MesiboJsHttp` | callbacks on any thread; an object sent several times; failures at every point; two fields of fixed size side by side, one of them written without a bound; C strings | no context is used after it is freed, it is known which ones are lost; each callback gets its own response and no other, once, or none, and the whole of it if a context can carry it |
| `MesiboJsMessage` | 64-bit numbers that go through 32-bit ones; parameters that are missing or no numbers; objects a script keeps, changes and sends again; early returns | what a script leaves alone of an event returns to the host as it came, cut to 32 bits; no other number is made up; enabled flags add up |
| `MesiboJsSocket` | contexts the host keeps for its callbacks | a connect the script asks for, with both callbacks, reaches the host |
| `V8Module` | a script that acts before its module is published; several instances | no callback before `mod->ctx` is set; each instance has its own objects |

`PROJECT.json` lists the hazards line by line.

## 2. Modules

| Module | What it is |
|---|---|
| `ScriptService` | what `GetContext` promises whoever edits the script, abstractly |
| `MesiboJsProcessor` | events, the Locker, `GetContext`, the reload, the listeners, and the edits of the file; implements a loaded instance of `V8Module` |
| `ScriptVersions` | `MesiboJsProcessor` with the history of the file; implements `ScriptService` |
| `MCMesiboJsProcessor` | four scripts for the small instances |
| `MCScriptVersions` | the same scripts for `ScriptVersions`, and a bound on the versions of the file |
| `MesiboJsProcessorProofs`, `ScriptVersionsProofs` | their theorems |
| `HttpExchange` | what `send()` promises a script, abstractly |
| `MesiboJsHttp` | contexts, callbacks, `Http` objects; implements `HttpExchange` and `Isolates` |
| `MCMesiboJsHttp` | content types, parts of bodies and a conversion from UTF-8 for the small instance |
| `MesiboJsHttpProofs` | its theorems |
| `MesiboJsUtil` | the conversions of unsigned numbers |
| `MesiboJsMessage` | `Message` objects, the flag setters and `send()` |
| `MCMesiboJsMessage` | events and script values for the small instance |
| `MesiboJsMessageProofs` | its theorems |
| `MesiboJsSocket` | `Socket` objects, their contexts and the callbacks of the host; its theorems |
| `MCMesiboJsSocket` | numbers for the small instance |
| `Isolates` | what V8 asks of those who use its isolates, abstractly |
| `V8Module` | the life of the instances: load, publication, templates, events, answers and reloads on one isolate; implements `Isolates` |
| `MCV8Module` | three scripts and the symmetry of threads and of requests |
| `V8ModuleProofs` | its theorems |

Some modules hold definitions marked "Mutant": a form of the definition below
them with a plausible bug. They are used to make sure that each property can
fail, and are no part of the specifications.

### MesiboJsProcessor

A thread is in one of the stages of its handler:

| Stage | Next action | Code |
|---|---|---|
| `idle` | `DeliverEvent` | `v8_on_message`, `v8_on_message_status`, and `js_mesibo_http_onclose`, which takes the same Locker and calls `GetContext` too |
| `lock` | `AcquireLocker` | `v8::Locker locker(GetIsolate())` |
| `stat` | `CheckFileChange` | `GetContext` up to the decision |
| `access` | `AccessScript` | `Initialize` up to `access` |
| `open` | `OpenScript` | `ReadFile`: `fopen`, `fseek`, `ftell` |
| `read` | `ReadScript`, `ReadNothing`, `ReadError` | `ReadFile`: the `fread` loop |
| `execute` | `ExecuteScript` | `ExecuteScript` |
| `call` | `CallListener` | the rest of `OnMessage`, `OnMessageStatus` |

A script is a name. `Defines` says which listeners it sets, `Completing` whether
it compiles and runs to its end. A listener handle holds the name of the script
its function is from, and so does `context_`. The environment replaces the file
(rename), truncates and writes it in place, or removes it, between any two steps;
each change gets a later time, or the same one if `SameSecond`. A stream keeps
the old text when the file is replaced (`linked` becomes false) and sees the new
one when it is written in place. Texts that are not empty are taken to be of the
same size, and one `fread` to take a text as it is at that moment.

`edited` is a history variable: has the file changed since the latest `stat`?
"The script in the file" means nothing to an event that is overtaken by an edit,
so freshness is stated for the events that are not.

`V8Module` makes a reload one step that finds some script and an instance of it
out of this whole module. That this leaves nothing out is the refinement
`Instance`: `V8Module` with one instance that has been loaded (`Loaded`), whose
stage `context` stands for the system calls of `GetContext`, and whose context
changes when the text has been read. `ImplementsInstance` is `LoadedSpec` under
that mapping. The end of the process on a failed read is `FailToRead`; everything
the author of the script does is a stutter.

### ScriptService and ScriptVersions

`ServesCurrentScript` is silent about events that an edit overtakes.
`ScriptService` says what holds of all of them. It numbers the versions of the
file: one per change, a removal included. An event that is delivered takes down
the version in the file; when it is served, that version or a later one is
running, unless the file was missing at some time since. A version that has been
left is never loaded again.

`MesiboJsProcessor` has no numbers, so `ScriptVersions` adds the history the
refinement needs, and restricts no step by it: `saved`, every version there has
been; `running`, the one in `context_`; `taken`, the one whose text a stream
holds; `awaiting`, what each event found. A stream belongs to the version that
was in the file at `fopen`, and goes over to a later one when the file is written
in place under it. The refinement maps `script` to `context_` and the rest to
itself; `stat`, `access`, the reads and their failures are stutters.

Two changes with one `st_mtime`, or one before the first event, go unnoticed, and
then the service is not what `ScriptService` says. What is left of it is `Loader`:
the same abstract specification, with nobody awaiting anything. A load still
takes a version that was in the file, and never goes back to an older one.

### MesiboJsUtil and MesiboJsMessage

A number is the set of its one bits. Narrowing to 32 bits is then an intersection
with `LowBits`, `|` is a union, and the -1 that `JtoC_Uint` returns for an error
has all bits. A property of an object holds such a number, null, or another value
that is no unsigned 32-bit number (`NotUint32`).

| Action | Code |
|---|---|
| `MessageClassCallback` | `new Message()` |
| `OnEvent` | `OnMessage`, `OnMessageStatus` up to the call of the listener, with `CtoJ_MessageParams` |
| `AssignNumber`, `AssignName`, `AssignBody` | a script sets a property |
| `Enable...Callback`, `SendIfOnlineCallback` | the setters, by `EnableMessageProperty` |
| `EnableWithBadParameters` | a setter called with something else than a Boolean |
| `SendBody` | `send()` of a body that is not sent |
| `SendRefused` | `send()` without `aid` or `id` |
| `SendMessage` | `send()` that reaches `mesibo_message` |

All of it happens inside the Locker, in one call from JavaScript, so each call is
one step. `refid` stands for `refid`, `groupid`, `type` and `expiry`, which the
code only copies. A body is what `GetJsMessageType` and the conversions tell
apart. `origin` and `touched` (the event an object was made for, and what the
script has changed since), `base` and `enabled` (the flags as last assigned and
the bits enabled since) are history; `sent` is the message the host has just been
given, and is forgotten by the next step.

`ReportExceptionInCallable` casts `args.Data()`, which is no function, to one.
V8 promises nothing for it, so a call has no effect or ends the process.

A name (`to`, `from`) is a model value. It goes through `NewFromUtf8` and back,
which changes nothing of a name that is UTF-8; that names are is assumed. What
`send()` allocates is not modelled: a refused one frees nothing, whatever comes
before or after, and every other frees its parameters before it returns, so
there is nothing a sequence of steps could tell.

### MesiboJsSocket

`context` are the `socket_context_t` that are allocated, `host` those passed to
`mesibo_util_socket_connect`. `SocketConnectCallback` is `connect()` as it is
written: `JtoC_SocketParams` wants an object that is null or undefined, and
`mod` of the new context stays NULL. The callbacks are translated in full
although they are out of reach: the theorems say so, and would be the first to
fail if the test were put right. `on_write` and `on_close` are empty functions.

### MesiboJsHttp

`transfer` is the host's view of a request, `heap` the state of the context,
`status`, `memory` and `datalen` its fields, `properties` what the `Http` objects
show, and `pc` the progress of an `on_close`. `lock` is the Locker: an `on_close`
has it, or an event (`Event` stands for all of them). `sent`, `longest` and `seen`
are history: what the callbacks have taken of the response, the longest type
among it, and what the script's callback has found.

| Action | Code |
|---|---|
| `HttpCallback` | `HttpCallback`, `JtoC_HttpCallbackContext`, `JtoC_HttpOptions` |
| `HttpCallbackBadFunction` | `send()` with an `ondata` that is no function |
| `OnStatus`, `OnStatusWithoutType` | `js_mesibo_http_onstatus` |
| `OnData`, `OnDataError` | `js_mesibo_http_ondata` |
| `OnCloseFailed`, `OnClose` | `js_mesibo_http_onclose` up to the Locker |
| `AcquireLocker`, `GetContext`, `SetProperties`, `CallCallback`, `DestroyContext` | the rest of it |
| `EnterEvent`, `LeaveEvent`, `EventFailsToRead` | `OnMessage`, `OnMessageStatus`, as far as requests can tell |

A call that changes nothing is no action: `on_data` for another part of the
response than its body.

*Memory.* `response_type` (`TypeLen` bytes) and `buffer` (`BufferLen` bytes) are
one sequence, `memory`, in the order of the struct. `on_status` copies a type
without its zero byte and without a test, so a type of `TypeLen` bytes or more
runs into the buffer, and the C string `response_type` goes on there; the body is
written over such an end of a type, or the type over the body, whichever comes
later. A type of `MemoryLen` bytes or more would reach `datalen` and the pointers
behind the buffer; `ResponseAssumption` leaves these out. The byte behind a full
buffer is the low byte of `datalen`, which is then 0x10000: on a little-endian
machine it is zero and ends the C string. The model relies on that.

*Strings.* Both texts are cut at their first zero byte (`CString`) and converted
by `String::NewFromUtf8`, which is a constant: it makes some string out of every
sequence of bytes, and nothing else is assumed of it (`Utf8Assumption`). What a
callback sees is therefore compared with the conversion of what was sent, and
never with the bytes. The instance has a byte that is no UTF-8.

*The reload.* `GetContext` of an `on_close` may reload the script. That touches
nothing of a request, but it may read for ever in a file that is truncated (`pc`
is then `read`, and the Locker is never left) or end the process (`aborted`). An
event may end it in the same way.

*The host.* The order of its calls is assumed: for one request they come one at a
time; a callback that returns `MESIBO_RESULT_FAIL` ends the transfer; and a failed
transfer ends with `on_close(MESIBO_RESULT_FAIL)`, announced by `on_data` with a
negative progress or not. It may refuse a request, and may call `on_status` any
number of times.

`HttpExchange` has three variables: how far a request has got, what has been
received of its response, and the answer the script was given. The refinement
maps `sent`, converted, and `seen` to the last two, and computes the stage from
`transfer` and `seen`. A response that a context cannot carry is received as
`Garbled`, and may be answered with any other.

Which responses those are, `Intact` says: a context carries a response whose last
type has room for a zero byte and is no shorter than any before it, and whose body
has no zero byte. `CallbackSeesOwnResponse` is what a script expects, for these.
`AnswerOfOwnRequest` has no such condition: whatever the two fields and the C
strings make of a response, the status is that of this request, the type begins
with what its field keeps of the last one, and the body is there up to its first
zero byte, unless some type was longer than its field.

### V8Module

This module looks at the whole from above. The host loads instances one after
another, which is assumed (`MayLoad`); an instance goes through the stages of
`mesibo_module_v8_init`:

| Stage | Next action | Code |
|---|---|---|
| `unloaded` | `StartScript`, `RejectConfiguration`, `RejectScript` | `get_config_v8`, `mesibo_v8_init`, `Initialize` up to the first line of the script |
| `script` | `FinishScript` | the script runs, `SetCallables` |
| `ran` | `Publish` | `m->ctx = vc` |
| `published` | `SetHandlers` | `m->on_message`, `m->on_message_status` |
| `loaded`, `failed` | none | |

`MissingKey` is a configuration without `log` or `script`: `atoi` or `strdup` of
NULL ends the process. `FailToRead` ends it from `unloaded` and from a reload alike:
`ToLocalChecked` of a read that failed.

An actor is a host thread with an event or the `on_close` of a request. It takes
the Locker of the isolate of its `target`, reloads the script or not, calls a
function and returns. A reload finds any script, since `MesiboJsProcessor` says
which; an answer is one step, since `MesiboJsHttp` says what is in it. What this
module adds is what neither can say: which instance and which script a callback
belongs to.

`templates` names the instance for which the static object templates were made.
A script that is at work in another isolate (`Running`) and calls `Http.send()`
uses a template, and the `mod` inside it, of that first instance. V8 promises
nothing for such a use, so `Send` either succeeds, with the request bound to the
wrong instance, or ends the process. Likewise an `on_close` that finds `mod->ctx`
unset follows a null pointer and ends it.

`QuietSpec` is the same module with a script that sends no request while it is
run for the first time. The theorem `AnswersFindProcessor` is about it.

### Isolates

V8 has one rule for its isolates: one user at a time, and objects stay in theirs.
`Isolates` states it as a specification of its own, in which a user enters an
isolate, works in it or leaves it, and nothing else changes it. `V8Module` maps
its actors at work and the load of an instance, which has no Locker and no name
(`NoOne`), to users, and `context` and `listener` to the state of an isolate;
`MesiboJsHttp` maps the answers and the events inside the Locker to users, and
`properties` and `seen` to the state.

## 3. Runs

| Run | Instance | Shows |
|---|---|---|
| `processor_safety` | 2 threads, 4 scripts, times 2 to 5 with `IntMax` 3, all kinds of edits and read faults | `TypeOK`, `ServesCurrentScript`, `ListenersFromOneScript`, `ImplementsService`, `ImplementsInstance` |
| `processor_same_second` | the same with times 2 to 4, of which changes may share any (`SameSecond`) and may come before the first event (`EarlySaves`), up to 3 versions of the file (`FewVersions`) | `ImplementsLoader` |
| `processor_liveness` | 2 threads, 3 times up to `IntMax`, saves in place, `StickyEOF`, fair threads | `NoNeedlessReload`, `LockerReleased`, `LastEditServed` |
| `http_safety` | 2 requests on 1 object, 3 bytes, of which one is zero and one no UTF-8, two fields of 2 bytes, types of 1 to 3 bytes, parts of 1 and 2, events, fair `on_close` | `TypeOK`, `ContextLiveWhileUsed`, `ContextFreed`, `CallbackSeesOwnResponse`, `AnswerOfOwnRequest`, `ClosedAnswered`, `ImplementsExchange`, `ImplementsIsolates` |
| `message_safety` | 1 object, 2 events, numbers of 5 bits of which 4 are low | `TypeOK`, `RoundTrip`, `WideNumberIsScripts`, `SentTextIsScripts`, `FlagsExact` |
| `module_safety` | 2 instances, 2 threads, 2 requests, 3 scripts, threads and requests symmetric | `TypeOK`, `IsolateOneThread`, `EventFindsListener`, `ImplementsIsolates` |

Two threads are enough for every conflict about the Locker: one inside, one
waiting or arriving. Four times allow three changes: one before, one during and
one after a reload; two of them lie beyond `IntMax` and wrap around in
`lastchanged_`. The scripts differ in the listeners they set, so that a
handle from the wrong script shows, and one sets a listener and then throws. A
file whose changes share a time has no bound on its versions but `FewVersions`:
three are the one in `context_`, the one a stream holds and a later one. Two
requests on one object are the case in which answers can get mixed up. A field of
two bytes can be empty, half full, exactly full and overrun in one step or two:
there is a type that leaves room for a zero byte, one that fills its field and is
read on into the buffer, and one that writes into it; a body that is cut, one
that is not, and one that is too long. Two instances are what it takes to use a
template of another isolate; the three scripts set `onmessage`, leave it out, or
set it and then throw. The symmetry is sound: threads and requests are compared
for equality only, and the runs with symmetry check safety only. One `Message`
object is enough: no call touches two of them, and they share no state; the
theorems are about any number. Its bits are the three flags,
the sign bit of an `int`, and one that does not fit into 32; one of its two
events has an `id` that is a multiple of 2^32.

Six runs end in a violation, and each is a disagreement between the code and
its comments or documentation:

| Run | Property | What happens |
|---|---|---|
| `processor_saved_before_first_event` | `ServesCurrentScript` | the first event records the time of a script it has not loaded |
| `processor_failed_load` | `CalleeOfOwnContext` | the new context with the old listener |
| `message_body` | `EventShowsText` | the text of a message is not in the object `on_message` is called with |
| `socket_connect` | `ConnectReachesHost` | the inverted test in `JtoC_SocketParams` |
| `module_answer_during_load` | `EarlyAnswerSurvived` | the answer to a request from the top level of a script comes before `mod->ctx` is set |
| `module_second_instance` | `ObjectsOfOwnIsolate` | the static templates belong to the isolate of the first instance |

The cause of three of them is pinned down by what is proved: with one instance,
whose script sends nothing while it is loaded, neither fault of `V8Module` is
left (`OwnTemplates`, `AnswersFindProcessor`), and the
wrong listener takes a failed load (`FailedLoadOnly`).

Two more are seen by changing one value of a passing run, and are stated as
conditions of the theorems: with `SameSecond` two saves have one `st_mtime`, and
`ServesCurrentScript` fails (`ImplementsLoader`, which is checked with it, is what
is left); with a time beyond `IntMax`, `NoNeedlessReload` does. The limits of an
`http_context_t` are conditions inside its properties: `ContextFreed` names the
two ways to lose a context, a request the host refuses and a failure it does not
announce, and `Intact` the responses that do not reach a callback as they are.

Deadlock is switched off where the system may really stop: when V8 has ended the
process (every run with read faults or removals, and those of messages), when all requests of a bounded
instance are done, and when every instance has failed to load.

## 4. Fairness

`MesiboJsProcessor!FairSpec` has weak fairness for what a thread does inside the
Locker: the code there never waits. A free Locker goes to some thread that waits
for it (weak fairness of the union), not to each of them, because `v8::Locker`
promises no order. Nothing makes the host deliver events or an author stop
editing; `LastEditServed` therefore assumes that events go on and the script
settles. The liveness run has every kind of edit. If a file is truncated after `ftell`,
`fread` may return nothing for ever (`StickyEOF`), and the handler spins with the
Locker held: `LockerReleased` admits this case (`Truncated`) and no other.

`MesiboJsHttp!FairSpec` has weak fairness for what each `on_close` does inside the
Locker, where it never waits, and for `AcquireLocker` of some request that waits
for a free Locker (the union again: `v8::Locker` promises no order). Events are
not fair, and nothing keeps them from taking the Locker for ever, one after the
other, or keeping it; `ClosedAnswered` therefore assumes that they leave it alone
at last. The instance has finitely many requests, each of which takes the Locker
once, so that then each gets its turn, unless a reload does not return or ends
the process, which the property admits. JavaScript is taken to return. That the
host calls `on_close` at all is not assumed.

## 5. Theorems

TLAPS checks the following for all values of the constants that satisfy the named
assumptions of the modules.

`MesiboJsProcessorProofs`:

- `TypeCorrect`: `TypeOK`.
- `LockerOwner`: `LockInv`, the owner of the Locker is the thread that is inside
  its handler.
- `RecordedTime`: `RecordInv`, without an edit since the latest `stat`,
  `lastchanged_` is 0 or the `int` of the time the next `stat` will return.
- `ReloadOnlyOnChange`: `NoNeedlessReload`, from `RecordInv`, if `MaxTime <=
  IntMax`. Beyond, the `int` never equals the `long` it was made from, and every
  event reloads.
- `ListenersTogether`: `ListenersFromOneScript`, which is inductive with `TypeOK`.
- `FailedLoadOnly`: `CalleeOfOwnContext`, which does not hold, holds as long as the
  script in `context_` is one that runs to its end.
- `InstanceImplemented`: `ImplementsInstance`, without any condition. `ModuleInv`
  is what it needs: a thread that executes owns the Locker, so that there is one
  text on its way into `context_`, and no edit reaches a text once it has been read
  (`UnlinkedInv`).
- `CurrentScriptServed`: `ServesCurrentScript`, if changes have distinct times,
  start after the first event and `MaxTime <= 2 * IntMax`. The property is far
  from inductive. `FreshInv` says more: whenever the recorded time is the time of
  the file, the text on its way through `read` and `execute` is the text of the
  file, and so is `context_` if no reload is under way. An edit makes the
  recorded time differ from the time of the file, and `PastInv` (what is recorded
  is the `int` of an earlier time, 0 or -1) with the arithmetic of `ToInt` shows
  that a later time cannot be taken for it.

`ScriptVersionsProofs`, the first two under the conditions of `CurrentScriptServed`:

- `VersionsInOrder`: `VersionsInv`. While times are distinct, version `n` of the
  file has the time `StartTime + n - 1`, so the recorded time names a version
  (`Known`). `TakenInv` says that a text on its way into `context_` belongs to a
  version no older than the running one, than the one its event waits for and
  than the recorded one; `RunningInv`, that without a reload under way the
  recorded version has been served, or the file was missing since. The latter is
  why a failed `access` is harmless here, and why the abstract `Serve` has to
  admit it.
- `ServiceImplemented`: `ImplementsService`, step by step from `VersionsInv`:
  `ExecuteScript` is `Load` with the version of the text, `CallListener` is
  `Serve`, an edit is `Save`.
- `LoaderImplemented`: `ImplementsLoader`, without a condition on the times.
  `OrderInv` says that a text belongs to a version no older than the running one:
  streams are opened and loaded by one thread at a time, and an edit in place only
  moves an open stream forward.

`MesiboJsHttpProofs`:

- `TypeCorrect`: `TypeOK`, in particular that the body never outgrows the buffer.
- `ContextNotFreedEarly`: `ContextLiveWhileUsed`, from `WorkInv`, which says who
  is inside the Locker and that every context the host may still use is live.
- `ContextsFreed`: `ContextFreed`, from the same invariant, with no condition on
  the host.
- `OwnResponseSeen` and `OwnAnswerSeen`: `CallbackSeesOwnResponse` and
  `AnswerOfOwnRequest`, for fields of any size, any bytes, any parts and any
  types of less than `MemoryLen` bytes. `MemoryInv` says what is in the memory
  of a context: the field begins with what it keeps of the last type, there is
  nothing but zero bytes behind the longest type in the field, and unless a type
  was longer than it the buffer holds the body and zero bytes behind it. The
  lemmas about `CString` turn this into `Shows`, what an object made from the
  context shows, and `SeenInv` carries it from `SetProperties` to the callback: no
  other request changes the object in between, as that takes the Locker.
- `ExchangeImplemented`: `ImplementsExchange`, step by step from `SeenInv`.
- `IsolateImplemented`: `ImplementsIsolates`, from `WorkInv`.

`MesiboJsMessageProofs`:

- `TypeCorrect`: `TypeOK`, for numbers of any width.
- `UntouchedReturns` and `WideNumbers`: `RoundTrip` and `WideNumberIsScripts`.
  Both are about the moment of `send()`; `Untouched` is what makes them hold at
  that moment: a property the script has not touched is null, in an object it
  made, or the low half of what the event brought.
- `TextsAreScripts`: `SentTextIsScripts`. An object has no text until the script
  sets one (`NoTextUnlessSet`), be it new or of an event: what `message_body`
  shows of one event is true of all, and `send()` never repeats what was received.
- `FlagsKept`: `FlagsExact`. The lemma `EnableFlags` does the arithmetic: reading
  the flags, adding bits and writing them back commutes with the two conversions.

`MesiboJsSocket`:

- `HostNeverReached`: if `connect()` is called on an object, which V8 sees to
  (`ThisIsObject`), no socket is ever passed to the host.
- `ScriptNeverCalled`: without that assumption too, no callback of a socket calls
  a function of a script, because no context has a `mod`.

`V8ModuleProofs`:

- `TypeCorrect`: `TypeOK`. An open request has a target because a script runs
  only in an isolate that was prepared, and the templates were made before it.
- `OneThreadPerIsolate`: `IsolateOneThread`. The load of an instance takes no
  Locker; `EntryInv` says why it needs none: whoever is in the isolate owns its
  Locker and has found `ctx` set, and `ctx` is set only after the script has run.
- `ListenerFound`: `EventFindsListener`, from the same invariant: a published
  processor has had a load that went to its end, and no later reload empties the
  handle of `on_message`.
- `IsolatesImplemented`: `ImplementsIsolates`, from the same invariant.
- `OwnTemplates`: `ObjectsOfOwnIsolate`, for a single instance: a script runs only
  after the templates were made, and there is no other they could be made for.
- `AnswersFindProcessor`: `EarlyAnswerSurvived` of `QuietSpec`, for a single
  instance: a request is sent by a script that an actor is at work in, and actors
  get into an isolate only through a `ctx` that is set.

Model-checked only: the liveness properties (`LockerReleased`, `LastEditServed`,
`ClosedAnswered`), which need fairness and with it ENABLED. Every invariant and
every refinement of the passing runs is a theorem. The properties of the runs
that end in a violation are not proved, being false.

## 6. Not modelled

- What a listener does and returns, and scripts that set other listeners while
  they run: the handle of `on_message` is the one of the last load, the function
  for a status event the one of the moment.
- The wording of texts and the contents of options: properties that the code
  never fills (`responseJSON`) have no state behind them.
- A truncation to a part of a script: in the model a file written in place goes
  through the empty text only.
- Clocks that go back: later changes have later or equal times.
- The log level, logging and `ReportException`, which keep no state.
- The Persistent handles of an `http_context_t`, the copies of strings that are
  never freed (the text of a message in `send()`, `to` and `from` of an event) and
  the parameters of a refused `send()`: each call leaks them, whatever comes
  before or after.
- A content type of `MemoryLen` bytes (65 KiB) or more, which writes over `datalen`
  and the pointers of its context; names that are no UTF-8.
- `keepalive` and `verifyHost` of a socket, which never reach the host.
- V8. `v8-lib/include` holds its public headers, some 15,500 of the 17,650 lines
  of code of the repository. They declare an interface and have no behaviour to
  model; a share of modelled lines that counts them stays low whatever is
  modelled. Of the module's own C++ files all but logging is covered.

## 7. Plan

What is left, most useful first:

1. The composition of `MesiboJsProcessor` and `MesiboJsHttp` on one Locker, with
   all that is in both: the answer of a request is what reloads the script, in
   the same critical section in which the `Http` object is filled.
   `MesiboJsProcessor` has the answers as one kind of call and `V8Module` the
   outline of the rest.
2. What a listener returns, and scripts that set other listeners while they run.
3. The Persistent handles a context holds, and what of them is left when the
   context is freed.
