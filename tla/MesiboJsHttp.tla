----------------------------- MODULE MesiboJsHttp -----------------------------
(***************************************************************************)
(* HTTP requests of a script.  Http.send() allocates an http_context_t and  *)
(* hands it to the host, which calls back with it: on_status and on_data   *)
(* collect the response in it, without the Locker; on_close takes the      *)
(* Locker, copies the response into the JavaScript Http object, calls the  *)
(* script's callback and frees the context.                                *)
(*                                                                         *)
(* The order of the host's calls is not part of the repository.  It is     *)
(* modelled as the callbacks rely on it: they come one at a time for each  *)
(* request, a callback that returns MESIBO_RESULT_FAIL ends the transfer,  *)
(* a failed transfer is announced by on_data with a negative progress, and *)
(* ends with on_close(MESIBO_RESULT_FAIL).                                 *)
(*                                                                         *)
(* The two texts of a context lie side by side: response_type, of TypeLen  *)
(* bytes, and right behind it buffer, of BufferLen bytes.  They are one    *)
(* sequence here, since on_status writes into the first with no regard to  *)
(* its end, and both are read as C strings.                                *)
(***************************************************************************)
EXTENDS Integers, Sequences

CONSTANTS
    Requests,       \* calls of send()
    HttpObjects,    \* JavaScript Http objects; one may be sent several times
    NoOne,          \* owner of a free Locker
    Event,          \* owner of a Locker in which an event is handled
    Bytes,          \* what a char can be
    Nul,            \* the byte that ends a C string
    Strings,        \* JavaScript strings
    NewFromUtf8(_), \* String::NewFromUtf8: the JavaScript string made of some bytes
    Statuses,       \* status codes, 0 left out
    ContentTypes,   \* content types the server may report
    Parts,          \* parts of a body that one call of on_data may bring
    TypeLen,        \* HTTP_RESPONSE_TYPE_LEN
    BufferLen,      \* HTTP_BUFFER_LEN
    NoObject,       \* object of a request not sent yet
    Unanswered,     \* stands for the response where there is none yet
    Garbled         \* a response that a context cannot carry as it is

MemoryLen == TypeLen + BufferLen
Texts(n)  == UNION {[1 .. k -> Bytes] : k \in 0 .. n}

\* A response, as the server sends it
ResponseText ==
    [status : Statuses \cup {0}, type : ContentTypes \cup {<<>>}, body : Texts(BufferLen)]

\* A response, as an Http object shows it
ObjectText == [status : Statuses \cup {0}, type : Strings, body : Strings]

ASSUME NameAssumption ==
    /\ NoOne \notin Requests /\ Event \notin Requests \cup {NoOne}
    /\ NoObject \notin HttpObjects
    /\ Unanswered \notin ObjectText /\ Garbled \notin ObjectText

\* A content type of MemoryLen bytes or more would reach the fields behind the
\* buffer, which are not modelled
ASSUME ResponseAssumption ==
    /\ TypeLen \in Nat \ {0} /\ BufferLen \in Nat \ {0}
    /\ Nul \in Bytes
    /\ Statuses \subseteq Nat \ {0}
    /\ \A ty \in ContentTypes : ty \in Seq(Bytes \ {Nul}) /\ Len(ty) < MemoryLen
    /\ \A part \in Parts : part \in Seq(Bytes) /\ part # <<>>

\* Bytes that are no UTF-8 become other characters, but there is always a string
ASSUME Utf8Assumption == \A s \in Texts(MemoryLen) : NewFromUtf8(s) \in Strings

VARIABLES
    transfer,     \* the host's view of each request
    sent,         \* history: the response, as far as the callbacks have taken it
    longest,      \* history: the length of the longest type on_status has been given
    heap,         \* the http_context_t: not allocated, live or freed
    status,       \* its fields status,
    memory,       \*   response_type and buffer,
    datalen,      \*   and datalen
    object,       \* http_obj: the object the script sent
    properties,   \* response, responseType and status of each Http object
    lock,         \* who is inside the Locker
    pc,           \* where the on_close of each request is
    seen,         \* history: what the script's callback found in the object
    aborted       \* has the process ended?

vars == <<transfer, sent, longest, heap, status, memory, datalen, object, properties,
          lock, pc, seen, aborted>>
fields == <<status, memory, datalen>>
reported == <<sent, longest>>

NoResponse == [status |-> 0, type |-> <<>>, body |-> <<>>]

\* calloc leaves zero bytes, and the properties of a new object are null
Init ==
    /\ transfer = [r \in Requests |-> "unsent"]
    /\ sent = [r \in Requests |-> NoResponse]
    /\ longest = [r \in Requests |-> 0]
    /\ heap = [r \in Requests |-> "none"]
    /\ status = [r \in Requests |-> 0]
    /\ memory = [r \in Requests |-> [i \in 1 .. MemoryLen |-> Nul]]
    /\ datalen = [r \in Requests |-> 0]
    /\ object = [r \in Requests |-> NoObject]
    /\ properties = [o \in HttpObjects |-> Unanswered]
    /\ lock = NoOne
    /\ pc = [r \in Requests |-> "idle"]
    /\ seen = [r \in Requests |-> Unanswered]
    /\ aborted = FALSE

-----------------------------------------------------------------------------
(* Event handlers, as far as requests can tell                             *)

\* OnMessage or OnMessageStatus takes the Locker
EnterEvent ==
    /\ lock = NoOne
    /\ lock' = Event
    /\ UNCHANGED <<transfer, reported, heap, fields, object, properties, pc, seen, aborted>>

LeaveEvent ==
    /\ lock = Event
    /\ lock' = NoOne
    /\ UNCHANGED <<transfer, reported, heap, fields, object, properties, pc, seen, aborted>>

Abort ==
    /\ aborted' = TRUE
    /\ UNCHANGED <<transfer, reported, heap, fields, object, properties, lock, pc, seen>>

\* The event reloads the script, and ReadFile fails
EventFailsToRead == lock = Event /\ Abort

-----------------------------------------------------------------------------
(* Http.send()                                                             *)

\* JavaScript runs: an event handler has the Locker, or the on_close of another
\* request, in the top level of a script that its GetContext reloads, or in the
\* callback
InScript == lock = Event \/ \E r \in Requests : pc[r] \in {"context", "call"}

\* The context is allocated before the options are collected
JtoC_HttpCallbackContext(r, o) ==
    /\ object' = [object EXCEPT ![r] = o]
    /\ heap' = [heap EXCEPT ![r] = "live"]

\* mesibo_util_http takes the options, or refuses them: an object without url or
\* post gives none
JtoC_HttpOptions(r) ==
    \E t \in {"open", "refused"} : transfer' = [transfer EXCEPT ![r] = t]

HttpCallback(r, o) ==
    /\ InScript
    /\ transfer[r] = "unsent"
    /\ JtoC_HttpCallbackContext(r, o)
    /\ JtoC_HttpOptions(r)
    /\ UNCHANGED <<reported, fields, properties, lock, pc, seen, aborted>>

\* send() of an object whose onData is no function: ReportExceptionInCallable casts
\* args.Data() to a function, which it is not; without effect, or the end
HttpCallbackBadFunction == InScript /\ (Abort \/ UNCHANGED vars)

-----------------------------------------------------------------------------
(* The callbacks that collect the response: any thread, no Locker          *)

\* memcpy of n to s, behind the first at elements
Memcpy(s, at, n) ==
    [i \in 1 .. Len(s) |-> IF i - at \in 1 .. Len(n) THEN n[i - at] ELSE s[i]]

Longer(m, n) == IF m < n THEN n ELSE m

\* js_mesibo_http_onstatus: strlen(response_type) bytes, without the Nul and
\* without a test, to response_type
OnStatus(r) ==
    /\ transfer[r] = "open"
    /\ \E st \in Statuses, ty \in ContentTypes :
           /\ status' = [status EXCEPT ![r] = st]
           /\ memory' = [memory EXCEPT ![r] = Memcpy(@, 0, ty)]
           /\ sent' = [sent EXCEPT ![r] = [status |-> st, type |-> ty, body |-> @.body]]
           /\ longest' = [longest EXCEPT ![r] = Longer(@, Len(ty))]
    /\ UNCHANGED <<transfer, heap, datalen, object, properties, lock, pc, seen, aborted>>

\* js_mesibo_http_onstatus with a NULL response_type: MESIBO_RESULT_FAIL
OnStatusWithoutType(r) ==
    /\ transfer[r] = "open"
    /\ transfer' = [transfer EXCEPT ![r] = "failing"]
    /\ UNCHANGED <<reported, heap, fields, object, properties, lock, pc, seen, aborted>>

\* A part of the body is put behind those that are in the buffer
AppendPart(r, part) ==
    /\ memory' = [memory EXCEPT ![r] = Memcpy(@, TypeLen + datalen[r], part)]
    /\ datalen' = [datalen EXCEPT ![r] = @ + Len(part)]
    /\ sent' = [sent EXCEPT ![r].body = @ \o part]
    /\ UNCHANGED <<longest, transfer>>

\* Mutant: the overflow test looks at the part alone
OnDataUnbounded(r) ==
    /\ transfer[r] = "open"
    /\ \E part \in Parts : BufferLen >= Len(part) /\ AppendPart(r, part)
    /\ UNCHANGED <<heap, status, object, properties, lock, pc, seen, aborted>>

\* js_mesibo_http_ondata with a part of the body, which must leave the buffer
\* at most full
OnData(r) ==
    /\ transfer[r] = "open"
    /\ \E part \in Parts :
           IF BufferLen < datalen[r] + Len(part)
           THEN /\ transfer' = [transfer EXCEPT ![r] = "failing"]
                /\ UNCHANGED <<reported, memory, datalen>>
           ELSE AppendPart(r, part)
    /\ UNCHANGED <<heap, status, object, properties, lock, pc, seen, aborted>>

\* Mutant: the context is freed while the host goes on with the transfer
OnDataErrorMutant(r) ==
    /\ transfer[r] \in {"open", "failing"}
    /\ heap' = [heap EXCEPT ![r] = "freed"]
    /\ UNCHANGED <<transfer, reported, fields, object, properties, lock, pc, seen, aborted>>

\* js_mesibo_http_ondata with a negative progress: the transfer has failed
OnDataError(r) ==
    /\ transfer[r] \in {"open", "failing"}
    /\ transfer' = [transfer EXCEPT ![r] = "announced"]
    /\ heap' = [heap EXCEPT ![r] = "freed"]
    /\ UNCHANGED <<reported, fields, object, properties, lock, pc, seen, aborted>>

-----------------------------------------------------------------------------
(* js_mesibo_http_onclose                                                  *)

\* Mutant: the result is not tested, and the callback gets half a response
OnCloseFailedMutant(r) ==
    /\ transfer[r] = "announced"
    /\ transfer' = [transfer EXCEPT ![r] = "closing"]
    /\ pc' = [pc EXCEPT ![r] = "lock"]
    /\ UNCHANGED <<reported, heap, fields, object, properties, lock, seen, aborted>>

\* The result is MESIBO_RESULT_FAIL: cbdata is not looked at, whether or not the
\* failure was announced
OnCloseFailed(r) ==
    /\ \/ /\ transfer[r] = "announced"
          /\ transfer' = [transfer EXCEPT ![r] = "closed"]
       \/ /\ transfer[r] \in {"open", "failing"}
          /\ transfer' = [transfer EXCEPT ![r] = "dropped"]
    /\ UNCHANGED <<reported, heap, fields, object, properties, lock, pc, seen, aborted>>

OnClose(r) ==
    /\ transfer[r] = "open"
    /\ transfer' = [transfer EXCEPT ![r] = "closing"]
    /\ pc' = [pc EXCEPT ![r] = "lock"]
    /\ UNCHANGED <<reported, heap, fields, object, properties, lock, seen, aborted>>

Goto(r, from, to) == pc[r] = from /\ pc' = [pc EXCEPT ![r] = to]

\* Mutant: on_close takes no Locker
AcquireLockerMutant(r) ==
    /\ Goto(r, "lock", "context")
    /\ lock' = r
    /\ UNCHANGED <<transfer, reported, heap, fields, object, properties, seen, aborted>>

\* v8::Locker locker(isolate), for which the event handlers compete
AcquireLocker(r) ==
    /\ Goto(r, "lock", "context")
    /\ lock = NoOne
    /\ lock' = r
    /\ UNCHANGED <<transfer, reported, heap, fields, object, properties, seen, aborted>>

\* GetContext keeps the context or reloads the script, which touches nothing of a
\* request, but may find no end in reading a file that has been truncated, or end
\* the process when ReadFile fails
GetContext(r) ==
    \/ /\ \E next \in {"set", "read"} : Goto(r, "context", next)
       /\ UNCHANGED <<transfer, reported, heap, fields, object, properties, lock, seen,
                      aborted>>
    \/ pc[r] = "context" /\ Abort

\* The bytes of s that a C string function sees
CString(s) ==
    SubSeq(s, 1, CHOOSE n \in 0 .. Len(s) :
                    /\ \A i \in 1 .. n : s[i] # Nul
                    /\ n < Len(s) => s[n + 1] = Nul)

\* The C string response_type, which goes on in the buffer if the field is full
TypeString(r) == CString(memory[r])

\* The C string buffer.  A full buffer is ended by the first byte of datalen, which
\* is then BufferLen, 2^16; a buffer that is not full ends with a Nul
BodyString(r) == CString(SubSeq(memory[r], TypeLen + 1, MemoryLen))

\* What an Http object shows of a status, a type and a body: CtoJ_Uint, CtoJ_String
Shown(x) ==
    [status |-> x.status, type |-> NewFromUtf8(x.type), body |-> NewFromUtf8(x.body)]

\* What the context holds of the response
Response(r) == [status |-> status[r], type |-> TypeString(r), body |-> BodyString(r)]

SetProperties(r) ==
    /\ Goto(r, "set", "call")
    /\ properties' = [properties EXCEPT ![object[r]] = Shown(Response(r))]
    /\ UNCHANGED <<transfer, reported, heap, fields, object, lock, seen, aborted>>

\* ExecuteJsFunctionObj of http_cb, with the object as its argument
CallCallback(r) ==
    /\ Goto(r, "call", "free")
    /\ seen' = [seen EXCEPT ![r] = properties[object[r]]]
    /\ UNCHANGED <<transfer, reported, heap, fields, object, properties, lock, aborted>>

\* Mutant: the context is kept
DestroyContextLeaking(r) ==
    /\ Goto(r, "free", "idle")
    /\ transfer' = [transfer EXCEPT ![r] = "closed"]
    /\ lock' = NoOne
    /\ UNCHANGED <<reported, heap, fields, object, properties, seen, aborted>>

\* Mutant: the isolate stays locked
DestroyContextLocked(r) ==
    /\ Goto(r, "free", "idle")
    /\ heap' = [heap EXCEPT ![r] = "freed"]
    /\ transfer' = [transfer EXCEPT ![r] = "closed"]
    /\ UNCHANGED <<reported, fields, object, properties, lock, seen, aborted>>

\* mesibo_js_destroy_http_context; the Locker is released on return
DestroyContext(r) ==
    /\ Goto(r, "free", "idle")
    /\ heap' = [heap EXCEPT ![r] = "freed"]
    /\ transfer' = [transfer EXCEPT ![r] = "closed"]
    /\ lock' = NoOne
    /\ UNCHANGED <<reported, fields, object, properties, seen, aborted>>

-----------------------------------------------------------------------------

Collect(r) ==
    OnStatus(r) \/ OnStatusWithoutType(r) \/ OnData(r) \/ OnDataError(r)

\* What on_close does inside the Locker
Work(r) == GetContext(r) \/ SetProperties(r) \/ CallCallback(r) \/ DestroyContext(r)

RequestStep(r) ==
    \/ \E o \in HttpObjects : HttpCallback(r, o)
    \/ Collect(r)
    \/ OnCloseFailed(r) \/ OnClose(r)
    \/ AcquireLocker(r) \/ Work(r)

EventStep == EnterEvent \/ LeaveEvent \/ EventFailsToRead \/ HttpCallbackBadFunction

Next == ~aborted /\ (EventStep \/ \E r \in Requests : RequestStep(r))

Spec == Init /\ [][Next]_vars

\* An on_close that has the Locker goes on, and JavaScript returns.  A Locker that
\* stays free goes to some on_close that waits for it, but v8::Locker promises no
\* order among those who compete for it.  Whether the host ever calls on_close is
\* up to the server
FairSpec ==
    /\ Spec
    /\ \A r \in Requests : WF_vars(~aborted /\ Work(r))
    /\ WF_vars(~aborted /\ \E r \in Requests : AcquireLocker(r))

-----------------------------------------------------------------------------
(* Properties                                                              *)

\* Each variable keeps to its set; in particular the body never outgrows the
\* buffer of the context
TypeOK ==
    /\ transfer \in [Requests -> {"unsent", "refused", "open", "failing", "announced",
                                  "dropped", "closing", "closed"}]
    /\ sent \in [Requests -> ResponseText]
    /\ longest \in [Requests -> 0 .. MemoryLen]
    /\ heap \in [Requests -> {"none", "live", "freed"}]
    /\ status \in [Requests -> Statuses \cup {0}]
    /\ memory \in [Requests -> [1 .. MemoryLen -> Bytes]]
    /\ datalen \in [Requests -> 0 .. BufferLen]
    /\ object \in [Requests -> HttpObjects \cup {NoObject}]
    /\ properties \in [HttpObjects -> ObjectText \cup {Unanswered}]
    /\ lock \in Requests \cup {NoOne, Event}
    /\ pc \in [Requests -> {"idle", "lock", "context", "read", "set", "call", "free"}]
    /\ seen \in [Requests -> ObjectText \cup {Unanswered}]
    /\ aborted \in BOOLEAN

\* mesibo_js_destroy_http_context: as long as the host may pass the context to
\* a callback that uses it, or on_close is at work on it, it is not freed
ContextLiveWhileUsed ==
    \A r \in Requests :
        transfer[r] \in {"open", "failing", "closing"} => heap[r] = "live"

\* JtoC_HttpCallbackContext, "The caller is responsible for freeing this pointer":
\* a context that is still allocated is one that the host will use or on_close is
\* at work on, or belongs to a request the host refused, or to a transfer that
\* failed without a call of on_data; there is no other way to lose one
ContextFreed ==
    \A r \in Requests :
        heap[r] = "live" =>
            transfer[r] \in {"open", "failing", "closing", "refused", "dropped"}

\* Can the context of r carry what has been sent?  The last type has been written
\* over no longer one and fits with a Nul behind it, and no Nul cuts the body
Intact(r) ==
    /\ longest[r] = Len(sent[r].type) /\ longest[r] < TypeLen
    /\ \A i \in 1 .. Len(sent[r].body) : sent[r].body[i] # Nul

\* js_mesibo_http_onclose: the script's callback finds the response of its own
\* request in the Http object, complete, if a context can carry it; also when the
\* object has been sent several times and the answers come at once
CallbackSeesOwnResponse ==
    \A r \in Requests :
        seen[r] # Unanswered /\ Intact(r) => seen[r] = Shown(sent[r])

\* What is left of the last type of r in a field of TypeLen bytes
KeptType(r) ==
    SubSeq(sent[r].type, 1,
           IF Len(sent[r].type) < TypeLen THEN Len(sent[r].type) ELSE TypeLen)

\* js_mesibo_http_onstatus and js_mesibo_http_onclose, whatever is sent and however
\* often on_status is called: the callback finds the last status of its own
\* request, a type made of bytes that begin with the last one, as far as there is
\* room for it, and, unless a type ran over into the buffer, its body up to a Nul;
\* never a part of another request that shares the object
AnswerOfOwnRequest ==
    \A r \in Requests :
        seen[r] # Unanswered =>
            /\ seen[r].status = sent[r].status
            /\ \E tail \in Texts(MemoryLen) : seen[r].type = NewFromUtf8(KeptType(r) \o tail)
            /\ longest[r] <= TypeLen => seen[r].body = NewFromUtf8(CString(sent[r].body))

\* js_mesibo_http_onclose: once the event handlers leave the Locker alone, a
\* transfer that ends well reaches the script, unless the reload of its on_close,
\* or of another one, reads a file without end or ends the process
ClosedAnswered ==
    <>[](lock # Event) =>
        \A r \in Requests :
            transfer[r] = "closing" ~>
                \/ seen[r] # Unanswered
                \/ aborted
                \/ \E q \in Requests : pc[q] = "read"

\* How far a request has got, for the script that sent it
Stage(r) ==
    IF seen[r] # Unanswered THEN "answered"
    ELSE CASE transfer[r] = "unsent" -> "unsent"
           [] transfer[r] \in {"open", "closing"} -> "sent"
           [] OTHER -> "failed"

stages == [r \in Requests |-> Stage(r)]

\* What a context carries of what has been received
carried == [r \in Requests |-> IF Intact(r) THEN Shown(sent[r]) ELSE Garbled]

Exchange ==
    INSTANCE HttpExchange WITH
        Responses <- ObjectText,
        NoResponse <- Shown(NoResponse),
        stage <- stages,
        received <- carried,
        answer <- seen

\* Http.send(): every request is failed, or answered once, with what has been
\* received of its response, if a context can carry it
ImplementsExchange == Exchange!Spec

Isolation ==
    INSTANCE Isolates WITH
        Isolates <- {"isolate"},
        Users <- Requests \cup {Event},
        inside <- [i \in {"isolate"} |->
                      {r \in Requests : pc[r] \notin {"idle", "lock"}} \cup ({lock} \cap {Event})],
        state <- [i \in {"isolate"} |-> <<properties, seen>>]

\* js_mesibo_http_onclose: the Http objects and what callbacks find in them belong
\* to the isolate, which event handlers and answers enter one at a time
ImplementsIsolates == Isolation!Spec
=============================================================================
