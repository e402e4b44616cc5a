---------------------------- MODULE MesiboJsSocket ----------------------------
(***************************************************************************)
(* Socket objects: connect(), write() and close() as a script calls them,  *)
(* and the callbacks the host makes for the sockets it has been given.     *)
(* Calls are made inside the Locker, and so is the body of a callback:     *)
(* each is one step.                                                       *)
(***************************************************************************)
EXTENDS Integers, TLAPS

CONSTANTS
    Objects,      \* Socket objects, and whatever else connect() may be called on
    Null,         \* v8::Null, v8::Undefined and the NULL of C
    Contexts,     \* addresses of socket_context_t, each given out once
    Int32,        \* the 32-bit integers a script may pass
    WideNumber,   \* a number that is no 32-bit integer
    NotNumber     \* a value that is no number

Functions == {"onconnect", "ondata"}

VARIABLES
    handlers,     \* the properties of an object that hold a function
    context,      \* the socket_context_t that are allocated; none is ever freed
    host,         \* those the host has been given
    aborted,      \* V8 has terminated the process
    complete,     \* history: contexts of a connect() with both functions at hand
    called,       \* history: the functions that were called, and for which context
    told          \* history: the last call of the host

vars == <<handlers, context, host, aborted, complete, called, told>>

Allocated == {c \in Contexts : context[c] # Null}

Init ==
    /\ handlers = [o \in Objects |-> {}]
    /\ context = [c \in Contexts |-> Null]
    /\ host = {}
    /\ aborted = FALSE
    /\ complete = {}
    /\ called = {}
    /\ told = Null

\* new Socket(): an object whose callbacks are undefined
SocketClassCallback(o) ==
    /\ ~aborted
    /\ handlers' = [handlers EXCEPT ![o] = {}]
    /\ UNCHANGED <<context, host, aborted, complete, called, told>>

\* o.onconnect = ..., o.ondata = ...
Assign(o, f, isFunction) ==
    /\ ~aborted
    /\ handlers' = [handlers EXCEPT ![o] = IF isFunction THEN @ \cup {f} ELSE @ \ {f}]
    /\ UNCHANGED <<context, host, aborted, complete, called, told>>

-----------------------------------------------------------------------------
(* connect()                                                               *)

\* JtoJ_SocketCallback: ondata is looked at only after onconnect
Taken(o) == IF "onconnect" \in handlers[o] THEN handlers[o] ELSE {}

\* The socket object must be null, and have both functions
JtoC_SocketParams(o) == o = Null /\ Taken(o) = Functions

\* A context is allocated; its mod is never set.  The functions are kept in it
\* only when the object passes the first test
SocketConnectCallback(o, c) ==
    /\ ~aborted
    /\ c \notin Allocated
    /\ context' = [context EXCEPT ![c] =
            [mod |-> Null, functions |-> IF o = Null THEN Taken(o) ELSE {}]]
    /\ complete' = IF Functions \subseteq handlers[o] THEN complete \cup {c} ELSE complete
    /\ IF JtoC_SocketParams(o)
          THEN host' = host \cup {c} /\ told' = [call |-> "connect", context |-> c]
          ELSE UNCHANGED <<host, told>>
    /\ UNCHANGED <<handlers, aborted, called>>

\* The getter of cbdata throws: ToLocalChecked ends the process
ConnectThrows ==
    /\ ~aborted
    /\ aborted' = TRUE
    /\ UNCHANGED <<handlers, context, host, complete, called, told>>

-----------------------------------------------------------------------------
(* write() and close()                                                     *)

IsNumber(v) == v # NotNumber /\ v # Null

\* JtoC_Int returns -1 for a number that is no 32-bit integer
JtoC_Int(v) == IF v \in Int32 THEN v ELSE -1

\* The length is the script's word; the text is copied and freed again
SocketWriteCallback(sock, isNull, len) ==
    /\ ~aborted
    /\ IsNumber(sock) /\ IsNumber(len) /\ ~isNull
    /\ told' = [call |-> "write", sock |-> JtoC_Int(sock), len |-> JtoC_Int(len)]
    /\ UNCHANGED <<handlers, context, host, aborted, complete, called>>

SocketCloseCallback(sock) ==
    /\ ~aborted
    /\ IsNumber(sock)
    /\ told' = [call |-> "close", sock |-> JtoC_Int(sock)]
    /\ UNCHANGED <<handlers, context, host, aborted, complete, called>>

-----------------------------------------------------------------------------
(* Callbacks of the host                                                   *)

\* Both callbacks give up when the context has no module, or not the function
Callback(c, f) ==
    /\ ~aborted
    /\ c \in host
    /\ context[c].mod # Null
    /\ f \in context[c].functions
    /\ called' = called \cup {<<c, f>>}
    /\ UNCHANGED <<handlers, context, host, aborted, complete, told>>

OnConnect(c)   == Callback(c, "onconnect")
OnData(c, len) == len >= 0 /\ Callback(c, "ondata")

Arguments == Int32 \cup {WideNumber, NotNumber, Null}

Next ==
    \/ \E o \in Objects :
          \/ SocketClassCallback(o)
          \/ \E f \in Functions, b \in BOOLEAN : Assign(o, f, b)
          \/ \E c \in Contexts : SocketConnectCallback(o, c)
    \/ ConnectThrows
    \/ \E sock \in Arguments, len \in Arguments, isNull \in BOOLEAN :
          SocketWriteCallback(sock, isNull, len)
    \/ \E sock \in Arguments : SocketCloseCallback(sock)
    \/ \E c \in Contexts : OnConnect(c) \/ \E len \in Int32 : OnData(c, len)

Spec == Init /\ [][Next]_vars

-----------------------------------------------------------------------------
(* Properties                                                              *)

\* README.md:102, "you need to provide ... a set of callback functions", and you
\* will be notified: a connect() of an object that has both is passed to the host
ConnectReachesHost == complete \subseteq host

\* V8 calls a method on an object: `this` is never null or undefined
ThisIsObject == Null \notin Objects

\* No connect() reaches the host, and no function of a script is called
NothingConnected == host = {}
NothingCalled    == called = {}

\* No context has a module
Contextual ==
    /\ context \in [Contexts -> {Null} \cup [mod : {Null}, functions : SUBSET Functions]]
    /\ host \subseteq Contexts
    /\ \A c \in host : context[c] \in [mod : {Null}, functions : SUBSET Functions]

Inv == Contextual /\ NothingCalled

LEMMA InitInv == Init => Inv
BY DEF Init, Inv, Contextual, NothingCalled

LEMMA ConnectInv ==
    ASSUME Inv, handlers \in [Objects -> SUBSET Functions],
           NEW o \in Objects, NEW c \in Contexts, SocketConnectCallback(o, c)
    PROVE  Inv'
<1>1. (IF o = Null THEN Taken(o) ELSE {}) \in SUBSET Functions
    BY DEF Taken
<1>2. context'[c] \in [mod : {Null}, functions : SUBSET Functions]
    BY <1>1 DEF SocketConnectCallback, Inv, Contextual
<1>3. host' = host \/ host' = host \cup {c}
    BY DEF SocketConnectCallback
<1> QED  BY <1>2, <1>3 DEF SocketConnectCallback, Inv, Contextual, NothingCalled

LEMMA HandlersStep ==
    handlers \in [Objects -> SUBSET Functions] /\ [Next]_vars
        => (handlers \in [Objects -> SUBSET Functions])'
BY DEF Next, vars, SocketClassCallback, Assign, SocketConnectCallback, ConnectThrows,
   SocketWriteCallback, SocketCloseCallback, OnConnect, OnData, Callback

LEMMA NextInv ==
    ASSUME Inv, handlers \in [Objects -> SUBSET Functions], [Next]_vars
    PROVE  Inv'
<1>1. CASE UNCHANGED <<context, host, called>>
    BY <1>1 DEF Inv, Contextual, NothingCalled
<1>2. ASSUME NEW o \in Objects, NEW c \in Contexts, SocketConnectCallback(o, c)
      PROVE  Inv'
    BY <1>2, ConnectInv
<1>3. ASSUME NEW c \in Contexts, NEW f, Callback(c, f)
      PROVE  FALSE
    BY <1>3 DEF Callback, Inv, Contextual
<1>4. \/ UNCHANGED <<context, host, called>>
      \/ \E o \in Objects, c \in Contexts : SocketConnectCallback(o, c)
      \/ \E c \in Contexts : Callback(c, "onconnect") \/ Callback(c, "ondata")
    BY DEF Next, vars, SocketClassCallback, Assign, ConnectThrows, SocketWriteCallback,
       SocketCloseCallback, OnConnect, OnData
<1> QED  BY <1>1, <1>2, <1>3, <1>4

\* js_mesibo_socket_onconnect and _ondata never get as far as a function of a
\* script, whatever connect() lets through: no context has a mod
THEOREM ScriptNeverCalled == Spec => []NothingCalled
<1>1. Init => handlers \in [Objects -> SUBSET Functions]
    BY DEF Init
<1>2. Inv => NothingCalled
    BY DEF Inv
<1> QED  BY <1>1, <1>2, InitInv, HandlersStep, NextInv, PTL DEF Spec

\* JtoC_SocketParams refuses every object: connect() never reaches the host
THEOREM HostNeverReached ==
    ASSUME ThisIsObject
    PROVE  Spec => []NothingConnected
<1>1. Init => NothingConnected
    BY DEF Init, NothingConnected
<1>2. NothingConnected /\ [Next]_vars => NothingConnected'
    BY ThisIsObject DEF NothingConnected, ThisIsObject, Next, vars, SocketClassCallback, Assign,
       SocketConnectCallback, JtoC_SocketParams, ConnectThrows, SocketWriteCallback,
       SocketCloseCallback, OnConnect, OnData, Callback
<1> QED  BY <1>1, <1>2, PTL DEF Spec
=============================================================================
