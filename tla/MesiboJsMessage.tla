--------------------------- MODULE MesiboJsMessage ---------------------------
(***************************************************************************)
(* Message objects: those that carry the parameters of an event to a       *)
(* listener, and those a script creates.  A script may keep an object for  *)
(* as long as it likes, set its properties, enable receipts, and send it   *)
(* any number of times.  All this happens inside the Locker, so each call  *)
(* is one step.                                                            *)
(*                                                                         *)
(* A name is a model value: it is taken to survive the conversions to a    *)
(* JavaScript string and back, as UTF-8 does.  What a call allocates is    *)
(* not modelled.                                                           *)
(***************************************************************************)
EXTENDS MesiboJsUtil, Naturals

CONSTANTS
    Objects,          \* Message objects
    Addresses,        \* what `to` and `from` may be
    EventNumbers,     \* numbers an event may come with: functions on NumberKeys
    EventNames,       \* the `to` and `from` of an event: functions on NameKeys
    ScriptNumbers,    \* ScriptNumbers[k]: values a script may set property k to
    One,              \* the value 1 of a mesibo_uint_t, and of
    DeliveryReceipt,  \* MESIBO_FLAG_DELIVERYRECEIPT
    ReadReceipt,      \* MESIBO_FLAG_READRECEIPT
    Presence,         \* MESIBO_FLAG_PRESENCE
    NoObject          \* stands for the event of an object a script has created

\* refid stands for refid, groupid, type and expiry, which are only copied
NumberKeys == {"aid", "id", "refid", "flags", "to_online"}
NameKeys   == {"to", "from"}
Keys       == NumberKeys \cup NameKeys \cup {"message"}

\* What GetJsMessageType and the conversions tell apart: a string or an integer,
\* an object, one for which JSON.stringify or the getter throws, a Uint8Array,
\* and anything else
Bodies == {"text", "object", "throwing", "bytes", "invalid"}

ASSUME MessageAssumption ==
    /\ EventNumbers \subseteq [NumberKeys -> CNumbers]
    /\ EventNames \subseteq [NameKeys -> Addresses \cup {Null}]
    /\ \A k \in NumberKeys : ScriptNumbers[k] \subseteq JSValues
    /\ {One, DeliveryReceipt, ReadReceipt, Presence} \subseteq JSNumbers \ {{}}
    /\ NoObject \notin Objects
    /\ Null \notin Addresses

VARIABLES
    number,       \* the number properties of the objects
    name,         \* their `to` and `from`
    body,         \* their `message`
    aborted,      \* V8 has terminated the process
    origin,       \* history: the event each object was made for
    touched,      \* history: the properties a script has changed since
    base,         \* history: flags as created or last assigned
    enabled,      \* history: the bits enabled since
    sent          \* history: the message the host has just been given

object == <<number, name, body>>
past   == <<origin, touched, base, enabled>>
vars   == <<object, past, aborted, sent>>

Nothing == [k \in NumberKeys |-> Null]
Nobody  == [k \in NameKeys |-> Null]
Created == [kind |-> "new"]
Unsent  == [object |-> NoObject]

\* The objects are as new Message() leaves them
Init ==
    /\ number = [o \in Objects |-> Nothing]
    /\ name = [o \in Objects |-> Nobody]
    /\ body = [o \in Objects |-> "invalid"]
    /\ aborted = FALSE
    /\ origin = [o \in Objects |-> Created]
    /\ touched = [o \in Objects |-> {}]
    /\ base = [o \in Objects |-> Null]
    /\ enabled = [o \in Objects |-> {}]
    /\ sent = Unsent

-----------------------------------------------------------------------------
(* New objects                                                             *)

\* An object with these numbers and names, and no `message`, in place of one
\* that the script has forgotten
Make(o, numbers, names, event) ==
    /\ ~aborted
    /\ number' = [number EXCEPT ![o] = numbers]
    /\ name' = [name EXCEPT ![o] = names]
    /\ body' = [body EXCEPT ![o] = "invalid"]
    /\ origin' = [origin EXCEPT ![o] = event]
    /\ touched' = [touched EXCEPT ![o] = {}]
    /\ base' = [base EXCEPT ![o] = numbers["flags"]]
    /\ enabled' = [enabled EXCEPT ![o] = {}]
    /\ sent' = Unsent
    /\ UNCHANGED aborted

\* new Message()
MessageClassCallback(o) == Make(o, Nothing, Nobody, Created)

\* CtoJ_MessageParams: the numbers lose their upper halves
CtoJ_MessageParams(numbers) == [k \in NumberKeys |-> CtoJ_Uint(numbers[k])]

\* OnMessage and OnMessageStatus pass a copy of the event's parameters; OnMessage
\* makes no use of `message` and `len`
OnEvent(o, kind, numbers, names) ==
    Make(o, CtoJ_MessageParams(numbers), names,
         [kind |-> kind, number |-> numbers, name |-> names])

-----------------------------------------------------------------------------
(* What a script does with an object                                       *)

Reach(o, key) ==
    /\ ~aborted
    /\ touched' = [touched EXCEPT ![o] = @ \cup {key}]
    /\ sent' = Unsent
    /\ UNCHANGED <<origin, aborted>>

\* o.key = v
AssignNumber(o, key, v) ==
    /\ Reach(o, key)
    /\ number' = [number EXCEPT ![o][key] = v]
    /\ base' = IF key = "flags" THEN [base EXCEPT ![o] = v] ELSE base
    /\ enabled' = IF key = "flags" THEN [enabled EXCEPT ![o] = {}] ELSE enabled
    /\ UNCHANGED <<name, body>>

AssignName(o, key, a) ==
    /\ Reach(o, key)
    /\ name' = [name EXCEPT ![o][key] = a]
    /\ UNCHANGED <<number, body, base, enabled>>

AssignBody(o, b) ==
    /\ Reach(o, "message")
    /\ body' = [body EXCEPT ![o] = b]
    /\ UNCHANGED <<number, name, base, enabled>>

Crash ==
    /\ ~aborted
    /\ aborted' = TRUE
    /\ sent' = Unsent
    /\ UNCHANGED <<object, past>>

\* ReportExceptionInCallable casts args.Data() to a function, which it is not:
\* the script gets an exception or nothing, or the process ends
ReportExceptionInCallable == UNCHANGED vars \/ Crash

\* enableReadReceipt(true) and the like: bits are added to a property; with false
\* nothing changes
EnableMessageProperty(o, key, value) ==
    /\ Reach(o, key)
    /\ number' = [number EXCEPT ![o][key] = CtoJ_Uint(JtoC_ParamUint(@) \cup value)]
    /\ enabled' = IF key = "flags" THEN [enabled EXCEPT ![o] = @ \cup value] ELSE enabled
    /\ UNCHANGED <<name, body, base>>

\* The same with an argument that is no Boolean
EnableWithBadParameters == ~aborted /\ ReportExceptionInCallable

EnableDeliveryReceiptCallback(o) == EnableMessageProperty(o, "flags", DeliveryReceipt)
EnableReadReceiptCallback(o)     == EnableMessageProperty(o, "flags", ReadReceipt)
EnablePresenceCallback(o)        == EnableMessageProperty(o, "flags", Presence)
SendIfOnlineCallback(o)          == EnableMessageProperty(o, "to_online", One)

-----------------------------------------------------------------------------
(* send()                                                                  *)

\* Mutant: the two strings change places
JtoC_MessageParamsMutant(o) ==
    [number |-> [k \in NumberKeys |-> JtoC_ParamUint(number[o][k])],
     name   |-> [to |-> name[o]["from"], from |-> name[o]["to"]]]

JtoC_MessageParams(o) ==
    [number |-> [k \in NumberKeys |-> JtoC_ParamUint(number[o][k])],
     name   |-> name[o]]

\* A message that is neither text nor an object is not sent: a Uint8Array is
\* dropped, an object that JSON.stringify throws for ends the process
SendBody(o) ==
    \/ body[o] = "bytes" /\ ~aborted /\ UNCHANGED vars
    \/ body[o] = "throwing" /\ Crash
    \/ body[o] = "invalid" /\ ~aborted /\ ReportExceptionInCallable

\* Mutant: what is missing counts as text
SendableMutant(o) == ~aborted /\ body[o] \notin {"bytes", "throwing"}

Sendable(o) == ~aborted /\ body[o] \in {"text", "object"}

\* aid or id is 0 or missing: nothing is sent, and the error is reported as above
SendRefused(o) ==
    LET p == JtoC_MessageParams(o)
    IN  /\ Sendable(o)
        /\ p.number["aid"] = {} \/ p.number["id"] = {}
        /\ ReportExceptionInCallable

\* mesibo_message
SendMessage(o) ==
    LET p == JtoC_MessageParams(o)
    IN  /\ Sendable(o)
        /\ p.number["aid"] # {} /\ p.number["id"] # {}
        /\ sent' = [object |-> o, params |-> p,
                    origin |-> origin[o], touched |-> touched[o]]
        /\ UNCHANGED <<object, past, aborted>>

MessageCallback(o) == SendBody(o) \/ SendRefused(o) \/ SendMessage(o)

Assign(o) ==
    \/ \E key \in NumberKeys : \E v \in ScriptNumbers[key] : AssignNumber(o, key, v)
    \/ \E key \in NameKeys, a \in Addresses \cup {Null} : AssignName(o, key, a)
    \/ \E b \in Bodies : AssignBody(o, b)

Enable(o) ==
    \/ EnableDeliveryReceiptCallback(o) \/ EnableReadReceiptCallback(o)
    \/ EnablePresenceCallback(o) \/ SendIfOnlineCallback(o)
    \/ EnableWithBadParameters

Next ==
    \E o \in Objects :
        \/ MessageClassCallback(o)
        \/ \E kind \in {"message", "status"}, numbers \in EventNumbers,
              names \in EventNames :
                OnEvent(o, kind, numbers, names)
        \/ Assign(o) \/ Enable(o) \/ MessageCallback(o)

Spec == Init /\ [][Next]_vars

-----------------------------------------------------------------------------
(* Properties                                                              *)

Params == [number : [NumberKeys -> CNumbers], name : [NameKeys -> Addresses \cup {Null}]]
Event  == [kind : {"message", "status"}, number : [NumberKeys -> CNumbers],
           name : [NameKeys -> Addresses \cup {Null}]]

\* Each variable keeps to its set: in particular a property holds a number of 32
\* bits, or what a script has put there
TypeOK ==
    /\ number \in [Objects -> [NumberKeys -> JSValues]]
    /\ name \in [Objects -> [NameKeys -> Addresses \cup {Null}]]
    /\ body \in [Objects -> Bodies]
    /\ aborted \in BOOLEAN
    /\ origin \in [Objects -> Event \cup {Created}]
    /\ touched \in [Objects -> SUBSET Keys]
    /\ base \in [Objects -> JSValues]
    /\ enabled \in [Objects -> JSNumbers]
    /\ sent \in {Unsent} \cup [object : Objects, params : Params,
                                origin : Event \cup {Created}, touched : SUBSET Keys]

\* CtoJ_MessageParams and JtoC_MessageParams: a property of an event that the
\* script has left alone goes back to the host as it came, cut to 32 bits,
\* whatever else was done to the object and to other objects
RoundTrip ==
    sent # Unsent /\ sent.origin # Created =>
        /\ \A key \in NumberKeys \ sent.touched :
               sent.params.number[key] = sent.origin.number[key] \cap LowBits
        /\ \A key \in NameKeys \ sent.touched :
               sent.params.name[key] = sent.origin.name[key]

\* "In case of integer params, All are considered 32-bit unsigned integers": a
\* number of more bits, the -1 of JtoC_Uint, is sent only for a property that
\* the script itself has set
WideNumberIsScripts ==
    sent # Unsent =>
        \A key \in NumberKeys : sent.params.number[key] \subseteq LowBits \/ key \in sent.touched

\* OnMessage puts no text into the object of an event, and send() takes none but
\* that of its object: nothing is sent, of an event or of a new object, unless the
\* script has set `message` itself since
SentTextIsScripts == sent # Unsent => "message" \in sent.touched

\* EnableMessageProperty: the flags are those the object came with or was last
\* given, and the ones enabled since; none is lost and no other is added, unless
\* they were no number
FlagsExact ==
    \A o \in Objects :
        number[o]["flags"] =
            IF enabled[o] = {} THEN base[o]
            ELSE IF base[o] = NotUint32 THEN LowBits
            ELSE (IF base[o] = Null THEN {} ELSE base[o]) \cup enabled[o]

\* OnMessage is given the text of a message; README.md:84 and
\* chatbot-example.js:45 read it as `message.message`
EventShowsText ==
    \A o \in Objects :
        origin[o].kind = "message" /\ "message" \notin touched[o] => body[o] = "text"
=============================================================================
