------------------------ MODULE MesiboJsMessageProofs ------------------------
(***************************************************************************)
(* Proofs about MesiboJsMessage, for any objects, events, scripts and      *)
(* widths of numbers.                                                      *)
(***************************************************************************)
EXTENDS MesiboJsMessage, TLAPS

-----------------------------------------------------------------------------
(* The conversions                                                         *)

\* A number is neither null nor another value that is no number
LEMMA NumbersApart ==
    ASSUME NEW n \in JSNumbers
    PROVE  n # Null /\ n # NotUint32 /\ n \in CNumbers
BY NumberAssumption DEF JSNumbers, CNumbers

\* JtoC_ParamUint gives a C number, and a JavaScript number unchanged
LEMMA ParamUint ==
    ASSUME NEW v \in JSValues
    PROVE  /\ JtoC_ParamUint(v) \in CNumbers
           /\ v \in JSNumbers => JtoC_ParamUint(v) = v
           /\ v # NotUint32 => JtoC_ParamUint(v) \subseteq LowBits
<1>1. CASE v \in JSNumbers
    BY <1>1, NumbersApart DEF JtoC_ParamUint, JtoC_Uint, JSNumbers
<1>2. CASE v \in {Null, NotUint32}
    BY <1>2, NumbersApart, NumberAssumption DEF JtoC_ParamUint, JtoC_Uint, CNumbers
<1> QED  BY <1>1, <1>2 DEF JSValues

\* CtoJ_Uint gives a JavaScript number
LEMMA Uint ==
    ASSUME NEW n \in CNumbers
    PROVE  CtoJ_Uint(n) \in JSNumbers /\ CtoJ_Uint(n) = n \cap LowBits
BY DEF CtoJ_Uint, JSNumbers

\* What an object of an event is made of
LEMMA MessageParams ==
    ASSUME NEW numbers \in EventNumbers
    PROVE  CtoJ_MessageParams(numbers) \in [NumberKeys -> JSNumbers]
BY MessageAssumption, Uint DEF CtoJ_MessageParams

\* What is sent of an object is within the types of mesibo_message_params_t
LEMMA SentParams ==
    ASSUME TypeOK, NEW o \in Objects
    PROVE  JtoC_MessageParams(o) \in Params
BY ParamUint DEF TypeOK, JtoC_MessageParams, Params

LEMMA FlagConstants ==
    ASSUME NEW value \in {One, DeliveryReceipt, ReadReceipt, Presence}
    PROVE  value \in JSNumbers /\ value # {}
BY MessageAssumption

-----------------------------------------------------------------------------
(* The cases of a step                                                     *)

\* A step gives the host no message, unless it is SendMessage
LEMMA Steps ==
    ASSUME [Next]_vars
    PROVE  \/ UNCHANGED vars
           \/ \E o \in Objects, numbers \in [NumberKeys -> JSValues],
                 names \in [NameKeys -> Addresses \cup {Null}], event \in Event \cup {Created} :
                  /\ Make(o, numbers, names, event)
                  /\ event = Created =>
                        /\ \A key \in NumberKeys : numbers[key] = Null
                  /\ event # Created =>
                        /\ names = event.name
                        /\ \A key \in NumberKeys : numbers[key] = CtoJ_Uint(event.number[key])
           \/ \E o \in Objects, key \in NumberKeys, v \in JSValues : AssignNumber(o, key, v)
           \/ \E o \in Objects, key \in NameKeys, a \in Addresses \cup {Null} : AssignName(o, key, a)
           \/ \E o \in Objects, b \in Bodies : AssignBody(o, b)
           \/ \E o \in Objects, key \in {"flags", "to_online"},
                 value \in {One, DeliveryReceipt, ReadReceipt, Presence} :
                  EnableMessageProperty(o, key, value)
           \/ Crash
           \/ \E o \in Objects : SendMessage(o)
<1>1. CASE UNCHANGED vars
    BY <1>1
<1>2. CASE Next
    <2> PICK o \in Objects :
            \/ MessageClassCallback(o)
            \/ \E kind \in {"message", "status"}, numbers \in EventNumbers,
                  names \in EventNames : OnEvent(o, kind, numbers, names)
            \/ Assign(o) \/ Enable(o) \/ MessageCallback(o)
        BY <1>2 DEF Next
    <2>1. CASE MessageClassCallback(o)
        <3>1. Nothing \in [NumberKeys -> JSValues] /\ \A key \in NumberKeys : Nothing[key] = Null
            BY DEF Nothing, JSValues
        <3>2. Nobody \in [NameKeys -> Addresses \cup {Null}]
            BY DEF Nobody
        <3> QED  BY <2>1, <3>1, <3>2 DEF MessageClassCallback
    <2>2. ASSUME NEW kind \in {"message", "status"}, NEW numbers \in EventNumbers,
                 NEW names \in EventNames, OnEvent(o, kind, numbers, names)
          PROVE  \E ns \in [NumberKeys -> JSValues],
                    nm \in [NameKeys -> Addresses \cup {Null}], event \in Event \cup {Created} :
                    /\ Make(o, ns, nm, event)
                    /\ event = Created => \A key \in NumberKeys : ns[key] = Null
                    /\ event # Created =>
                          /\ nm = event.name
                          /\ \A key \in NumberKeys : ns[key] = CtoJ_Uint(event.number[key])
        <3> DEFINE event == [kind |-> kind, number |-> numbers, name |-> names]
        <3>1. CtoJ_MessageParams(numbers) \in [NumberKeys -> JSValues]
            BY MessageParams DEF JSValues
        <3>2. names \in [NameKeys -> Addresses \cup {Null}]
            BY MessageAssumption
        <3>3. event \in Event
            BY MessageAssumption DEF Event
        <3>4. event # Created
            BY <3>3 DEF Event, Created
        <3>5. \A key \in NumberKeys : CtoJ_MessageParams(numbers)[key] = CtoJ_Uint(event.number[key])
            BY DEF CtoJ_MessageParams
        <3>6. Make(o, CtoJ_MessageParams(numbers), names, event)
            BY <2>2 DEF OnEvent
        <3>7. names = event.name
            OBVIOUS
        <3> HIDE DEF event
        <3> QED  BY <3>1, <3>2, <3>3, <3>4, <3>5, <3>6, <3>7
    <2>3. CASE Assign(o)
        BY <2>3, MessageAssumption DEF Assign
    <2>4. CASE Enable(o)
        BY <2>4 DEF Enable, EnableDeliveryReceiptCallback, EnableReadReceiptCallback,
             EnablePresenceCallback, SendIfOnlineCallback, EnableWithBadParameters,
             ReportExceptionInCallable
    <2>5. CASE MessageCallback(o)
        BY <2>5 DEF MessageCallback, SendBody, SendRefused, ReportExceptionInCallable
    <2> QED  BY <2>1, <2>2, <2>3, <2>4, <2>5
<1> QED  BY <1>1, <1>2

-----------------------------------------------------------------------------
(* Types                                                                   *)

LEMMA InitTypeOK == Init => TypeOK
<1> SUFFICES ASSUME Init
             PROVE  TypeOK
    OBVIOUS
<1>1. Nothing \in [NumberKeys -> JSValues] /\ Nobody \in [NameKeys -> Addresses \cup {Null}]
    BY DEF Nothing, Nobody, JSValues
<1>2. {} \in JSNumbers /\ Null \in JSValues /\ "invalid" \in Bodies
    BY DEF JSNumbers, JSValues, Bodies
<1>3. origin \in [Objects -> Event \cup {Created}]
    BY DEF Init
<1>4. number \in [Objects -> [NumberKeys -> JSValues]]
    BY <1>1 DEF Init
<1>5. name \in [Objects -> [NameKeys -> Addresses \cup {Null}]]
    BY <1>1 DEF Init
<1> QED  BY <1>2, <1>3, <1>4, <1>5 DEF Init, TypeOK

LEMMA MakeTypeOK ==
    ASSUME TypeOK, NEW o \in Objects, NEW numbers \in [NumberKeys -> JSValues],
           NEW names \in [NameKeys -> Addresses \cup {Null}],
           NEW event \in Event \cup {Created}, Make(o, numbers, names, event)
    PROVE  TypeOK'
<1>1. "flags" \in NumberKeys
    BY DEF NumberKeys
<1>2. number' \in [Objects -> [NumberKeys -> JSValues]]
    BY DEF Make, TypeOK
<1>3. name' \in [Objects -> [NameKeys -> Addresses \cup {Null}]]
    BY DEF Make, TypeOK
<1>4. body' \in [Objects -> Bodies]
    BY DEF Make, TypeOK, Bodies
<1>5. aborted' \in BOOLEAN /\ origin' \in [Objects -> Event \cup {Created}]
    BY DEF Make, TypeOK
<1>6. touched' \in [Objects -> SUBSET Keys] /\ base' \in [Objects -> JSValues]
    BY <1>1 DEF Make, TypeOK
<1>7. enabled' \in [Objects -> JSNumbers] /\ sent' = Unsent
    BY DEF Make, TypeOK, JSNumbers
<1> QED  BY <1>2, <1>3, <1>4, <1>5, <1>6, <1>7 DEF TypeOK

LEMMA EnableTypeOK ==
    ASSUME TypeOK, NEW o \in Objects, NEW key \in {"flags", "to_online"},
           NEW value \in {One, DeliveryReceipt, ReadReceipt, Presence},
           EnableMessageProperty(o, key, value)
    PROVE  TypeOK'
<1>1. key \in NumberKeys /\ key \in Keys
    BY DEF NumberKeys, Keys
<1>2. value \in JSNumbers /\ value \in CNumbers
    BY FlagConstants, NumbersApart
<1>3. JtoC_ParamUint(number[o][key]) \in CNumbers
    BY <1>1, ParamUint DEF TypeOK
<1>4. CtoJ_Uint(JtoC_ParamUint(number[o][key]) \cup value) \in JSValues
    BY <1>2, <1>3, Uint DEF CNumbers, JSValues
<1>5. number' \in [Objects -> [NumberKeys -> JSValues]]
    BY <1>1, <1>4 DEF EnableMessageProperty, TypeOK
<1>6. enabled' \in [Objects -> JSNumbers]
    BY <1>2 DEF EnableMessageProperty, TypeOK, JSNumbers
<1>7. touched' \in [Objects -> SUBSET Keys]
    BY <1>1 DEF EnableMessageProperty, Reach, TypeOK
<1> QED  BY <1>5, <1>6, <1>7 DEF EnableMessageProperty, Reach, TypeOK

LEMMA NextTypeOK == TypeOK /\ [Next]_vars => TypeOK'
<1> SUFFICES ASSUME TypeOK, [Next]_vars
             PROVE  TypeOK'
    OBVIOUS
<1>1. CASE UNCHANGED vars
    BY <1>1 DEF vars, object, past, TypeOK
<1>2. ASSUME NEW o \in Objects, NEW numbers \in [NumberKeys -> JSValues],
             NEW names \in [NameKeys -> Addresses \cup {Null}],
             NEW event \in Event \cup {Created}, Make(o, numbers, names, event)
      PROVE  TypeOK'
    BY <1>2, MakeTypeOK
<1>3. ASSUME NEW o \in Objects, NEW key \in NumberKeys, NEW v \in JSValues,
             AssignNumber(o, key, v)
      PROVE  TypeOK'
    <2>1. number' \in [Objects -> [NumberKeys -> JSValues]]
        BY <1>3 DEF AssignNumber, TypeOK
    <2>2. touched' \in [Objects -> SUBSET Keys]
        BY <1>3 DEF AssignNumber, Reach, TypeOK, Keys
    <2>3. base' \in [Objects -> JSValues] /\ enabled' \in [Objects -> JSNumbers]
        BY <1>3 DEF AssignNumber, TypeOK, JSNumbers
    <2> QED  BY <1>3, <2>1, <2>2, <2>3 DEF AssignNumber, Reach, TypeOK
<1>4. ASSUME NEW o \in Objects, NEW key \in NameKeys, NEW a \in Addresses \cup {Null},
             AssignName(o, key, a)
      PROVE  TypeOK'
    <2>1. name' \in [Objects -> [NameKeys -> Addresses \cup {Null}]]
        BY <1>4 DEF AssignName, TypeOK
    <2>2. touched' \in [Objects -> SUBSET Keys]
        BY <1>4 DEF AssignName, Reach, TypeOK, Keys
    <2> QED  BY <1>4, <2>1, <2>2 DEF AssignName, Reach, TypeOK
<1>5. ASSUME NEW o \in Objects, NEW b \in Bodies, AssignBody(o, b)
      PROVE  TypeOK'
    BY <1>5 DEF AssignBody, Reach, TypeOK, Keys
<1>6. ASSUME NEW o \in Objects, NEW key \in {"flags", "to_online"},
             NEW value \in {One, DeliveryReceipt, ReadReceipt, Presence},
             EnableMessageProperty(o, key, value)
      PROVE  TypeOK'
    BY <1>6, EnableTypeOK
<1>7. CASE Crash
    BY <1>7 DEF Crash, object, past, TypeOK
<1>8. ASSUME NEW o \in Objects, SendMessage(o)
      PROVE  TypeOK'
    BY <1>8, SentParams DEF SendMessage, object, past, TypeOK
<1> QED  BY <1>1, <1>2, <1>3, <1>4, <1>5, <1>6, <1>7, <1>8, Steps

\* Every variable keeps to its set; in particular what a property holds is a
\* number of 32 bits, or a value that the script has assigned
THEOREM TypeCorrect == Spec => []TypeOK
BY InitTypeOK, NextTypeOK, PTL DEF Spec

-----------------------------------------------------------------------------
(* What an untouched property holds                                        *)

\* A property the script has left alone is as the event brought it, or null
Untouched ==
    \A o \in Objects :
        /\ \A key \in NumberKeys \ touched[o] :
               number[o][key] = IF origin[o] = Created THEN Null
                                ELSE CtoJ_Uint(origin[o].number[key])
        /\ \A key \in NameKeys \ touched[o] :
               origin[o] # Created => name[o][key] = origin[o].name[key]

SentInv == Untouched /\ RoundTrip /\ WideNumberIsScripts

LEMMA UntouchedStep == TypeOK /\ Untouched /\ [Next]_vars => Untouched'
<1> SUFFICES ASSUME TypeOK, Untouched, [Next]_vars
             PROVE  Untouched'
    OBVIOUS
<1>1. CASE UNCHANGED vars
    BY <1>1 DEF vars, object, past, Untouched
<1>2. ASSUME NEW o \in Objects, NEW numbers \in [NumberKeys -> JSValues],
             NEW names \in [NameKeys -> Addresses \cup {Null}],
             NEW event \in Event \cup {Created}, Make(o, numbers, names, event),
             event = Created => \A key \in NumberKeys : numbers[key] = Null,
             event # Created =>
                 /\ names = event.name
                 /\ \A key \in NumberKeys : numbers[key] = CtoJ_Uint(event.number[key])
      PROVE  Untouched'
    <2> SUFFICES ASSUME NEW p \in Objects
                 PROVE  /\ \A key \in NumberKeys \ touched'[p] :
                               number'[p][key] = IF origin'[p] = Created THEN Null
                                                 ELSE CtoJ_Uint(origin'[p].number[key])
                        /\ \A key \in NameKeys \ touched'[p] :
                               origin'[p] # Created => name'[p][key] = origin'[p].name[key]
        BY DEF Untouched, CtoJ_Uint
    <2>1. CASE p = o
        <3>1. number'[o] = numbers /\ name'[o] = names /\ origin'[o] = event
            BY <1>2 DEF Make, TypeOK
        <3> QED  BY <1>2, <2>1, <3>1
    <2>2. CASE p # o
        <3>1. /\ number'[p] = number[p] /\ name'[p] = name[p]
              /\ origin'[p] = origin[p] /\ touched'[p] = touched[p]
            BY <1>2, <2>2 DEF Make, TypeOK
        <3> QED  BY <3>1 DEF Untouched
    <2> QED  BY <2>1, <2>2
<1>3. ASSUME NEW o \in Objects, NEW key \in NumberKeys, NEW v \in JSValues,
             AssignNumber(o, key, v)
      PROVE  Untouched'
    BY <1>3 DEF AssignNumber, Reach, TypeOK, Untouched
<1>4. ASSUME NEW o \in Objects, NEW key \in NameKeys, NEW a \in Addresses \cup {Null},
             AssignName(o, key, a)
      PROVE  Untouched'
    BY <1>4 DEF AssignName, Reach, TypeOK, Untouched
<1>5. ASSUME NEW o \in Objects, NEW b \in Bodies, AssignBody(o, b)
      PROVE  Untouched'
    BY <1>5 DEF AssignBody, Reach, TypeOK, Untouched
<1>6. ASSUME NEW o \in Objects, NEW key \in {"flags", "to_online"},
             NEW value \in {One, DeliveryReceipt, ReadReceipt, Presence},
             EnableMessageProperty(o, key, value)
      PROVE  Untouched'
    BY <1>6 DEF EnableMessageProperty, Reach, TypeOK, Untouched
<1>7. CASE Crash
    BY <1>7 DEF Crash, object, past, Untouched
<1>8. ASSUME NEW o \in Objects, SendMessage(o)
      PROVE  Untouched'
    BY <1>8 DEF SendMessage, object, past, Untouched
<1> QED  BY <1>1, <1>2, <1>3, <1>4, <1>5, <1>6, <1>7, <1>8, Steps

LEMMA InitSentInv == Init => SentInv
<1> SUFFICES ASSUME Init
             PROVE  SentInv
    OBVIOUS
<1>1. Untouched
    BY DEF Init, Untouched, Nothing
<1> QED  BY <1>1 DEF Init, SentInv, RoundTrip, WideNumberIsScripts

\* A message that is sent carries the untouched properties of its object
LEMMA SendStep ==
    ASSUME TypeOK, Untouched, NEW o \in Objects, SendMessage(o)
    PROVE  RoundTrip' /\ WideNumberIsScripts'
<1>1. /\ sent'.params = JtoC_MessageParams(o)
      /\ sent'.origin = origin[o] /\ sent'.touched = touched[o]
    BY DEF SendMessage
<1>2. ASSUME NEW key \in NumberKeys \ touched[o]
      PROVE  /\ JtoC_MessageParams(o).number[key] \subseteq LowBits
             /\ origin[o] # Created =>
                    JtoC_MessageParams(o).number[key] = origin[o].number[key] \cap LowBits
    <2>1. JtoC_MessageParams(o).number[key] = JtoC_ParamUint(number[o][key])
        BY DEF JtoC_MessageParams
    <2>2. number[o][key] \in JSValues
        BY DEF TypeOK
    <2>3. CASE origin[o] = Created
        <3>1. number[o][key] = Null
            BY <2>3 DEF Untouched
        <3> QED  BY <2>1, <2>2, <2>3, <3>1, ParamUint, NumberAssumption
    <2>4. CASE origin[o] # Created
        <3>1. origin[o].number[key] \in CNumbers
            BY <2>4 DEF TypeOK, Event
        <3>2. number[o][key] = CtoJ_Uint(origin[o].number[key])
            BY <2>4 DEF Untouched
        <3>3. number[o][key] \in JSNumbers /\ number[o][key] = origin[o].number[key] \cap LowBits
            BY <3>1, <3>2, Uint
        <3> QED  BY <2>1, <2>2, <3>3, ParamUint
    <2> QED  BY <2>3, <2>4
<1>3. ASSUME NEW key \in NameKeys \ touched[o], origin[o] # Created
      PROVE  JtoC_MessageParams(o).name[key] = origin[o].name[key]
    BY <1>3 DEF JtoC_MessageParams, Untouched
<1>4. RoundTrip'
    BY <1>1, <1>2, <1>3 DEF RoundTrip
<1>5. WideNumberIsScripts'
    BY <1>1, <1>2 DEF WideNumberIsScripts
<1> QED  BY <1>4, <1>5

LEMMA NextSentInv == TypeOK /\ SentInv /\ [Next]_vars => SentInv'
<1> SUFFICES ASSUME TypeOK, SentInv, [Next]_vars
             PROVE  SentInv'
    OBVIOUS
<1>1. Untouched'
    BY UntouchedStep DEF SentInv
<1>2. CASE UNCHANGED vars
    BY <1>1, <1>2 DEF vars, SentInv, RoundTrip, WideNumberIsScripts
<1>3. CASE sent' = Unsent
    BY <1>1, <1>3 DEF SentInv, RoundTrip, WideNumberIsScripts
<1>4. CASE \E o \in Objects : SendMessage(o)
    BY <1>1, <1>4, SendStep DEF SentInv
<1>5. UNCHANGED vars \/ sent' = Unsent \/ \E o \in Objects : SendMessage(o)
    BY Steps DEF Make, AssignNumber, AssignName, AssignBody, EnableMessageProperty, Reach,
         Crash
<1> QED  BY <1>2, <1>3, <1>4, <1>5

LEMMA SentInvariant == Spec => []SentInv
BY InitTypeOK, NextTypeOK, InitSentInv, NextSentInv, PTL DEF Spec

\* What the script leaves alone of an event returns to the host as it came, cut
\* to 32 bits
THEOREM UntouchedReturns == Spec => []RoundTrip
<1>1. SentInv => RoundTrip
    BY DEF SentInv
<1> QED  BY <1>1, SentInvariant, PTL

\* A number of more than 32 bits is sent only where the script has put a value
\* that is no number
THEOREM WideNumbers == Spec => []WideNumberIsScripts
<1>1. SentInv => WideNumberIsScripts
    BY DEF SentInv
<1> QED  BY <1>1, SentInvariant, PTL

-----------------------------------------------------------------------------
(* The text of a message                                                   *)

\* An object has no `message` until the script gives it one
NoTextUnlessSet ==
    \A o \in Objects : "message" \in touched[o] \/ body[o] = "invalid"

TextInv == NoTextUnlessSet /\ SentTextIsScripts

LEMMA NoTextUnlessSetStep == TypeOK /\ NoTextUnlessSet /\ [Next]_vars => NoTextUnlessSet'
<1> SUFFICES ASSUME TypeOK, NoTextUnlessSet, [Next]_vars
             PROVE  NoTextUnlessSet'
    OBVIOUS
<1>1. CASE UNCHANGED <<body, touched>>
    BY <1>1 DEF NoTextUnlessSet
<1>2. ASSUME NEW o \in Objects, NEW numbers \in [NumberKeys -> JSValues],
             NEW names \in [NameKeys -> Addresses \cup {Null}],
             NEW event \in Event \cup {Created}, Make(o, numbers, names, event)
      PROVE  NoTextUnlessSet'
    BY <1>2 DEF Make, TypeOK, NoTextUnlessSet
<1>3. ASSUME NEW o \in Objects, NEW b \in Bodies, AssignBody(o, b)
      PROVE  NoTextUnlessSet'
    BY <1>3 DEF AssignBody, Reach, TypeOK, NoTextUnlessSet
<1>4. ASSUME NEW o \in Objects, NEW key, Reach(o, key), UNCHANGED body
      PROVE  NoTextUnlessSet'
    BY <1>4 DEF Reach, TypeOK, NoTextUnlessSet
<1> QED  BY <1>1, <1>2, <1>3, <1>4, Steps
         DEF vars, object, past, AssignNumber, AssignName, EnableMessageProperty, Crash,
             SendMessage

\* No message leaves the module unless the script has set its text: neither the
\* object of an event nor a new one has a text of its own
THEOREM TextsAreScripts == Spec => []SentTextIsScripts
<1>1. Init => TextInv
    BY DEF Init, TextInv, NoTextUnlessSet, SentTextIsScripts
<1>2. ASSUME TypeOK, TextInv, [Next]_vars
      PROVE  TextInv'
    <2>1. NoTextUnlessSet'
        BY <1>2, NoTextUnlessSetStep DEF TextInv
    <2>2. ASSUME sent' = sent \/ sent' = Unsent
          PROVE  SentTextIsScripts'
        BY <1>2, <2>2 DEF TextInv, SentTextIsScripts
    <2>3. ASSUME NEW o \in Objects, SendMessage(o)
          PROVE  SentTextIsScripts'
        <3>1. "message" \in touched[o]
            BY <1>2, <2>3 DEF SendMessage, Sendable, TextInv, NoTextUnlessSet
        <3>2. sent'.touched = touched[o]
            BY <2>3 DEF SendMessage
        <3> QED  BY <3>1, <3>2 DEF SentTextIsScripts
    <2>4. sent' = sent \/ sent' = Unsent \/ \E o \in Objects : SendMessage(o)
        BY <1>2, Steps DEF vars, Make, AssignNumber, AssignName, AssignBody,
             EnableMessageProperty, Reach, Crash
    <2>5. SentTextIsScripts'
        BY <2>2, <2>3, <2>4
    <2> QED  BY <2>1, <2>5 DEF TextInv
<1>3. TextInv => SentTextIsScripts
    BY DEF TextInv
<1> QED  BY <1>1, <1>2, <1>3, InitTypeOK, NextTypeOK, PTL DEF Spec

-----------------------------------------------------------------------------
(* The flags                                                               *)

\* What the flags are, given what they were and what has been enabled since
Flags(old, bits) ==
    IF bits = {} THEN old
    ELSE IF old = NotUint32 THEN LowBits
    ELSE (IF old = Null THEN {} ELSE old) \cup bits

LEMMA EnableFlags ==
    ASSUME NEW old \in JSValues, NEW bits \in JSNumbers, NEW value \in JSNumbers, value # {}
    PROVE  CtoJ_Uint(JtoC_ParamUint(Flags(old, bits)) \cup value) = Flags(old, bits \cup value)
<1>1. bits \cup value # {}
    OBVIOUS
<1>2. CASE old = NotUint32
    <2>1. CASE bits = {}
        BY <1>1, <1>2, <2>1, NumberAssumption
        DEF Flags, JtoC_ParamUint, JtoC_Uint, CtoJ_Uint, JSNumbers
    <2>2. CASE bits # {}
        <3>1. LowBits \in JSNumbers
            BY DEF JSNumbers
        <3>2. JtoC_ParamUint(LowBits) = LowBits
            BY <3>1, NumbersApart DEF JtoC_ParamUint, JtoC_Uint
        <3> QED  BY <1>1, <1>2, <2>2, <3>2 DEF Flags, CtoJ_Uint, JSNumbers
    <2> QED  BY <2>1, <2>2
<1>3. CASE old = Null
    <2>1. Null # NotUint32
        BY NumberAssumption
    <2>2. CASE bits = {}
        BY <1>1, <1>3, <2>1, <2>2 DEF Flags, JtoC_ParamUint, CtoJ_Uint, JSNumbers
    <2>3. CASE bits # {}
        <3>1. Flags(old, bits) = bits
            BY <1>3, <2>1, <2>3 DEF Flags
        <3>2. JtoC_ParamUint(bits) = bits
            BY NumbersApart DEF JtoC_ParamUint, JtoC_Uint
        <3>3. Flags(old, bits \cup value) = bits \cup value
            BY <1>1, <1>3, <2>1 DEF Flags
        <3> QED  BY <3>1, <3>2, <3>3 DEF CtoJ_Uint, JSNumbers
    <2> QED  BY <2>2, <2>3
<1>4. CASE old \in JSNumbers
    <2>1. Flags(old, bits) = old \cup bits /\ Flags(old, bits \cup value) = old \cup bits \cup value
        BY <1>1, <1>4, NumbersApart DEF Flags
    <2>2. JtoC_ParamUint(old \cup bits) = old \cup bits
        <3>1. old \cup bits \in JSNumbers
            BY <1>4 DEF JSNumbers
        <3> QED  BY <3>1, NumbersApart DEF JtoC_ParamUint, JtoC_Uint
    <2> QED  BY <1>4, <2>1, <2>2 DEF CtoJ_Uint, JSNumbers
<1> QED  BY <1>2, <1>3, <1>4 DEF JSValues

LEMMA FlagsStep == TypeOK /\ FlagsExact /\ [Next]_vars => FlagsExact'
<1> SUFFICES ASSUME TypeOK, FlagsExact, [Next]_vars
             PROVE  FlagsExact'
    OBVIOUS
<1>a. "flags" \in NumberKeys /\ "flags" # "to_online"
    BY DEF NumberKeys
<1>1. CASE UNCHANGED <<number, base, enabled>>
    BY <1>1 DEF FlagsExact
<1>2. ASSUME NEW o \in Objects, NEW numbers \in [NumberKeys -> JSValues],
             NEW names \in [NameKeys -> Addresses \cup {Null}],
             NEW event \in Event \cup {Created}, Make(o, numbers, names, event)
      PROVE  FlagsExact'
    BY <1>a, <1>2 DEF Make, TypeOK, FlagsExact
<1>3. ASSUME NEW o \in Objects, NEW key \in NumberKeys, NEW v \in JSValues,
             AssignNumber(o, key, v)
      PROVE  FlagsExact'
    BY <1>a, <1>3 DEF AssignNumber, TypeOK, FlagsExact
<1>4. ASSUME NEW o \in Objects, NEW key \in {"flags", "to_online"},
             NEW value \in {One, DeliveryReceipt, ReadReceipt, Presence},
             EnableMessageProperty(o, key, value)
      PROVE  FlagsExact'
    <2>1. CASE key = "flags"
        <3>1. number[o]["flags"] = Flags(base[o], enabled[o])
            BY DEF FlagsExact, Flags
        <3>2. CtoJ_Uint(JtoC_ParamUint(number[o]["flags"]) \cup value)
                = Flags(base[o], enabled[o] \cup value)
            <4>1. base[o] \in JSValues /\ enabled[o] \in JSNumbers
                BY DEF TypeOK
            <4>2. value \in JSNumbers /\ value # {}
                BY FlagConstants
            <4>3. CtoJ_Uint(JtoC_ParamUint(Flags(base[o], enabled[o])) \cup value)
                    = Flags(base[o], enabled[o] \cup value)
                BY <4>1, <4>2, EnableFlags
            <4> QED  BY <3>1, <4>3
        <3>3. /\ number'[o]["flags"] = Flags(base[o], enabled[o] \cup value)
              /\ enabled'[o] = enabled[o] \cup value /\ base' = base
            BY <1>a, <1>4, <2>1, <3>2 DEF EnableMessageProperty, TypeOK
        <3>4. \A p \in Objects \ {o} : number'[p] = number[p] /\ enabled'[p] = enabled[p]
            BY <1>4, <2>1 DEF EnableMessageProperty, TypeOK
        <3>5. ASSUME NEW p \in Objects
              PROVE  number'[p]["flags"] = Flags(base'[p], enabled'[p])
            <4>1. CASE p = o
                BY <3>3, <4>1
            <4>2. CASE p # o
                <5>1. number[p]["flags"] = Flags(base[p], enabled[p])
                    BY DEF FlagsExact, Flags
                <5> QED  BY <3>3, <3>4, <4>2, <5>1
            <4> QED  BY <4>1, <4>2
        <3> QED  BY <3>5 DEF FlagsExact, Flags
    <2>2. CASE key = "to_online"
        BY <1>a, <1>4, <2>2 DEF EnableMessageProperty, TypeOK, FlagsExact
    <2> QED  BY <2>1, <2>2
<1> QED  BY <1>1, <1>2, <1>3, <1>4, Steps
         DEF vars, object, past, AssignName, AssignBody, Crash, SendMessage

\* Enabling receipts adds bits to the flags and never loses one
THEOREM FlagsKept == Spec => []FlagsExact
<1>1. Init => FlagsExact
    BY DEF Init, FlagsExact, Nothing, NumberKeys
<1> QED  BY <1>1, InitTypeOK, NextTypeOK, FlagsStep, PTL DEF Spec
=============================================================================
