SPECIFICATION Spec

CONSTANTS
    Objects = {o1}
    NoObject = NoObject
    o1 = o1
    Addresses = {"bot", "user"}
    EventNames <- MCEventNames
    Null = Null
    NotUint32 = NotUint32
    Bits <- MCBits
    LowBits <- MCLowBits
    SignBit = 31
    EventNumbers <- MCEventNumbers
    ScriptNumbers <- MCScriptNumbers
    One <- MCOne
    DeliveryReceipt <- MCDelivery
    ReadReceipt <- MCRead
    Presence <- MCPresence

INVARIANTS
    TypeOK
    RoundTrip
    WideNumberIsScripts
    SentTextIsScripts
    FlagsExact

CHECK_DEADLOCK FALSE
