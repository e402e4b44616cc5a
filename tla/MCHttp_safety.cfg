SPECIFICATION FairSpec

CONSTANTS
    Requests = {r1, r2}
    NoOne = NoOne
    Event = Event
    r1 = r1
    r2 = r2
    HttpObjects = {o1}
    o1 = o1
    NoObject = NoObject
    Unanswered = Unanswered
    Garbled = Garbled
    Bytes = {"0", "a", "c3"}
    Nul = "0"
    Strings <- MCStrings
    NewFromUtf8 <- MCNewFromUtf8
    Statuses = {200}
    ContentTypes <- MCContentTypes
    Parts <- MCParts
    TypeLen = 2
    BufferLen = 2

INVARIANTS
    TypeOK
    ContextLiveWhileUsed
    ContextFreed
    CallbackSeesOwnResponse
    AnswerOfOwnRequest

PROPERTIES
    ClosedAnswered
    ImplementsExchange
    ImplementsIsolates

CHECK_DEADLOCK FALSE
