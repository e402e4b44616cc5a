SPECIFICATION Spec

CONSTANTS
    Modules = {m1, m2}
    NoModule = NoModule
    Threads = {t1, t2}
    Requests = {r1, r2}
    NoOne = NoOne
    Scripts <- MCScripts
    Completing <- MCCompleting
    Listening <- MCListening
    NoScript = NoScript
    NoFunction = NoFunction
    m1 = m1
    m2 = m2
    t1 = t1
    t2 = t2
    r1 = r1
    r2 = r2

INVARIANTS
    TypeOK
    IsolateOneThread
    EventFindsListener

PROPERTIES
    ImplementsIsolates

SYMMETRY ActorSymmetry

CHECK_DEADLOCK FALSE
