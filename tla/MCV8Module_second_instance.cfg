SPECIFICATION Spec

CONSTANTS
    Modules = {m1, m2}
    NoModule = NoModule
    Threads = {t1}
    Requests = {r1}
    NoOne = NoOne
    Scripts <- MCScripts
    Completing <- MCCompleting
    Listening <- MCListening
    NoScript = NoScript
    NoFunction = NoFunction
    m1 = m1
    m2 = m2
    t1 = t1
    r1 = r1

INVARIANTS
    ObjectsOfOwnIsolate

CHECK_DEADLOCK FALSE
