SPECIFICATION Spec

CONSTANTS
    Threads = {t1}
    NoThread = NoThread
    t1 = t1
    Scripts <- MCScripts
    Completing <- MCCompleting
    Defines <- MCDefines
    Empty = "empty"
    FirstScript = "old"
    NoFile = NoFile
    NoFunction = NoFunction
    IntMax = 7
    StartTime = 1
    MaxTime = 4
    SameSecond = FALSE
    EarlySaves = FALSE
    InPlaceSaves = FALSE
    Removals = FALSE
    ReadFaults = FALSE
    StickyEOF = FALSE

INVARIANTS
    CalleeOfOwnContext
