SPECIFICATION FairSpec

CONSTANTS
    Threads = {t1, t2}
    NoThread = NoThread
    t1 = t1
    t2 = t2
    Scripts <- MCScripts
    Completing <- MCCompleting
    Defines <- MCDefines
    Empty = "empty"
    FirstScript = "old"
    NoFile = NoFile
    NoFunction = NoFunction
    IntMax = 3
    StartTime = 1
    MaxTime = 3
    SameSecond = FALSE
    EarlySaves = FALSE
    InPlaceSaves = TRUE
    Removals = TRUE
    ReadFaults = TRUE
    StickyEOF = TRUE

PROPERTIES
    NoNeedlessReload
    LockerReleased
    LastEditServed

CHECK_DEADLOCK FALSE
