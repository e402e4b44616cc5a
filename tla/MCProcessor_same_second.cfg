SPECIFICATION VersionsSpec

CONSTANTS
    Threads = {t1, t2}
    NoThread = NoThread
    t1 = t1
    t2 = t2
    Scripts <- MCScripts
    Completing <- MCCompleting
    Defines <- MCDefines
    Empty = "empty"
    FirstScript = "old"
    NoFile = NoFile
    NoFunction = NoFunction
    IntMax = 3
    StartTime = 2
    MaxTime = 4
    SameSecond = TRUE
    EarlySaves = TRUE
    InPlaceSaves = TRUE
    Removals = TRUE
    ReadFaults = TRUE
    StickyEOF = FALSE

SYMMETRY ThreadSymmetry

CONSTRAINT FewVersions

PROPERTIES
    ImplementsLoader

CHECK_DEADLOCK FALSE
