SPECIFICATION Spec

CONSTANTS
    Objects = {s1, s2}
    s1 = s1
    s2 = s2
    Null = Null
    Contexts = {c1, c2}
    c1 = c1
    c2 = c2
    Int32 <- MCInt32
    WideNumber = WideNumber
    NotNumber = NotNumber

INVARIANT
    ConnectReachesHost

CHECK_DEADLOCK FALSE
