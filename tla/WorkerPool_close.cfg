SPECIFICATION MCSpec
CONSTANTS
    Users = {u1}
    Main = main
    Checker = checker
    Conns = {s1, s2, a1, a2}
    StaticSync = s1
    StaticAsync = a1
    MaxSync = 2
    MaxAsync = 2
    MaxQueue = 2
    Wrap = 3
    QueueBound = 2
    None = None
    u1 = u1
    u2 = u2
    s1 = s1
    s2 = s2
    a1 = a1
    a2 = a2
INVARIANT CloseIsAlone
CHECK_DEADLOCK FALSE
