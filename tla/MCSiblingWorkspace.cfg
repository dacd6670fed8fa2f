SPECIFICATION FairSpec
CONSTANTS
    a = a
    b = b
    c = c
    u1 = u1
    u2 = u2
    x1 = x1
    x2 = x2
    None = None
    Project = {a, b, c}
    ModeA <- PairA
    ModeB <- PairB
    LockOf <- OneLock
    Root = {u1, u2}
    Starts <- StartCorA
    Child = {x1, x2}
    Leaver = {a}
    Failing = {c}
    Hanging = {b}
INVARIANTS
    OneUpPerProject
PROPERTIES
    UpEnds
    OrphansEnd
