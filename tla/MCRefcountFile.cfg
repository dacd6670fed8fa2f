SPECIFICATION FairSpec
CONSTANTS
    c1 = c1
    c2 = c2
    c3 = c3
    p1 = p1
    p2 = p2
    a = a
    b = b
    NoCall = NoCall
    NoFile = NoFile
    Nobody = Nobody
    Client = {c1, c2, c3}
    Process = {p1, p2}
    ProcOf <- MCProcOf
    Asks <- MCAsks
    Project = {a, b}
    Dep = {"postgres"}
PROPERTIES
    Atomic
    CallsEnd
