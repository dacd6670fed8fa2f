SPECIFICATION Spec
CONSTANTS
    p1 = p1
    p2 = p2
    c1 = c1
    c2 = c2
    NoPid = NoPid
    NoFile = NoFile
    None = None
    Service = {"api", "web"}
    Dep = {"db"}
    CustomStop = {"web"}
    Fragile = {"api"}
    Mortal = {c1}
    Swept = {"api"}
    Asked = {{"api", "web"}}
    Pid = {p1, p2}
    Command = {c1, c2}
    KindOf <- Split
    UpLock = "project"
    MutLock = "project"
SYMMETRY Interchangeable
INVARIANTS
    OrphanHasCause
PROPERTIES
    OverrideKept
