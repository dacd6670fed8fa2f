SPECIFICATION ProxySpec
CONSTANTS
    a = a
    b = b
    i1 = i1
    i2 = i2
    i3 = i3
    None = None
    Project = {a, b}
    OnHost = {b}
    Launched = {}
    Sharing = {b}
    NewCert = {b}
    Forcing = {a}
    Failing = {b}
    Inode = {i1, i2, i3}
SYMMETRY LockFiles
INVARIANTS
    ServedOrCut
    LastOneOut
