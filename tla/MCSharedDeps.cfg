SPECIFICATION Spec
CONSTANTS
    a = a
    b = b
    k = k
    Project = {a, b}
    Dep = {"postgres"}
    Uses <- SameDeps
    HasService = {a}
    UpLock <- WorkspaceLock
    DownLock <- OwnLock
    Spawned = {b}
    Leaver = {a, b}
    Cleaner = {k}
    Failing = {b, k}
INVARIANTS
    RefKeepsDepUp
    LeakHasCause
