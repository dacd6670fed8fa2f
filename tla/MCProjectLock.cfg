SPECIFICATION FairLockSpec
CONSTANTS
    p1 = p1
    p2 = p2
    p3 = p3
    NoLock = NoLock
    NoPid = NoPid
    Proc = {p1, p2, p3}
    Fallible = {p3}
    MayExpire = TRUE
INVARIANTS
    ExclusionUnlessLiveEvicted
PROPERTIES
    StaleLockRecovers
