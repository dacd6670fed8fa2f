SPECIFICATION Spec
CONSTANTS
    Service = {"api", "web"}
    Path <- MCPath
    Mode <- MCMode
    Ported = {"api"}
    Tree <- MCTree
    excludedDirs = {"dist"}
    Starts = {}
    MaxChanges = 2
    MaxOutside = 1
CHECK_DEADLOCK FALSE
INVARIANTS
    NobodysProcess
    NothingLeftBehind
PROPERTIES
    NoChangeLost
    TeardownEnds
