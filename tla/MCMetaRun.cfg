SPECIFICATION Spec
CONSTANTS
    Project = {"edge", "api", "web", "bff"}
    Base <- MCBase
    Named <- MCNamed
    Sibling <- MCSibling
    Launcher = {"api"}
    Unhygienic = {"bff"}
    Configs <- MCConfigs
    Disks <- MCDisks
    Options <- MCOptions
    MaxCommands = 2
    MaxGone = 1
CHECK_DEADLOCK FALSE
INVARIANTS
    SuccessMeansUp
    HintHolds
PROPERTIES
    EdgeOutlives
    RunEnds
