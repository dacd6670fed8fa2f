SPECIFICATION PortsSpec
CONSTANTS
    p = p
    q = q
    Workspace = Workspace
    Nobody = Nobody
    Intruder = Intruder
    Project = {p, q}
    Plans <- MCPlans
    Shared = {"d"}
    Ceiling = 2
    LastPort = 6
    NoLockDir = {q}
    Elsewhere = {q}
    Typed = {2}
    MaxEdits = 1
    Contested = {3}
CHECK_DEADLOCK FALSE
INVARIANTS
    ConflictsGone
    PortsApart
    ServedAsAdvertised
PROPERTIES
    RestartedInPlace
