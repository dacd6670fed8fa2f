SPECIFICATION Spec
SYMMETRY Sym
CONSTANTS
    c1 = c1
    c2 = c2
    NoFile = NoFile
    Cmd = {c1, c2}
    Project = {"api", "web"}
    Kinds <- MCKinds
    Git = {"api"}
    MaxStarts = 3
    MaxFaults = 2
    MaxEdits = 1
CHECK_DEADLOCK FALSE
INVARIANTS
    OneUpAtATime
    RegistryTrue
    WorkspaceTrue
PROPERTIES
    WorkGoesByForce
