CONSTANTS
  c1 = c1
  c2 = c2
  me = me
  other = other
  db = db
  queue = queue
  Cmd = {c1, c2}
  Me = me
  Projects = {me, other}
  Deps = {db, queue}
  Starts <- MCStarts
  MaxWrites = 1
  MaxCmds = 2
  MaxEvents = 4
SPECIFICATION Spec
SYMMETRY Symmetry
CHECK_DEADLOCK FALSE
INVARIANTS
    SnapshotIsOneMoment
    SavedStays
    RestoreIsTheSnapshot
    WipedIsSaved
    EnginesBack
PROPERTIES
    SnapshotIsWhole
