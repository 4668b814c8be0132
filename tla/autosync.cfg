SPECIFICATION Spec
CONSTANTS
    Procs = {p1, p2}
    LastDay = 3
    WindowSizes = {1, 2}
    MaxAttempts = 2
    Versions = {1, 2}
    MaxDeaths = 1
SYMMETRY Symmetry
INVARIANTS
    TypeOK
    CheckpointCovered
    OneLockHolder
    LockHasOwner
    StatusAnnouncesStart
    CompletedNotRerun
CHECK_DEADLOCK FALSE
