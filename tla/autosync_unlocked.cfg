SPECIFICATION Spec
CONSTANTS
    Procs = {p1, p2}
    LastDay = 3
    WindowSizes = {1, 2}
    MaxAttempts = 2
    Versions = {1}
    MaxDeaths = 0
SYMMETRY Symmetry
INVARIANTS
    WindowNeedsLock
