SPECIFICATION FairSpec
CONSTANTS
    Procs = {p1}
    LastDay = 3
    WindowSizes = {1, 2}
    MaxAttempts = 2
    Versions = {1, 2}
    MaxDeaths = 1
PROPERTIES
    EveryCallEnds
    EventuallySynced
